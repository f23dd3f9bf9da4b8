----------------------------- MODULE ChanProofs -----------------------------
(***************************************************************************)
(* The safety properties of channels and select, for every set of          *)
(* goroutines, of channels and of programs, and every capacity.            *)
(*                                                                         *)
(* ChanInv is inductive.  Its parts speak of every sudog in a queue and of *)
(* every case of a sleeping goroutine; a step is reduced to one of three   *)
(* forms before any part is considered: g finishes an operation and wakes  *)
(* the goroutines in W (WakeStep), g parks (Parks), or one goroutine moves *)
(* and at most its own sudogs leave the queues (OwnStep).                  *)
(*                                                                         *)
(* RefineInv adds what the refinement of ChanSpec needs, and every action  *)
(* is shown to be Refined: a step of the abstract channels, or none.  Who  *)
(* waits there is who is Asleep here (PartnersFact), and what a queue      *)
(* holds is read off the circular buffer (PutFact, TakeFact, TurnFact).    *)
(***************************************************************************)
EXTENDS ChanClients, FiniteSetTheorems, FunctionTheorems, SequenceTheorems, TLAPS

\* A step that is slow on one machine is given time on every one.
USE SMTT(40), ZenonT(40)

-----------------------------------------------------------------------------
(* Queues: the operators that take sudogs from them and put sudogs on them *)

\* How many members of S are at most i: its place among them.
Rank(S, i) == Cardinality({j \in S : j <= i})

\* The members of a finite set of numbers have the places 1 to their number, in order.
LEMMA RankFact ==
  ASSUME NEW S \in SUBSET Int, IsFiniteSet(S)
  PROVE  /\ Cardinality(S) \in Nat
         /\ \A i \in S : Rank(S, i) \in 1 .. Cardinality(S)
         /\ \A i, j \in S : i < j => Rank(S, i) < Rank(S, j)
         /\ \A k \in 1 .. Cardinality(S) : \E i \in S : Rank(S, i) = k
<1>1. \A i \in S : /\ IsFiniteSet({j \in S : j <= i}) /\ Rank(S, i) \in Nat
                   /\ Rank(S, i) <= Cardinality(S) /\ Rank(S, i) # 0
  <2> TAKE i \in S
  <2>1. {j \in S : j <= i} \in SUBSET S /\ i \in {j \in S : j <= i}
    OBVIOUS
  <2> QED BY <2>1, FS_Subset, FS_CardinalityType, FS_EmptySet DEF Rank
<1>2. Cardinality(S) \in Nat
  BY FS_CardinalityType
<1>3. ASSUME NEW i \in S, NEW j \in S, i < j
      PROVE  Rank(S, i) < Rank(S, j)
  <2>0. i \in Int /\ j \in Int /\ \A k \in S : k \in Int
    OBVIOUS
  <2>1. {k \in S : k <= i} \cup {j} \subseteq {k \in S : k <= j}
    <3>1. \A k \in S : k <= i => k <= j
      BY <1>3, <2>0
    <3>2. j <= j
      BY <2>0
    <3> QED BY <3>1, <3>2
  <2>2. Cardinality({k \in S : k <= i} \cup {j}) = Rank(S, i) + 1
    <3>1. j \notin {k \in S : k <= i}
      BY <1>3
    <3> QED BY <1>1, <3>1, FS_AddElement DEF Rank
  <2>3. Cardinality({k \in S : k <= i} \cup {j}) <= Rank(S, j)
    <3>1. IsFiniteSet({k \in S : k <= j})
      BY <1>1
    <3>2. {k \in S : k <= i} \cup {j} \in SUBSET {k \in S : k <= j}
      BY <2>1
    <3> QED BY <3>1, <3>2, FS_Subset DEF Rank
  <2>4. Rank(S, i) \in Nat /\ Rank(S, j) \in Nat
    BY <1>1
  <2> QED BY <2>2, <2>3, <2>4
<1>4. \A i \in S : Rank(S, i) \in 1 .. Cardinality(S)
  <2> TAKE i \in S
  <2>1. Rank(S, i) \in Nat /\ Rank(S, i) <= Cardinality(S) /\ Rank(S, i) # 0
    BY <1>1
  <2> QED BY <1>2, <2>1
<1> DEFINE f == [i \in S |-> Rank(S, i)]
<1>5. f \in Injection(S, 1 .. Cardinality(S))
  <2>1. f \in [S -> 1 .. Cardinality(S)]
    BY <1>4
  <2>2. ASSUME NEW i \in S, NEW j \in S, f[i] = f[j]
        PROVE  i = j
    <3>1. Rank(S, i) = Rank(S, j) /\ Rank(S, i) \in Nat
      BY <1>1, <2>2
    <3>2. ~(i < j) /\ ~(j < i)
      BY <1>3, <3>1, <1>1
    <3> QED BY <3>2
  <2> QED BY <2>1, <2>2, Fun_IsInj
<1>6. IsFiniteSet(1 .. Cardinality(S)) /\ Cardinality(1 .. Cardinality(S)) = Cardinality(S)
  <2>1. 1 \in Int /\ Cardinality(S) \in Int
    BY <1>2
  <2>2. Cardinality(1 .. Cardinality(S)) = IF 1 > Cardinality(S) THEN 0 ELSE Cardinality(S) - 1 + 1
    BY <2>1, FS_Interval
  <2>3. IsFiniteSet(1 .. Cardinality(S))
    BY <2>1, FS_Interval
  <2> QED BY <1>2, <2>2, <2>3
<1>7. f \in Surjection(S, 1 .. Cardinality(S))
  BY <1>5, <1>6, FS_Injection
<1>8. \A k \in 1 .. Cardinality(S) : \E i \in S : f[i] = k
  BY <1>7 DEF Surjection
<1> QED BY <1>2, <1>3, <1>4, <1>8

\* A finite set of numbers that is not empty has a least member.
LEMMA MinFact ==
  ASSUME NEW S \in SUBSET Int, IsFiniteSet(S), S # {}
  PROVE  Min(S) \in S /\ \A j \in S : Min(S) <= j
<1>1. 1 \in 1 .. Cardinality(S)
  BY FS_CardinalityType, FS_EmptySet
<1>2. PICK i \in S : Rank(S, i) = 1
  BY <1>1, RankFact
<1>3. \A j \in S : i <= j
  <2> TAKE j \in S
  <2>1. ~(j < i)
    BY <1>2, RankFact
  <2> QED BY <2>1
<1> QED BY <1>2, <1>3 DEF Min

\* Places of a sequence are finitely many numbers.
LEMMA PlacesFact ==
  ASSUME NEW T, NEW q \in Seq(T), NEW S \in SUBSET DOMAIN q
  PROVE  S \in SUBSET Int /\ IsFiniteSet(S)
<1>1. DOMAIN q = 1 .. Len(q) /\ Len(q) \in Nat
  OBVIOUS
<1>2. IsFiniteSet(1 .. Len(q))
  BY <1>1, FS_Interval
<1>3. S \in SUBSET (1 .. Len(q))
  BY <1>1
<1> QED BY <1>2, <1>3, FS_Subset

\* What dequeue finds and leaves: the first live sudog, gone from the queue with no live
\* one before it.
LEMMA RestFact ==
  ASSUME NEW T, NEW q \in Seq(T), LiveIn(q) # {}
  PROVE  /\ First(q) \in ToSet(q) /\ Live(First(q))
         /\ Rest(q) \in Seq(T)
         /\ ToSet(Rest(q)) \subseteq ToSet(q)
         /\ \A s \in ToSet(q) : Live(s) => s = First(q) \/ s \in ToSet(Rest(q))
         /\ IsInjective(q) => IsInjective(Rest(q)) /\ First(q) \notin ToSet(Rest(q))
<1> DEFINE m == Min(LiveIn(q))
<1>1. m \in DOMAIN q /\ Live(q[m]) /\ \A i \in DOMAIN q : Live(q[i]) => m <= i
  <2>1. LiveIn(q) \in SUBSET DOMAIN q
    BY DEF LiveIn
  <2>2. m \in LiveIn(q) /\ \A j \in LiveIn(q) : m <= j
    BY <2>1, PlacesFact, MinFact
  <2> QED BY <2>2 DEF LiveIn
<1> HIDE DEF m
<1>2. DOMAIN q = 1 .. Len(q) /\ Len(q) \in Nat /\ m \in 1 .. Len(q)
  BY <1>1
<1>3. First(q) = q[m] /\ Rest(q) = SubSeq(q, m + 1, Len(q))
  BY DEF First, Rest, m
<1>4. /\ Rest(q) \in Seq(T) /\ Len(Rest(q)) = Len(q) - m
      /\ \A k \in 1 .. Len(q) - m : Rest(q)[k] = q[m + k]
  <2>1. m + 1 \in Int /\ Len(q) \in Int /\ \A i \in (m + 1) .. Len(q) : q[i] \in T
    BY <1>2
  <2> DEFINE r == SubSeq(q, m + 1, Len(q))
  <2>2. /\ r \in Seq(T)
        /\ Len(r) = IF m + 1 <= Len(q) THEN Len(q) - (m + 1) + 1 ELSE 0
        /\ \A k \in 1 .. Len(q) - (m + 1) + 1 : r[k] = q[m + 1 + k - 1]
    BY <2>1, SubSeqProperties
  <2>5. r = Rest(q)
    BY <1>3
  <2> HIDE DEF r
  <2>3. Len(r) = Len(q) - m
    <3>1. m \in Int /\ Len(q) \in Int /\ m <= Len(q)
      BY <1>2
    <3>2. CASE m + 1 <= Len(q)
      <4>1. Len(r) = Len(q) - (m + 1) + 1
        BY <2>2, <3>2
      <4> QED BY <3>1, <4>1
    <3>3. CASE ~(m + 1 <= Len(q))
      <4>1. Len(r) = 0
        BY <2>2, <3>3
      <4>2. Len(q) - m = 0
        BY <3>1, <3>3
      <4> QED BY <4>1, <4>2
    <3> QED BY <3>2, <3>3
  <2>4. ASSUME NEW k \in 1 .. Len(q) - m
        PROVE  r[k] = q[m + k]
    <3>1. k \in 1 .. Len(q) - (m + 1) + 1 /\ m + 1 + k - 1 = m + k
      BY <1>2
    <3> QED BY <2>2, <3>1
  <2> QED BY <2>2, <2>3, <2>4, <2>5
<1>5. DOMAIN Rest(q) = 1 .. Len(q) - m
  BY <1>4
<1>6. First(q) \in ToSet(q) /\ Live(First(q))
  BY <1>1, <1>3 DEF ToSet
<1>7. ASSUME NEW s \in ToSet(Rest(q))
      PROVE  s \in ToSet(q)
  <2>1. PICK k \in 1 .. Len(q) - m : s = Rest(q)[k]
    BY <1>5 DEF ToSet
  <2>2. s = q[m + k] /\ m + k \in DOMAIN q
    BY <1>2, <1>4, <2>1
  <2> QED BY <2>2 DEF ToSet
<1>8. ASSUME NEW s \in ToSet(q), Live(s), s # First(q)
      PROVE  s \in ToSet(Rest(q))
  <2>1. PICK i \in DOMAIN q : s = q[i]
    BY DEF ToSet
  <2>2. m < i
    BY <1>1, <1>2, <1>3, <1>8, <2>1
  <2>3. i - m \in 1 .. Len(q) - m /\ m + (i - m) = i
    BY <1>2, <2>2
  <2>4. Rest(q)[i - m] = s
    BY <1>4, <2>1, <2>3
  <2> QED BY <1>5, <2>3, <2>4 DEF ToSet
<1>9. ASSUME IsInjective(q)
      PROVE  IsInjective(Rest(q)) /\ First(q) \notin ToSet(Rest(q))
  <2>1. ASSUME NEW j \in DOMAIN Rest(q), NEW k \in DOMAIN Rest(q), Rest(q)[j] = Rest(q)[k]
        PROVE  j = k
    <3>1. m + j \in DOMAIN q /\ m + k \in DOMAIN q /\ q[m + j] = q[m + k]
      BY <1>2, <1>4, <1>5, <2>1
    <3>2. m + j = m + k
      BY <1>9, <3>1 DEF IsInjective
    <3> QED BY <1>2, <1>5, <3>2
  <2>2. ASSUME First(q) \in ToSet(Rest(q))
        PROVE  FALSE
    <3>1. PICK k \in 1 .. Len(q) - m : First(q) = Rest(q)[k]
      BY <1>5, <2>2 DEF ToSet
    <3>2. m + k \in DOMAIN q /\ q[m + k] = q[m]
      BY <1>2, <1>3, <1>4, <3>1
    <3>3. m + k = m
      BY <1>1, <1>9, <3>2 DEF IsInjective
    <3> QED BY <1>2, <3>3
  <2> QED BY <2>1, <2>2 DEF IsInjective
<1> QED BY <1>4, <1>6, <1>7, <1>8, <1>9

\* The sudogs kept are those at the places given, as often as before.
LEMMA KeptFact ==
  ASSUME NEW T, NEW q \in Seq(T), NEW S \in SUBSET DOMAIN q
  PROVE  /\ Kept(q, S) \in Seq(T)
         /\ ToSet(Kept(q, S)) = {q[i] : i \in S}
         /\ IsInjective(q) => IsInjective(Kept(q, S))
<1> DEFINE n == Cardinality(S)
           at(k) == CHOOSE i \in S : Rank(S, i) = k
<1>1. S \in SUBSET Int /\ IsFiniteSet(S)
  BY PlacesFact
<1>2. n \in Nat /\ \A i \in S : Rank(S, i) \in 1 .. n
  BY <1>1, RankFact
<1>3. \A k \in 1 .. n : at(k) \in S /\ Rank(S, at(k)) = k
  <2> TAKE k \in 1 .. n
  <2>1. \E i \in S : Rank(S, i) = k
    BY <1>1, RankFact
  <2> QED BY <2>1
<1>4. \A i \in S : at(Rank(S, i)) = i
  <2> TAKE i \in S
  <2>1. at(Rank(S, i)) \in S /\ Rank(S, at(Rank(S, i))) = Rank(S, i)
    BY <1>2, <1>3
  <2>2. i \in Int /\ at(Rank(S, i)) \in Int
    BY <1>1, <2>1
  <2>3. ~(i < at(Rank(S, i))) /\ ~(at(Rank(S, i)) < i)
    BY <1>1, <1>2, <2>1, RankFact
  <2> HIDE DEF at
  <2> QED BY <2>2, <2>3
<1>5. Kept(q, S) = [k \in 1 .. n |-> q[at(k)]]
  BY DEF Kept, Rank
<1> HIDE DEF n, at
<1>6. \A k \in 1 .. n : q[at(k)] \in T
  <2> TAKE k \in 1 .. n
  <2>1. at(k) \in DOMAIN q
    BY <1>3
  <2> QED BY <2>1
<1>7. Kept(q, S) \in Seq(T) /\ DOMAIN Kept(q, S) = 1 .. n
  BY <1>2, <1>5, <1>6
<1>8. ToSet(Kept(q, S)) = {q[i] : i \in S}
  <2>1. ASSUME NEW s \in ToSet(Kept(q, S))
        PROVE  s \in {q[i] : i \in S}
    <3>1. PICK k \in 1 .. n : s = Kept(q, S)[k]
      BY <1>7 DEF ToSet
    <3>2. s = q[at(k)] /\ at(k) \in S
      BY <1>3, <1>5, <3>1
    <3> QED BY <3>2
  <2>2. ASSUME NEW i \in S
        PROVE  q[i] \in ToSet(Kept(q, S))
    <3>1. Rank(S, i) \in 1 .. n /\ Kept(q, S)[Rank(S, i)] = q[i]
      BY <1>2, <1>4, <1>5
    <3> QED BY <1>7, <3>1 DEF ToSet
  <2> QED BY <2>1, <2>2
<1>9. ASSUME IsInjective(q)
      PROVE  IsInjective(Kept(q, S))
  <2>1. ASSUME NEW j \in 1 .. n, NEW k \in 1 .. n, Kept(q, S)[j] = Kept(q, S)[k]
        PROVE  j = k
    <3>1. q[at(j)] = q[at(k)] /\ at(j) \in DOMAIN q /\ at(k) \in DOMAIN q
      BY <1>3, <1>5, <2>1
    <3>2. at(j) = at(k)
      BY <1>9, <3>1 DEF IsInjective
    <3> QED BY <1>3, <3>2
  <2> QED BY <1>7, <2>1 DEF IsInjective
<1> QED BY <1>7, <1>8, <1>9

\* A goroutine queues one sudog for each of its cases on the channel.
LEMMA SudogsFact ==
  ASSUME NEW g \in Goroutines, NEW cases \in Seq(Case), NEW c, NEW dir
  PROVE  /\ Sudogs(g, cases, c, dir) \in Seq(Sudog)
         /\ ToSet(Sudogs(g, cases, c, dir)) =
              {SudogOf(g, i) : i \in {i \in DOMAIN cases : cases[i] = [dir |-> dir, c |-> c]}}
         /\ IsInjective(Sudogs(g, cases, c, dir))
<1> DEFINE S == {i \in DOMAIN cases : cases[i] = [dir |-> dir, c |-> c]}
           P == Places(cases, c, dir)
<1>1. S \in SUBSET Int /\ IsFiniteSet(S) /\ S \subseteq DOMAIN cases
  BY PlacesFact
<1>2. /\ P \in [1 .. Cardinality(S) -> S] /\ IsInjective(P)
      /\ Cardinality(S) \in Nat
      /\ \A i \in S : \E k \in 1 .. Cardinality(S) : P[k] = i
  <2> DEFINE N == 1 .. Cardinality(S)
  <2>1. Cardinality(S) \in Nat
    BY <1>1, FS_CardinalityType
  <2>2. IsFiniteSet(N) /\ Cardinality(N) = Cardinality(S)
    <3>1. 1 \in Int /\ Cardinality(S) \in Int
      BY <2>1
    <3>2. Cardinality(N) = IF 1 > Cardinality(S) THEN 0 ELSE Cardinality(S) - 1 + 1
      BY <3>1, FS_Interval
    <3>3. IsFiniteSet(N)
      BY <3>1, FS_Interval
    <3> QED BY <2>1, <3>2, <3>3
  <2>3. \E f \in [N -> S] : IsInjective(f)
    <3>1. ExistsBijection(N, S)
      BY <1>1, <2>2, FS_SameCardinalityBij
    <3> QED BY <3>1 DEF ExistsBijection, Bijection, Injection
  <2>4. P \in [N -> S] /\ IsInjective(P)
    <3>1. P = CHOOSE f \in [N -> S] : IsInjective(f)
      BY DEF Places, SetToSeq
    <3> QED BY <2>3, <3>1
  <2>5. P \in Surjection(N, S)
    <3>1. P \in Injection(N, S)
      BY <2>4 DEF Injection
    <3> QED BY <1>1, <2>2, <3>1, FS_Injection
  <2> QED BY <2>1, <2>4, <2>5 DEF Surjection
<1> HIDE DEF P
<1>3. DOMAIN P = 1 .. Cardinality(S) /\ \A k \in 1 .. Cardinality(S) : P[k] \in S
  BY <1>2
<1>4. Sudogs(g, cases, c, dir) = [k \in 1 .. Cardinality(S) |-> SudogOf(g, P[k])]
  BY <1>3 DEF Sudogs, P
<1>5. \A i \in S : SudogOf(g, i) \in Sudog
  <2> TAKE i \in S
  <2>1. i \in Nat \ {0}
    BY <1>1
  <2> QED BY <2>1 DEF SudogOf, Sudog
<1>6. /\ Sudogs(g, cases, c, dir) \in Seq(Sudog)
      /\ DOMAIN Sudogs(g, cases, c, dir) = 1 .. Cardinality(S)
      /\ \A k \in 1 .. Cardinality(S) : Sudogs(g, cases, c, dir)[k] = SudogOf(g, P[k])
  <2> DEFINE n == Cardinality(S)
             q == [k \in 1 .. n |-> SudogOf(g, P[k])]
  <2>1. n \in Nat
    BY <1>2
  <2>2. \A k \in 1 .. n : SudogOf(g, P[k]) \in Sudog
    BY <1>3, <1>5
  <2>3. Sudogs(g, cases, c, dir) = q
    BY <1>4
  <2>4. DOMAIN q = 1 .. n /\ \A k \in 1 .. n : q[k] = SudogOf(g, P[k])
    OBVIOUS
  <2> HIDE DEF n
  <2>5. q \in [1 .. n -> Sudog]
    BY <2>2
  <2>6. q \in Seq(Sudog)
    BY <2>1, <2>5
  <2> HIDE DEF q
  <2>7. /\ Sudogs(g, cases, c, dir) \in Seq(Sudog)
        /\ DOMAIN Sudogs(g, cases, c, dir) = 1 .. n
        /\ \A k \in 1 .. n : Sudogs(g, cases, c, dir)[k] = SudogOf(g, P[k])
    BY <2>3, <2>4, <2>6
  <2> QED BY <2>7 DEF n
<1> HIDE DEF S
<1>7. ToSet(Sudogs(g, cases, c, dir)) = {SudogOf(g, i) : i \in S}
  <2>1. ASSUME NEW s \in ToSet(Sudogs(g, cases, c, dir))
        PROVE  s \in {SudogOf(g, i) : i \in S}
    <3>1. PICK k \in 1 .. Cardinality(S) : s = Sudogs(g, cases, c, dir)[k]
      BY <1>6 DEF ToSet
    <3> QED BY <1>3, <1>6, <3>1
  <2>2. ASSUME NEW i \in S
        PROVE  SudogOf(g, i) \in ToSet(Sudogs(g, cases, c, dir))
    <3>1. PICK k \in 1 .. Cardinality(S) : P[k] = i
      BY <1>2
    <3> QED BY <1>6, <3>1 DEF ToSet
  <2> QED BY <2>1, <2>2
<1>8. IsInjective(Sudogs(g, cases, c, dir))
  <2>1. ASSUME NEW j \in 1 .. Cardinality(S), NEW k \in 1 .. Cardinality(S),
               SudogOf(g, P[j]) = SudogOf(g, P[k])
        PROVE  j = k
    <3>1. P[j] = P[k]
      BY <2>1 DEF SudogOf
    <3> QED BY <1>2, <1>3, <3>1 DEF IsInjective
  <2> QED BY <1>6, <2>1 DEF IsInjective
<1> QED BY <1>6, <1>7, <1>8 DEF S

\* A queue with sudogs of somebody new at its end.
LEMMA ConcatFact ==
  ASSUME NEW T, NEW q \in Seq(T), NEW r \in Seq(T)
  PROVE  /\ q \o r \in Seq(T)
         /\ ToSet(q \o r) = ToSet(q) \cup ToSet(r)
         /\ (IsInjective(q) /\ IsInjective(r) /\ ToSet(q) \cap ToSet(r) = {}) => IsInjective(q \o r)
<1>1. /\ q \o r \in Seq(T) /\ Len(q \o r) = Len(q) + Len(r)
      /\ \A i \in 1 .. Len(q) + Len(r) : (q \o r)[i] = IF i <= Len(q) THEN q[i] ELSE r[i - Len(q)]
  BY ConcatProperties
<1>2. /\ DOMAIN q = 1 .. Len(q) /\ DOMAIN r = 1 .. Len(r) /\ Len(q) \in Nat /\ Len(r) \in Nat
      /\ DOMAIN (q \o r) = 1 .. Len(q) + Len(r)
  BY <1>1
<1>3. /\ \A i \in 1 .. Len(q) : i \in 1 .. Len(q) + Len(r) /\ (q \o r)[i] = q[i]
      /\ \A i \in 1 .. Len(r) : Len(q) + i \in 1 .. Len(q) + Len(r) /\ (q \o r)[Len(q) + i] = r[i]
  <2>1. ASSUME NEW i \in 1 .. Len(r)
        PROVE  Len(q) + i \in 1 .. Len(q) + Len(r) /\ (q \o r)[Len(q) + i] = r[i]
    <3>1. Len(q) + i \in 1 .. Len(q) + Len(r) /\ ~(Len(q) + i <= Len(q)) /\ Len(q) + i - Len(q) = i
      BY <1>2
    <3> QED BY <1>1, <3>1
  <2> QED BY <1>1, <1>2, <2>1
<1>4. \A i \in 1 .. Len(q) + Len(r) :
        \/ i \in 1 .. Len(q) /\ (q \o r)[i] = q[i]
        \/ i - Len(q) \in 1 .. Len(r) /\ (q \o r)[i] = r[i - Len(q)]
  BY <1>1, <1>2
<1> DEFINE s == q \o r
<1> HIDE DEF s
<1>5. ToSet(s) = ToSet(q) \cup ToSet(r)
  <2>1. ASSUME NEW x \in ToSet(s)
        PROVE  x \in ToSet(q) \cup ToSet(r)
    <3>1. PICK i \in 1 .. Len(q) + Len(r) : x = s[i]
      BY <1>2 DEF ToSet, s
    <3> QED BY <1>2, <1>4, <3>1 DEF ToSet, s
  <2>2. ASSUME NEW x \in ToSet(q)
        PROVE  x \in ToSet(s)
    BY <1>2, <1>3, <2>2 DEF ToSet, s
  <2>3. ASSUME NEW x \in ToSet(r)
        PROVE  x \in ToSet(s)
    <3>1. PICK i \in 1 .. Len(r) : x = r[i]
      BY <1>2 DEF ToSet
    <3> QED BY <1>2, <1>3, <3>1 DEF ToSet, s
  <2> QED BY <2>1, <2>2, <2>3
<1>6. ASSUME IsInjective(q), IsInjective(r), ToSet(q) \cap ToSet(r) = {}
      PROVE  IsInjective(s)
  <2>1. ASSUME NEW i \in 1 .. Len(q) + Len(r), NEW j \in 1 .. Len(q) + Len(r), s[i] = s[j]
        PROVE  i = j
    <3>1. CASE i \in 1 .. Len(q) /\ s[i] = q[i] /\ j \in 1 .. Len(q) /\ s[j] = q[j]
      BY <1>2, <1>6, <2>1, <3>1 DEF IsInjective
    <3>2. CASE i - Len(q) \in 1 .. Len(r) /\ s[i] = r[i - Len(q)] /\ j - Len(q) \in 1 .. Len(r) /\ s[j] = r[j - Len(q)]
      <4>1. i - Len(q) = j - Len(q)
        BY <1>2, <1>6, <2>1, <3>2 DEF IsInjective
      <4> QED BY <1>2, <2>1, <4>1
    <3>3. CASE i \in 1 .. Len(q) /\ s[i] = q[i] /\ j - Len(q) \in 1 .. Len(r) /\ s[j] = r[j - Len(q)]
      <4>1. q[i] \in ToSet(q) /\ r[j - Len(q)] \in ToSet(r)
        BY <1>2, <3>3 DEF ToSet
      <4> QED BY <1>6, <2>1, <3>3, <4>1
    <3>4. CASE i - Len(q) \in 1 .. Len(r) /\ s[i] = r[i - Len(q)] /\ j \in 1 .. Len(q) /\ s[j] = q[j]
      <4>1. q[j] \in ToSet(q) /\ r[i - Len(q)] \in ToSet(r)
        BY <1>2, <3>4 DEF ToSet
      <4> QED BY <1>6, <2>1, <3>4, <4>1
    <3> QED BY <1>4, <3>1, <3>2, <3>3, <3>4 DEF s
  <2> QED BY <1>2, <2>1 DEF IsInjective, s
<1> QED BY <1>1, <1>5, <1>6 DEF s

-----------------------------------------------------------------------------
(* What each operation makes of the channels                               *)

\* The channels hs are those of now without some queues in which all sudogs are stale.
SameQueue(q, r) == r = q \/ (r = <<>> /\ LiveIn(q) = {})

Stripped(hs) ==
  /\ DOMAIN hs = Chans
  /\ \A c \in Chans :
       /\ hs[c] \in Hchan(c)
       /\ hs[c].qcount = ch[c].qcount /\ hs[c].closed = ch[c].closed
       /\ hs[c].sendx = ch[c].sendx /\ hs[c].recvx = ch[c].recvx /\ hs[c].buf = ch[c].buf
       /\ SameQueue(ch[c].sendq, hs[c].sendq)
       /\ SameQueue(ch[c].recvq, hs[c].recvq)

\* Examining cases of which none is ready takes stale sudogs out and nothing else.
LEMMA ExaminedFact ==
  ASSUME ChanTypeOK, NEW cases \in SUBSET Case, \A case \in cases : ~Ready(case)
  PROVE  Stripped(Examined(cases))
<1> DEFINE hs == Examined(cases)
<1>1. DOMAIN hs = Chans
  BY DEF Examined
<1>2. ASSUME NEW c \in Chans
      PROVE  /\ hs[c] \in Hchan(c)
             /\ hs[c].qcount = ch[c].qcount /\ hs[c].closed = ch[c].closed
             /\ hs[c].sendx = ch[c].sendx /\ hs[c].recvx = ch[c].recvx /\ hs[c].buf = ch[c].buf
             /\ hs[c].sendq = IF [dir |-> "recv", c |-> c] \in cases THEN <<>> ELSE ch[c].sendq
             /\ hs[c].recvq = IF [dir |-> "send", c |-> c] \in cases THEN <<>> ELSE ch[c].recvq
  <2>1. ch[c] \in Hchan(c)
    BY DEF ChanTypeOK
  <2>2. hs[c] = [ch[c] EXCEPT
                   !.recvq = IF [dir |-> "send", c |-> c] \in cases THEN <<>> ELSE @,
                   !.sendq = IF [dir |-> "recv", c |-> c] \in cases THEN <<>> ELSE @]
    BY DEF Examined
  <2>3. <<>> \in Seq(Sudog)
    OBVIOUS
  <2> HIDE DEF hs
  <2> QED BY <2>1, <2>2, <2>3 DEF Hchan
<1>3. ASSUME NEW c \in Chans, [dir |-> "recv", c |-> c] \in cases
      PROVE  LiveIn(ch[c].sendq) = {}
  <2>1. ~Ready([dir |-> "recv", c |-> c]) /\ c # Nil
    BY <1>3, ChanAssumption DEF Nil
  <2> QED BY <2>1 DEF Ready, Waiting, Other, Field
<1>4. ASSUME NEW c \in Chans, [dir |-> "send", c |-> c] \in cases
      PROVE  LiveIn(ch[c].recvq) = {}
  <2>1. ~Ready([dir |-> "send", c |-> c]) /\ c # Nil
    BY <1>4, ChanAssumption DEF Nil
  <2> QED BY <2>1 DEF Ready, Waiting, Other, Field
<1> HIDE DEF hs
<1> QED BY <1>1, <1>2, <1>3, <1>4 DEF Stripped, SameQueue, hs

\* Not examining any is a case of it.
LEMMA SameFact == ChanTypeOK => Stripped(ch)
BY DEF ChanTypeOK, Stripped, SameQueue

\* The channels after a step that changes one of them.
Becomes(hs, c, qcount, sendx, recvx, buf, sendq, recvq) ==
  /\ DOMAIN ch' = Chans
  /\ \A d \in Chans \ {c} : ch'[d] = hs[d]
  /\ ch'[c] \in Hchan(c)
  /\ ch'[c].closed = hs[c].closed
  /\ ch'[c].qcount = qcount /\ ch'[c].sendx = sendx /\ ch'[c].recvx = recvx
  /\ ch'[c].buf = buf /\ ch'[c].sendq = sendq /\ ch'[c].recvq = recvq

\* The next slot of the ring is a slot.
LEMMA AdvanceType ==
  ASSUME NEW c \in Chans, NEW i \in Slot(c), Cap[c] # 0
  PROVE  Advance(i, c) \in Slot(c)
<1>1. Cap[c] \in Nat
  BY ChanAssumption
<1>2. i \in 0 .. Cap[c] - 1 /\ Slot(c) = 0 .. Cap[c] - 1
  BY DEF Slot
<1>3. Advance(i, c) = IF i + 1 = Cap[c] THEN 0 ELSE i + 1
  BY DEF Advance
<1> QED BY <1>1, <1>2, <1>3

\* A step that leaves the channels as examined, said of one of them.
LEMMA SameChannels ==
  ASSUME NEW hs, Stripped(hs), NEW c \in Chans, ch' = hs
  PROVE  Becomes(hs, c, hs[c].qcount, hs[c].sendx, hs[c].recvx, hs[c].buf, hs[c].sendq, hs[c].recvq)
BY DEF Becomes, Stripped

\* send takes the first live receiver from recvq.
LEMMA SendToReceiverFact ==
  ASSUME NEW hs, Stripped(hs), NEW c \in Chans, NEW g \in Goroutines, NEW i,
         SendToReceiver(g, i, c, hs)
  PROVE  Becomes(hs, c, hs[c].qcount, hs[c].sendx, hs[c].recvx, hs[c].buf, hs[c].sendq, Rest(hs[c].recvq))
<1>1. hs[c] \in Hchan(c) /\ DOMAIN hs = Chans
  BY DEF Stripped
<1>2. Rest(hs[c].recvq) \in Seq(Sudog)
  BY <1>1, RestFact DEF SendToReceiver, Hchan
<1>3. ch' = [hs EXCEPT ![c].recvq = Rest(@)]
  BY DEF SendToReceiver
<1> QED BY <1>1, <1>2, <1>3 DEF Becomes, Hchan

\* chansend with a free slot fills it; recvq was empty or stale, and is emptied.
LEMMA SendToBufferFact ==
  ASSUME NEW hs, Stripped(hs), NEW c \in Chans, NEW g \in Goroutines, NEW i,
         SendToBuffer(g, i, c, hs)
  PROVE  Becomes(hs, c, hs[c].qcount + 1, Advance(hs[c].sendx, c), hs[c].recvx,
                 [hs[c].buf EXCEPT ![hs[c].sendx] = g], hs[c].sendq, <<>>)
<1>1. hs[c] \in Hchan(c) /\ DOMAIN hs = Chans /\ Cap[c] \in Nat
  BY ChanAssumption DEF Stripped
<1>2. Advance(hs[c].sendx, c) \in Slot(c) /\ <<>> \in Seq(Sudog) /\ hs[c].qcount + 1 \in 0 .. Cap[c]
  <2>1. hs[c].qcount \in Nat /\ hs[c].qcount < Cap[c] /\ hs[c].sendx \in Slot(c)
    BY <1>1 DEF SendToBuffer, Hchan
  <2> QED BY <1>1, <2>1, AdvanceType
<1>3. [hs[c].buf EXCEPT ![hs[c].sendx] = g] \in [0 .. Cap[c] - 1 -> Value]
  BY <1>1 DEF Hchan, Value
<1>4. ch' = [hs EXCEPT ![c].buf[hs[c].sendx] = g,
                       ![c].sendx = Advance(@, c),
                       ![c].qcount = @ + 1,
                       ![c].recvq = <<>>]
  BY DEF SendToBuffer
<1> QED BY <1>1, <1>2, <1>3, <1>4 DEF Becomes, Hchan

\* recv takes the first live sender from sendq, and its value goes to the buffer if
\* there is one.
LEMMA RecvFromSenderFact ==
  ASSUME NEW hs, Stripped(hs), NEW c \in Chans, NEW g \in Goroutines, NEW i,
         RecvFromSender(g, i, c, hs)
  PROVE  LET s == First(hs[c].sendq)
             x == hs[c].recvx
         IN  IF Cap[c] = 0
               THEN Becomes(hs, c, hs[c].qcount, hs[c].sendx, hs[c].recvx, hs[c].buf,
                            Rest(hs[c].sendq), hs[c].recvq)
               ELSE Becomes(hs, c, hs[c].qcount, Advance(x, c), Advance(x, c),
                            [hs[c].buf EXCEPT ![x] = s.g], Rest(hs[c].sendq), hs[c].recvq)
<1>1. hs[c] \in Hchan(c) /\ DOMAIN hs = Chans
  BY DEF Stripped
<1>2. Rest(hs[c].sendq) \in Seq(Sudog) /\ First(hs[c].sendq) \in Sudog
  <2>1. /\ hs[c].sendq \in Seq(Sudog) /\ LiveIn(hs[c].sendq) # {}
    BY <1>1 DEF RecvFromSender, Hchan
  <2>2. ToSet(hs[c].sendq) \subseteq Sudog
    BY <2>1 DEF ToSet
  <2> QED BY <2>1, <2>2, RestFact
<1>3. CASE Cap[c] = 0
  <2>1. ch' = [hs EXCEPT ![c].sendq = Rest(@)]
    BY <1>3 DEF RecvFromSender
  <2> QED BY <1>1, <1>2, <1>3, <2>1 DEF Becomes, Hchan
<1>4. CASE Cap[c] # 0
  <2> DEFINE s == First(hs[c].sendq)
             x == hs[c].recvx
  <2>1. ch' = [hs EXCEPT ![c].buf[x] = s.g,
                         ![c].recvx = Advance(@, c),
                         ![c].sendx = Advance(x, c),
                         ![c].sendq = Rest(@)]
    BY <1>4 DEF RecvFromSender
  <2>2. Advance(x, c) \in Slot(c)
    BY <1>1, <1>4, AdvanceType DEF Hchan
  <2>3. [hs[c].buf EXCEPT ![x] = s.g] \in [0 .. Cap[c] - 1 -> Value]
    BY <1>1, <1>2 DEF Hchan, Value, Sudog
  <2> QED BY <1>1, <1>2, <1>4, <2>1, <2>2, <2>3 DEF Becomes, Hchan
<1> QED BY <1>3, <1>4

\* chanrecv with a full slot frees it; sendq was empty or stale, and is emptied.
LEMMA RecvFromBufferFact ==
  ASSUME NEW hs, Stripped(hs), NEW c \in Chans, NEW g \in Goroutines, NEW i,
         RecvFromBuffer(g, i, c, hs)
  PROVE  Becomes(hs, c, hs[c].qcount - 1, hs[c].sendx, Advance(hs[c].recvx, c),
                 [hs[c].buf EXCEPT ![hs[c].recvx] = Nobody], <<>>, hs[c].recvq)
<1>1. hs[c] \in Hchan(c) /\ DOMAIN hs = Chans /\ Cap[c] \in Nat
  BY ChanAssumption DEF Stripped
<1>2. Advance(hs[c].recvx, c) \in Slot(c) /\ <<>> \in Seq(Sudog) /\ hs[c].qcount - 1 \in 0 .. Cap[c]
  <2>1. hs[c].qcount \in 0 .. Cap[c] /\ hs[c].qcount > 0 /\ hs[c].recvx \in Slot(c)
    BY <1>1 DEF RecvFromBuffer, Hchan
  <2> QED BY <1>1, <2>1, AdvanceType
<1>3. [hs[c].buf EXCEPT ![hs[c].recvx] = Nobody] \in [0 .. Cap[c] - 1 -> Value]
  BY <1>1 DEF Hchan, Value
<1>4. ch' = [hs EXCEPT ![c].buf[hs[c].recvx] = Nobody,
                       ![c].recvx = Advance(@, c),
                       ![c].qcount = @ - 1,
                       ![c].sendq = <<>>]
  BY DEF RecvFromBuffer
<1> QED BY <1>1, <1>2, <1>3, <1>4 DEF Becomes, Hchan

\* In qs the sudogs of g wait behind those of hs, and nothing else differs.
Enlists(g, cases, hs, qs) ==
  /\ DOMAIN qs = Chans
  /\ \A c \in Chans :
       /\ qs[c] \in Hchan(c)
       /\ qs[c].qcount = hs[c].qcount /\ qs[c].closed = hs[c].closed
       /\ qs[c].sendx = hs[c].sendx /\ qs[c].recvx = hs[c].recvx /\ qs[c].buf = hs[c].buf
       /\ qs[c].sendq = hs[c].sendq \o Sudogs(g, cases, c, "send")
       /\ qs[c].recvq = hs[c].recvq \o Sudogs(g, cases, c, "recv")

\* Parking appends the sudogs of g, and nothing else, to the queues.
LEMMA EnqueuedFact ==
  ASSUME NEW hs, Stripped(hs), NEW g \in Goroutines, NEW cases \in Seq(Case)
  PROVE  Enlists(g, cases, hs, Enqueued(g, cases, hs))
<1> DEFINE qs == Enqueued(g, cases, hs)
<1>1. DOMAIN qs = Chans
  BY DEF Enqueued
<1>2. ASSUME NEW c \in Chans
      PROVE  /\ qs[c] \in Hchan(c)
             /\ qs[c].qcount = hs[c].qcount /\ qs[c].closed = hs[c].closed
             /\ qs[c].sendx = hs[c].sendx /\ qs[c].recvx = hs[c].recvx /\ qs[c].buf = hs[c].buf
             /\ qs[c].sendq = hs[c].sendq \o Sudogs(g, cases, c, "send")
             /\ qs[c].recvq = hs[c].recvq \o Sudogs(g, cases, c, "recv")
  <2> DEFINE sq == hs[c].sendq \o Sudogs(g, cases, c, "send")
             rq == hs[c].recvq \o Sudogs(g, cases, c, "recv")
  <2>1. hs[c] \in Hchan(c)
    BY DEF Stripped
  <2>2. /\ hs[c].sendq \in Seq(Sudog) /\ Sudogs(g, cases, c, "send") \in Seq(Sudog)
        /\ hs[c].recvq \in Seq(Sudog) /\ Sudogs(g, cases, c, "recv") \in Seq(Sudog)
    BY <2>1, SudogsFact DEF Hchan
  <2>3. sq \in Seq(Sudog) /\ rq \in Seq(Sudog)
    BY <2>2, ConcatProperties
  <2>4. qs[c] = [hs[c] EXCEPT !.sendq = sq, !.recvq = rq]
    BY DEF Enqueued
  <2> HIDE DEF sq, rq, qs
  <2>5. /\ qs[c] \in Hchan(c)
        /\ qs[c].qcount = hs[c].qcount /\ qs[c].closed = hs[c].closed
        /\ qs[c].sendx = hs[c].sendx /\ qs[c].recvx = hs[c].recvx /\ qs[c].buf = hs[c].buf
        /\ qs[c].sendq = sq /\ qs[c].recvq = rq
    BY <2>1, <2>3, <2>4 DEF Hchan
  <2> QED BY <2>5 DEF sq, rq
<1> QED BY <1>1, <1>2 DEF Enlists

\* Pass 3 takes the sudogs of g that are left out of the queues.
LEMMA WithoutFact ==
  ASSUME NEW T, NEW q \in Seq(T), NEW g
  PROVE  /\ Without(g, q) \in Seq(T)
         /\ ToSet(Without(g, q)) = {s \in ToSet(q) : s.g # g \/ s.case = param[g]}
         /\ IsInjective(q) => IsInjective(Without(g, q))
         /\ q = <<>> => Without(g, q) = <<>>
<1> DEFINE S == {k \in DOMAIN q : q[k].g # g \/ q[k].case = param[g]}
<1>1. /\ Kept(q, S) \in Seq(T)
      /\ ToSet(Kept(q, S)) = {q[i] : i \in S}
      /\ IsInjective(q) => IsInjective(Kept(q, S))
  BY KeptFact
<1>2. {q[i] : i \in S} = {s \in ToSet(q) : s.g # g \/ s.case = param[g]}
  BY DEF ToSet
<1>3. Without(g, q) = Kept(q, S)
  BY DEF Without
<1>4. ASSUME q = <<>>
      PROVE  Without(g, q) = <<>>
  <2>1. ToSet(Without(g, q)) = {}
    BY <1>1, <1>2, <1>3, <1>4 DEF ToSet
  <2>2. ASSUME Without(g, q) # <<>>
        PROVE  FALSE
    <3>1. 1 \in DOMAIN Without(g, q)
      BY <1>1, <1>3, <2>2
    <3> QED BY <2>1, <3>1 DEF ToSet
  <2> QED BY <2>2
<1> QED BY <1>1, <1>2, <1>3, <1>4

\* Pass 3 changes the queues and nothing else of a channel.
LEMMA RemovedFact ==
  ASSUME ChanTypeOK, NEW g \in Goroutines
  PROVE  LET qs == Removed(g) IN
         /\ DOMAIN qs = Chans
         /\ \A c \in Chans :
              /\ qs[c] \in Hchan(c)
              /\ qs[c].qcount = ch[c].qcount /\ qs[c].closed = ch[c].closed
              /\ qs[c].sendx = ch[c].sendx /\ qs[c].recvx = ch[c].recvx /\ qs[c].buf = ch[c].buf
              /\ qs[c].sendq = Without(g, ch[c].sendq)
              /\ qs[c].recvq = Without(g, ch[c].recvq)
<1> DEFINE qs == Removed(g)
<1>1. DOMAIN qs = Chans
  BY DEF Removed
<1>2. ASSUME NEW c \in Chans
      PROVE  /\ qs[c] \in Hchan(c)
             /\ qs[c].qcount = ch[c].qcount /\ qs[c].closed = ch[c].closed
             /\ qs[c].sendx = ch[c].sendx /\ qs[c].recvx = ch[c].recvx /\ qs[c].buf = ch[c].buf
             /\ qs[c].sendq = Without(g, ch[c].sendq)
             /\ qs[c].recvq = Without(g, ch[c].recvq)
  <2>1. ch[c] \in Hchan(c)
    BY DEF ChanTypeOK
  <2>2. Without(g, ch[c].sendq) \in Seq(Sudog) /\ Without(g, ch[c].recvq) \in Seq(Sudog)
    BY <2>1, WithoutFact DEF Hchan
  <2>3. qs[c] = [ch[c] EXCEPT !.sendq = Without(g, @), !.recvq = Without(g, @)]
    BY DEF Removed
  <2> HIDE DEF qs
  <2> QED BY <2>1, <2>2, <2>3 DEF Hchan
<1> QED BY <1>1, <1>2

\* closechan empties both queues of its channel and closes it.
LEMMA ClosedFact ==
  ASSUME ChanTypeOK, NEW c \in Chans,
         ch' = [ch EXCEPT ![c].closed = TRUE, ![c].recvq = <<>>, ![c].sendq = <<>>]
  PROVE  /\ DOMAIN ch' = Chans
         /\ \A d \in Chans \ {c} : ch'[d] = ch[d]
         /\ ch'[c] \in Hchan(c)
         /\ ch'[c].closed
         /\ ch'[c].qcount = ch[c].qcount /\ ch'[c].sendx = ch[c].sendx
         /\ ch'[c].recvx = ch[c].recvx /\ ch'[c].buf = ch[c].buf
         /\ ch'[c].sendq = <<>> /\ ch'[c].recvq = <<>>
<1>1. ch[c] \in Hchan(c) /\ DOMAIN ch = Chans
  BY DEF ChanTypeOK
<1>2. <<>> \in Seq(Sudog)
  OBVIOUS
<1> QED BY <1>1, <1>2 DEF Hchan

-----------------------------------------------------------------------------
(* The parts of the invariant, sudog by sudog and case by case             *)

\* The queues by direction.
Queue(c, dir) == ch[c][Field[dir]]
Dirs == {"send", "recv"}

\* The part of ChanInv that the sudogs and the wakeups rest on.
CoreInv == PlaceInv /\ SudogInv /\ SudogsOwned /\ WakeInv /\ ReadyOnce /\ SleepersBlocked

\* The queues hold sudogs.
LEMMA QueueType ==
  ASSUME ChanTypeOK, NEW c \in Chans, NEW dir \in Dirs
  PROVE  Queue(c, dir) \in Seq(Sudog) /\ ToSet(Queue(c, dir)) \subseteq Sudog
<1>1. ch[c] \in Hchan(c)
  BY DEF ChanTypeOK
<1>2. Queue(c, dir) \in Seq(Sudog)
  BY <1>1 DEF Hchan, Queue, Dirs, Field
<1> QED BY <1>2 DEF ToSet

\* Both queues by their names.
LEMMA QueueNames ==
  ASSUME NEW c
  PROVE  Queue(c, "send") = ch[c].sendq /\ Queue(c, "recv") = ch[c].recvq
BY DEF Queue, Field

\* The cases of a call; an operation on one channel has one.
LEMMA IndicesFact ==
  ASSUME ChanTypeOK, NEW g \in Goroutines
  PROVE  /\ op[g].cases \in Seq(Case)
         /\ \A i \in Indices(g) : i \in Nat \ {0} /\ op[g].cases[i] \in Case
         /\ op[g].kind = "chan" => Indices(g) = {1}
<1>1. op[g] = NoOp \/ IsOp(op[g])
  BY DEF ChanTypeOK
<1>2. op[g].cases \in Seq(Case)
  <2>1. CASE op[g] = NoOp
    <3>1. op[g].cases = <<>>
      BY <2>1 DEF NoOp
    <3>2. <<>> \in Seq(Case)
      OBVIOUS
    <3> QED BY <3>1, <3>2
  <2>2. CASE IsOp(op[g])
    BY <2>2 DEF IsOp
  <2> QED BY <1>1, <2>1, <2>2
<1>3. op[g].kind = "chan" => Len(op[g].cases) = 1
  BY <1>1 DEF NoOp, IsOp
<1> QED BY <1>2, <1>3 DEF Indices

\* What SudogInv and SudogsOwned say of a sudog in a queue.
Accounted(c, dir, s) ==
  /\ s = SudogOf(s.g, s.case) /\ s.case \in Indices(s.g)
  /\ s.case # param[s.g] /\ op[s.g].kind # "close"
  /\ pc[s.g] \in {"parked", "awake", "relock"}
  /\ Live(s) => Asleep(s.g)
  /\ op[s.g].cases[s.case] = [dir |-> dir, c |-> c]

\* The same said once, of every queue and of every park that is not over.
QueuesOK ==
  \A c \in Chans, dir \in Dirs :
    IsInjective(Queue(c, dir)) /\ \A s \in ToSet(Queue(c, dir)) : Accounted(c, dir, s)

CommitsOK ==
  \A g \in Goroutines : commit[g] # {} => pc[g] \in {"parked", "awake", "relock"}

\* SudogInv and SudogsOwned say nothing else.
LEMMA QueuesEquiv == SudogInv /\ SudogsOwned <=> QueuesOK /\ CommitsOK
<1>1. ASSUME SudogInv, SudogsOwned, NEW c \in Chans, NEW dir \in Dirs
      PROVE  IsInjective(Queue(c, dir)) /\ \A s \in ToSet(Queue(c, dir)) : Accounted(c, dir, s)
  <2>0. dir \in {"send", "recv"}
    BY DEF Dirs
  <2> DEFINE q == ch[c][Field[dir]]
  <2>1. \A j \in DOMAIN q :
           /\ pc[q[j].g] \in {"parked", "awake", "relock"}
           /\ Live(q[j]) => Asleep(q[j].g)
           /\ op[q[j].g].cases[q[j].case] = [dir |-> dir, c |-> c]
           /\ \A l \in DOMAIN q : q[l] = q[j] => l = j
    <3>1. Owned(c, dir)
      BY <1>1, <2>0, Zenon DEF SudogsOwned
    <3> QED BY <3>1 DEF Owned
  <2>2. \A s \in ToSet(q) :
          /\ s = SudogOf(s.g, s.case) /\ s.case \in Indices(s.g)
          /\ s.case # param[s.g] /\ op[s.g].kind # "close"
    BY <1>1, <2>0 DEF SudogInv
  <2> HIDE DEF q
  <2>3. IsInjective(q)
    BY <2>1 DEF IsInjective
  <2>4. ASSUME NEW s \in ToSet(q)
        PROVE  Accounted(c, dir, s)
    <3>1. PICK k \in DOMAIN q : s = q[k]
      BY <2>4 DEF ToSet
    <3> QED BY <2>1, <2>2, <3>1 DEF Accounted
  <2> QED BY <2>3, <2>4 DEF q, Queue
<1>2. ASSUME QueuesOK, CommitsOK
      PROVE  SudogInv
  <2>1. ASSUME NEW c \in Chans, NEW dir \in {"send", "recv"}, NEW s \in ToSet(ch[c][Field[dir]])
        PROVE  /\ s = SudogOf(s.g, s.case) /\ s.case \in Indices(s.g)
               /\ s.case # param[s.g]
               /\ op[s.g].kind # "close"
    <3>1. dir \in Dirs /\ s \in ToSet(Queue(c, dir))
      BY <2>1 DEF Queue, Dirs
    <3>2. Accounted(c, dir, s)
      BY <1>2, <3>1, Zenon DEF QueuesOK
    <3> QED BY <3>2, ZenonT(40) DEF Accounted
  <2> QED BY <2>1, Zenon DEF SudogInv
<1>3. ASSUME QueuesOK, NEW c \in Chans, NEW dir \in {"send", "recv"}
      PROVE  Owned(c, dir)
  <2>1. PICK q : q = ch[c][Field[dir]]
    OBVIOUS
  <2>2. q = Queue(c, dir) /\ dir \in Dirs
    BY <1>3, <2>1 DEF Queue, Dirs
  <2>3. ASSUME NEW k \in DOMAIN q
        PROVE  /\ pc[q[k].g] \in {"parked", "awake", "relock"}
               /\ Live(q[k]) => Asleep(q[k].g)
               /\ op[q[k].g].cases[q[k].case] = [dir |-> dir, c |-> c]
               /\ \A l \in DOMAIN q : q[l] = q[k] => l = k
    <3>1. q[k] \in ToSet(q)
      BY <2>3 DEF ToSet
    <3>2. IsInjective(q) /\ Accounted(c, dir, q[k])
      BY <1>3, <2>2, <3>1, Zenon DEF QueuesOK
    <3> QED BY <2>3, <3>2 DEF Accounted, IsInjective
  <2> QED BY <2>1, <2>3, Zenon DEF Owned
<1>4. ASSUME QueuesOK, CommitsOK
      PROVE  SudogsOwned
  BY <1>3, <1>4, ZenonT(40) DEF SudogsOwned, CommitsOK
<1>5. ASSUME SudogInv, SudogsOwned
      PROVE  QueuesOK
  BY <1>1, <1>5, Zenon DEF QueuesOK
<1>6. ASSUME SudogsOwned
      PROVE  CommitsOK
  BY <1>6, Zenon DEF CommitsOK, SudogsOwned
<1> QED BY <1>2, <1>4, <1>5, <1>6, Zenon

\* What SleepersBlocked says of a case.
Blocked(g, i) ==
  LET c == op[g].cases[i].c
      dir == op[g].cases[i].dir
  IN  c # Nil =>
        /\ ~ch[c].closed
        /\ dir = "send" => ch[c].qcount = Cap[c]
        /\ dir = "recv" => ch[c].qcount = 0
        /\ \A s \in ToSet(Queue(c, Other[dir])) : s.g = g \/ ~Live(s)
        /\ \E s \in ToSet(Queue(c, dir)) : s.g = g /\ s.case = i /\ Live(s)

\* SleepersBlocked in these terms.
AllBlocked ==
  \A g \in Goroutines : Asleep(g) => \A i \in Indices(g) : Blocked(g, i)

\* A case that is blocked after a step.
LEMMA BlockedByCase ==
  ASSUME NEW h \in Goroutines, NEW i, NEW c \in Chans, NEW d \in Dirs, NEW e \in Dirs, Other[d] = e,
         op'[h].cases[i].c = c, op'[h].cases[i].dir = d, ~ch'[c].closed,
         d = "send" => ch'[c].qcount = Cap[c], d = "recv" => ch'[c].qcount = 0,
         \A s \in ToSet(Queue(c, e)') : s.g = h \/ ~Live(s)',
         \E s \in ToSet(Queue(c, d)') : s.g = h /\ s.case = i /\ Live(s)'
  PROVE  Blocked(h, i)'
BY DEF Blocked

\* It is SleepersBlocked.
LEMMA BlockedEquiv == SleepersBlocked <=> AllBlocked
BY DEF SleepersBlocked, AllBlocked, Blocked, Queue

\* What the invariant says of a sudog in a queue.
LEMMA SudogFact ==
  ASSUME ChanTypeOK, CoreInv
  PROVE  \A c \in Chans, dir \in Dirs : \A s \in ToSet(Queue(c, dir)) :
           /\ s \in Sudog /\ s.g \in Goroutines /\ s.case \in Nat \ {0}
           /\ s = SudogOf(s.g, s.case) /\ s.case \in Indices(s.g)
           /\ s.isSelect = (op[s.g].kind = "select")
           /\ s.case # param[s.g] /\ op[s.g].kind # "close"
           /\ pc[s.g] \in {"parked", "awake", "relock"}
           /\ Live(s) => Asleep(s.g)
<1> TAKE c \in Chans, dir \in Dirs
<1> TAKE s \in ToSet(Queue(c, dir))
<1>1. s \in Sudog
  BY QueueType
<1>2. s.g \in Goroutines /\ s.case \in Nat \ {0}
  BY <1>1 DEF Sudog
<1>3. Accounted(c, dir, s)
  BY QueuesEquiv DEF QueuesOK, CoreInv
<1>4. s.isSelect = (op[s.g].kind = "select")
  BY <1>3 DEF Accounted, SudogOf
<1> QED BY <1>1, <1>2, <1>3, <1>4 DEF Accounted

\* Its goroutine's case is on that channel in that direction.
LEMMA SudogCase ==
  ASSUME ChanTypeOK, CoreInv, NEW c \in Chans, NEW dir \in Dirs, NEW s \in ToSet(Queue(c, dir))
  PROVE  op[s.g].cases[s.case] = [dir |-> dir, c |-> c]
<1>1. Accounted(c, dir, s)
  BY QueuesEquiv DEF QueuesOK, CoreInv
<1> QED BY <1>1 DEF Accounted

-----------------------------------------------------------------------------
(* Steps that finish an operation and wake goroutines                      *)

\* A step in which g finishes, having woken the goroutines in W.
WakeStep(g, W) ==
  /\ pc[g] \in {"lock", "sellock", "loop"} /\ pc' = [pc EXCEPT ![g] = "done"]
  /\ UNCHANGED <<op, commit>>
  /\ wakes' = [wakes EXCEPT ![g] = W]
  /\ \A w \in W : w \in Goroutines /\ Asleep(w)
  /\ \A h \in Goroutines : selectDone'[h] <=> selectDone[h] \/ (h \in W /\ op[h].kind = "select")
  /\ \A h \in Goroutines : h \notin W => param'[h] = param[h]
  /\ \A w \in W :
       \/ param'[w] = Nil /\ SawClosed(w)'
       \/ /\ param'[w] \in Indices(w)
          /\ \A c \in Chans, dir \in Dirs : SudogOf(w, param'[w]) \notin ToSet(Queue(c, dir)')
  /\ \A c \in Chans : ch[c].closed => ch'[c].closed
  /\ \A c \in Chans, dir \in Dirs :
       /\ ToSet(Queue(c, dir)') \subseteq ToSet(Queue(c, dir))
       /\ IsInjective(Queue(c, dir)) => IsInjective(Queue(c, dir)')
       /\ \A s \in ToSet(Queue(c, dir)) : Live(s) => s \in ToSet(Queue(c, dir)') \/ s.g \in W
       /\ \A s \in ToSet(Queue(c, dir)') : s.g \in W => s.isSelect
  /\ \A h \in Goroutines : Asleep(h) /\ h \notin W =>
       \A i \in Indices(h) :
         LET case == op[h].cases[i] IN
         case.c # Nil =>
           /\ ~ch'[case.c].closed
           /\ case.dir = "send" => ch'[case.c].qcount = Cap[case.c]
           /\ case.dir = "recv" => ch'[case.c].qcount = 0

\* Such a step preserves that part of the invariant.
LEMMA WakeStepCore ==
  ASSUME ChanTypeOK, ChanTypeOK', CoreInv, NEW g \in Goroutines, NEW W, WakeStep(g, W)
  PROVE  SudogInv' /\ SudogsOwned' /\ WakeInv' /\ ReadyOnce' /\ SleepersBlocked'
<1>1. /\ DOMAIN pc = Goroutines /\ DOMAIN wakes = Goroutines
      /\ \A h \in Goroutines : selectDone[h] \in BOOLEAN /\ selectDone'[h] \in BOOLEAN
  BY DEF ChanTypeOK
<1>2. /\ pc[g] # "done" /\ wakes[g] = {} /\ commit[g] = {}
      /\ \A h \in Goroutines : h # g => pc'[h] = pc[h] /\ wakes'[h] = wakes[h]
      /\ pc'[g] = "done" /\ wakes'[g] = W
      /\ op' = op /\ commit' = commit
  BY <1>1 DEF WakeStep, CoreInv, PlaceInv, SudogsOwned
<1>3. \A h \in Goroutines : Dequeued(h)' <=> Dequeued(h) \/ h \in W
  BY <1>1, <1>2 DEF Dequeued
<1>4. \A h \in Goroutines : Asleep(h)' <=> Asleep(h) /\ h \notin W
  BY <1>2, <1>3 DEF Asleep, WakeStep
<1>5. \A h \in Goroutines : Woken(h)' <=> Woken(h) \/ h \in W
  BY <1>2, <1>3 DEF Woken, Asleep, WakeStep
<1>6. \A h \in Goroutines : SawClosed(h) => SawClosed(h)'
  <2> TAKE h \in Goroutines
  <2> HAVE SawClosed(h)
  <2>1. PICK i \in Indices(h) : op[h].cases[i].c # Nil /\ ch[op[h].cases[i].c].closed
    BY DEF SawClosed
  <2>2. op[h].cases[i].c \in Chans
    BY <2>1, IndicesFact DEF Case
  <2>3. ch'[op[h].cases[i].c].closed
    BY <2>1, <2>2 DEF WakeStep
  <2>4. op'[h] = op[h] /\ Indices(h)' = Indices(h)
    BY <1>2 DEF Indices
  <2> QED BY <2>1, <2>3, <2>4, ZenonT(40) DEF SawClosed
<1>7. ASSUME NEW c \in Chans, NEW dir \in Dirs, NEW s \in ToSet(Queue(c, dir))
      PROVE  /\ s \in Sudog /\ s.g \in Goroutines
             /\ s = SudogOf(s.g, s.case) /\ s.case \in Indices(s.g)
             /\ s.case # param[s.g] /\ op[s.g].kind # "close"
             /\ pc[s.g] \in {"parked", "awake", "relock"} /\ s.g # g
             /\ Live(s) => Asleep(s.g)
             /\ op[s.g].cases[s.case] = [dir |-> dir, c |-> c]
             /\ s.isSelect = (op[s.g].kind = "select")
  <2>1. /\ s \in Sudog /\ s.g \in Goroutines
        /\ s = SudogOf(s.g, s.case) /\ s.case \in Indices(s.g)
        /\ s.isSelect = (op[s.g].kind = "select")
        /\ s.case # param[s.g] /\ op[s.g].kind # "close"
        /\ pc[s.g] \in {"parked", "awake", "relock"}
        /\ Live(s) => Asleep(s.g)
    BY SudogFact, ZenonT(40)
  <2>2. op[s.g].cases[s.case] = [dir |-> dir, c |-> c]
    BY SudogCase, ZenonT(40)
  <2>3. pc[g] \in {"lock", "sellock", "loop"}
    BY DEF WakeStep
  <2>4. s.g # g
    BY <2>1, <2>3
  <2> QED BY <2>1, <2>2, <2>4
<1>8. ASSUME NEW c \in Chans, NEW dir \in Dirs, NEW s \in ToSet(Queue(c, dir)')
      PROVE  s \in ToSet(Queue(c, dir)) /\ (s.g \in W => s.isSelect)
  BY DEF WakeStep
<1>9. ASSUME NEW c \in Chans, NEW dir \in Dirs, NEW s \in ToSet(Queue(c, dir))
      PROVE  /\ Live(s)' => Live(s)
             /\ Live(s) /\ s.g \notin W => Live(s)'
             /\ s.g \in W /\ s.isSelect => ~Live(s)'
  <2>1. s.g \in Goroutines /\ (s.isSelect = (op[s.g].kind = "select"))
    BY SudogFact, ZenonT(40)
  <2>2. selectDone'[s.g] <=> selectDone[s.g] \/ (s.g \in W /\ op[s.g].kind = "select")
    BY <2>1 DEF WakeStep
  <2> QED BY <2>1, <2>2 DEF Live
<1>10. ASSUME NEW c \in Chans, NEW dir \in Dirs, NEW s \in ToSet(Queue(c, dir)')
       PROVE  Accounted(c, dir, s)'
  <2>1. s \in ToSet(Queue(c, dir)) /\ (s.g \in W => s.isSelect)
    BY <1>8
  <2>2. /\ s.g \in Goroutines /\ s = SudogOf(s.g, s.case) /\ s.case \in Indices(s.g)
        /\ s.case # param[s.g] /\ op[s.g].kind # "close"
        /\ s.g # g /\ pc[s.g] \in {"parked", "awake", "relock"}
        /\ Live(s) => Asleep(s.g)
        /\ op[s.g].cases[s.case] = [dir |-> dir, c |-> c]
    BY <1>7, <2>1
  <2>3. s.case # param'[s.g]
    <3>1. CASE s.g \notin W
      BY <2>2, <3>1 DEF WakeStep
    <3>2. CASE s.g \in W /\ param'[s.g] = Nil
      BY <2>2, <3>2, IndicesFact DEF Nil
    <3>3. CASE s.g \in W /\ SudogOf(s.g, param'[s.g]) \notin ToSet(Queue(c, dir)')
      BY <2>2, <3>3
    <3> QED BY <3>1, <3>2, <3>3 DEF WakeStep
  <2>4. Live(s)' => Asleep(s.g)'
    BY <1>4, <1>9, <2>1, <2>2
  <2>5. SudogOf(s.g, s.case)' = SudogOf(s.g, s.case) /\ Indices(s.g)' = Indices(s.g)
    BY <1>2 DEF SudogOf, Indices
  <2> QED BY <1>2, <2>2, <2>3, <2>4, <2>5 DEF Accounted
<1>11. SudogInv' /\ SudogsOwned'
  <2>1. ASSUME NEW c \in Chans, NEW dir \in Dirs
        PROVE  IsInjective(Queue(c, dir)')
    <3>1. IsInjective(Queue(c, dir))
      BY QueuesEquiv DEF CoreInv, QueuesOK
    <3> QED BY <3>1 DEF WakeStep
  <2>2. QueuesOK'
    BY <1>10, <2>1 DEF QueuesOK
  <2>3. CommitsOK'
    BY <1>2, QueuesEquiv DEF CoreInv, CommitsOK
  <2> QED BY <2>2, <2>3, QueuesEquiv, PTL
<1>12. WakeInv'
  <2>1. ASSUME NEW h \in Goroutines
        PROVE  /\ selectDone'[h] <=> op'[h].kind = "select" /\ Woken(h)'
               /\ param'[h] # Nil => Woken(h)' /\ param'[h] \in Indices(h)'
               /\ Woken(h)' /\ param'[h] = Nil => SawClosed(h)'
               /\ pc'[h] = "loop" => SawClosed(h)'
    <3>1. /\ selectDone[h] <=> op[h].kind = "select" /\ Woken(h)
          /\ param[h] # Nil => Woken(h) /\ param[h] \in Indices(h)
          /\ Woken(h) /\ param[h] = Nil => SawClosed(h)
          /\ pc[h] = "loop" => SawClosed(h)
      BY DEF CoreInv, WakeInv
    <3>2. selectDone'[h] <=> selectDone[h] \/ (h \in W /\ op[h].kind = "select")
      BY DEF WakeStep
    <3>3. Indices(h)' = Indices(h) /\ \A i \in Indices(h) : i # Nil
      BY <1>2, IndicesFact DEF Indices, Nil
    <3>4. pc'[h] = "loop" => pc[h] = "loop"
      BY <1>2
    <3>5. CASE h \notin W
      <4>1. param'[h] = param[h]
        BY <3>5 DEF WakeStep
      <4> QED BY <1>2, <1>5, <1>6, <3>1, <3>2, <3>3, <3>4, <3>5, <4>1
    <3>6. CASE h \in W
      <4>1. \/ param'[h] = Nil /\ SawClosed(h)'
            \/ param'[h] \in Indices(h)
        BY <3>6 DEF WakeStep
      <4> QED BY <1>2, <1>5, <1>6, <3>1, <3>2, <3>3, <3>4, <3>6, <4>1
    <3> QED BY <3>5, <3>6
  <2> QED BY <2>1 DEF WakeInv
<1>13. ReadyOnce'
  <2>1. ASSUME NEW f \in Goroutines, NEW h \in Goroutines, h \in wakes'[f]
        PROVE  /\ pc'[h] = "parked"
               /\ \A e \in Goroutines : h \in wakes'[e] => e = f
               /\ op'[h].kind = "select" => selectDone'[h]
    <3>1. CASE f = g
      <4>1. h \in W /\ Asleep(h) /\ h # g
        BY <1>2, <2>1, <3>1 DEF WakeStep, Asleep
      <4>2. \A e \in Goroutines : h \notin wakes[e]
        BY <4>1 DEF Asleep, Dequeued
      <4> QED BY <1>2, <3>1, <4>1, <4>2 DEF WakeStep, Asleep
    <3>2. CASE f # g
      <4>1. h \in wakes[f] /\ h \notin W
        <5>1. h \in wakes[f]
          BY <1>2, <2>1, <3>2
        <5> QED BY <5>1 DEF WakeStep, Asleep, Dequeued
      <4>2. /\ pc[h] = "parked"
            /\ \A e \in Goroutines : h \in wakes[e] => e = f
            /\ op[h].kind = "select" => selectDone[h]
        BY <4>1 DEF CoreInv, ReadyOnce
      <4>3. h # g
        BY <4>2 DEF WakeStep
      <4> QED BY <1>2, <3>2, <4>1, <4>2, <4>3 DEF WakeStep
    <3> QED BY <3>1, <3>2
  <2> QED BY <2>1 DEF ReadyOnce
<1>14. SleepersBlocked'
  <2>1. ASSUME NEW h \in Goroutines, Asleep(h)', NEW i \in Indices(h)
        PROVE  Blocked(h, i)'
    <3>1. Asleep(h) /\ h \notin W
      BY <1>4, <2>1
    <3>2. CASE op[h].cases[i].c = Nil
      BY <1>2, <3>2 DEF Blocked
    <3>3. CASE op[h].cases[i].c # Nil
      <4>1. op[h].cases[i].c \in Chans /\ op[h].cases[i].dir \in Dirs
        <5>1. op[h].cases[i] \in Case
          BY IndicesFact
        <5> QED BY <3>3, <5>1 DEF Case, Dirs
      <4>2. PICK c \in Chans, d \in Dirs, e \in Dirs :
              op[h].cases[i].c = c /\ op[h].cases[i].dir = d /\ Other[d] = e
        <5>1. \A d \in Dirs : Other[d] \in Dirs
          BY DEF Dirs, Other
        <5> QED BY <4>1, <5>1
      <4>3. /\ c # Nil /\ ~ch'[c].closed
            /\ d = "send" => ch'[c].qcount = Cap[c]
            /\ d = "recv" => ch'[c].qcount = 0
        BY <3>1, <3>3, <4>2 DEF WakeStep
      <4>4. /\ \A s \in ToSet(Queue(c, e)) : s.g = h \/ ~Live(s)
            /\ \E s \in ToSet(Queue(c, d)) : s.g = h /\ s.case = i /\ Live(s)
        <5>1. Blocked(h, i)
          BY <3>1, BlockedEquiv DEF CoreInv, AllBlocked
        <5> QED BY <3>3, <4>2, <5>1 DEF Blocked
      <4>5. \A s \in ToSet(Queue(c, e)') : s.g = h \/ ~Live(s)'
        BY <1>8, <1>9, <4>4
      <4>6. PICK s \in ToSet(Queue(c, d)) : s.g = h /\ s.case = i /\ Live(s)
        BY <4>4
      <4>7. s \in ToSet(Queue(c, d)') /\ Live(s)'
        BY <1>9, <3>1, <4>6 DEF WakeStep
      <4> QED BY <1>2, <4>2, <4>3, <4>5, <4>6, <4>7 DEF Blocked
    <3> QED BY <3>2, <3>3
  <2>2. AllBlocked'
    BY <1>2, <2>1 DEF Indices, AllBlocked
  <2> QED BY <2>2, BlockedEquiv, PTL
<1> QED BY <1>11, <1>12, <1>13, <1>14

\* A sequence is empty if it has no elements.
LEMMA EmptyFact ==
  ASSUME NEW T, NEW q \in Seq(T)
  PROVE  q = <<>> <=> ToSet(q) = {}
<1>1. q = <<>> => ToSet(q) = {}
  BY DEF ToSet
<1>2. ASSUME q # <<>>
      PROVE  ToSet(q) # {}
  <2>1. 1 \in DOMAIN q
    BY <1>2
  <2> QED BY <2>1 DEF ToSet
<1> QED BY <1>1, <1>2

\* What QueueShape says of one channel.
Shaped(c, h) ==
  /\ h.sendq # <<>> /\ h.recvq # <<>> =>
       Cap[c] = 0 /\ \E g \in Goroutines : {s.g : s \in ToSet(h.sendq) \cup ToSet(h.recvq)} = {g}
  /\ Cap[c] > 0 /\ h.qcount > 0 => h.recvq = <<>>
  /\ h.qcount < Cap[c] => h.sendq = <<>>

\* QueueShape in these terms.
AllShaped == \A c \in Chans : Shaped(c, ch[c])

\* It is QueueShape.
LEMMA ShapeEquiv == QueueShape <=> TypeOK /\ AllShaped
BY DEF QueueShape, Shaped, AllShaped

\* Queues that lose sudogs keep their shape.
LEMMA ShrinkShape ==
  ASSUME NEW c \in Chans, NEW h \in Hchan(c), NEW k \in Hchan(c), Shaped(c, h),
         k.qcount = h.qcount,
         ToSet(k.sendq) \subseteq ToSet(h.sendq), ToSet(k.recvq) \subseteq ToSet(h.recvq)
  PROVE  Shaped(c, k)
<1>1. /\ h.sendq \in Seq(Sudog) /\ h.recvq \in Seq(Sudog)
      /\ k.sendq \in Seq(Sudog) /\ k.recvq \in Seq(Sudog)
  BY DEF Hchan
<1>2. (h.sendq = <<>> => k.sendq = <<>>) /\ (h.recvq = <<>> => k.recvq = <<>>)
  BY <1>1, EmptyFact
<1>3. ASSUME k.sendq # <<>>, k.recvq # <<>>
      PROVE  Cap[c] = 0 /\ \E g \in Goroutines : {s.g : s \in ToSet(k.sendq) \cup ToSet(k.recvq)} = {g}
  <2>1. /\ Cap[c] = 0
        /\ \E g \in Goroutines : {s.g : s \in ToSet(h.sendq) \cup ToSet(h.recvq)} = {g}
    BY <1>2, <1>3 DEF Shaped
  <2>2. PICK g \in Goroutines : {s.g : s \in ToSet(h.sendq) \cup ToSet(h.recvq)} = {g}
    BY <2>1
  <2>3. \A s \in ToSet(k.sendq) \cup ToSet(k.recvq) : s.g = g
    BY <2>2
  <2>4. ToSet(k.sendq) # {}
    BY <1>1, <1>3, EmptyFact
  <2>5. {s.g : s \in ToSet(k.sendq) \cup ToSet(k.recvq)} = {g}
    BY <2>3, <2>4
  <2> QED BY <2>1, <2>5
<1> QED BY <1>2, <1>3 DEF Shaped

\* So do channels whose buffer gains or loses a value while the other queue is empty.
LEMMA BufferShape ==
  ASSUME NEW c \in Chans, NEW h \in Hchan(c), NEW k \in Hchan(c), Shaped(c, h),
         \/ /\ h.qcount < Cap[c] /\ k.qcount = h.qcount + 1
            /\ k.recvq = <<>> /\ ToSet(k.sendq) \subseteq ToSet(h.sendq)
         \/ /\ h.qcount > 0 /\ k.qcount = h.qcount - 1
            /\ k.sendq = <<>> /\ ToSet(k.recvq) \subseteq ToSet(h.recvq)
  PROVE  Shaped(c, k)
<1>1. /\ h.sendq \in Seq(Sudog) /\ h.recvq \in Seq(Sudog)
      /\ k.sendq \in Seq(Sudog) /\ k.recvq \in Seq(Sudog)
      /\ h.qcount \in 0 .. Cap[c] /\ k.qcount \in 0 .. Cap[c] /\ Cap[c] \in Nat
  BY ChanAssumption DEF Hchan
<1>2. ToSet(k.sendq) \subseteq ToSet(h.sendq) /\ h.sendq = <<>> => k.sendq = <<>>
  <2>1. (h.sendq = <<>> <=> ToSet(h.sendq) = {}) /\ (k.sendq = <<>> <=> ToSet(k.sendq) = {})
    BY <1>1, EmptyFact
  <2> QED BY <2>1
<1>3. ToSet(k.recvq) \subseteq ToSet(h.recvq) /\ h.recvq = <<>> => k.recvq = <<>>
  <2>1. (h.recvq = <<>> <=> ToSet(h.recvq) = {}) /\ (k.recvq = <<>> <=> ToSet(k.recvq) = {})
    BY <1>1, EmptyFact
  <2> QED BY <2>1
<1>4. k.qcount < Cap[c] /\ h.qcount < Cap[c] /\ ToSet(k.sendq) \subseteq ToSet(h.sendq) => k.sendq = <<>>
  BY <1>2 DEF Shaped
<1>5. Cap[c] > 0 /\ h.qcount > 0 /\ ToSet(k.recvq) \subseteq ToSet(h.recvq) => k.recvq = <<>>
  BY <1>3 DEF Shaped
<1> QED BY <1>1, <1>4, <1>5 DEF Shaped

\* Steps in which g finishes without waking anybody: queues only lose stale sudogs, and
\* slots change hands only where nobody waits for them.
LEMMA NoWakeStep ==
  ASSUME ChanTypeOK, CoreInv, NEW g \in Goroutines,
         pc[g] \in {"lock", "sellock", "loop"}, pc' = [pc EXCEPT ![g] = "done"],
         UNCHANGED <<op, commit, selectDone, param, wakes>>,
         \A c \in Chans :
           /\ ch'[c].closed = ch[c].closed
           /\ SameQueue(ch[c].sendq, ch'[c].sendq)
           /\ SameQueue(ch[c].recvq, ch'[c].recvq)
           /\ \/ ch'[c].qcount = ch[c].qcount
              \/ ch[c].qcount < Cap[c] /\ LiveIn(ch[c].recvq) = {}
              \/ ch[c].qcount > 0 /\ LiveIn(ch[c].sendq) = {}
  PROVE  WakeStep(g, {})
<1>1. wakes[g] = {} /\ wakes \in [Goroutines -> SUBSET Goroutines]
  BY DEF CoreInv, PlaceInv, ChanTypeOK
<1>2. wakes' = [wakes EXCEPT ![g] = {}]
  BY <1>1
<1>3. ASSUME NEW c \in Chans, NEW dir \in Dirs
      PROVE  SameQueue(Queue(c, dir), Queue(c, dir)')
  BY QueueNames, <1>3 DEF Dirs, Queue, Field
<1>4. ASSUME NEW c \in Chans, NEW dir \in Dirs
      PROVE  /\ ToSet(Queue(c, dir)') \subseteq ToSet(Queue(c, dir))
             /\ IsInjective(Queue(c, dir)) => IsInjective(Queue(c, dir)')
             /\ \A s \in ToSet(Queue(c, dir)) : Live(s) => s \in ToSet(Queue(c, dir)')
  <2>1. CASE Queue(c, dir)' = Queue(c, dir)
    BY <2>1
  <2>2. CASE Queue(c, dir)' = <<>> /\ LiveIn(Queue(c, dir)) = {}
    <3>1. ToSet(<<>>) = {} /\ IsInjective(<<>>)
      BY DEF ToSet, IsInjective
    <3>2. \A s \in ToSet(Queue(c, dir)) : ~Live(s)
      BY <2>2 DEF LiveIn, ToSet
    <3> QED BY <2>2, <3>1, <3>2
  <2> QED BY <1>3, <2>1, <2>2 DEF SameQueue
<1>5. ASSUME NEW h \in Goroutines, Asleep(h), NEW i \in Indices(h), op[h].cases[i].c # Nil
      PROVE  LET case == op[h].cases[i] IN
             /\ ~ch'[case.c].closed
             /\ case.dir = "send" => ch'[case.c].qcount = Cap[case.c]
             /\ case.dir = "recv" => ch'[case.c].qcount = 0
  <2>1. op[h].cases[i].c \in Chans /\ op[h].cases[i].dir \in Dirs
    <3>1. op[h].cases[i] \in Case
      BY IndicesFact
    <3> QED BY <1>5, <3>1 DEF Case, Dirs
  <2>2. PICK c \in Chans, d \in Dirs : op[h].cases[i].c = c /\ op[h].cases[i].dir = d
    BY <2>1
  <2>3. /\ ~ch[c].closed
        /\ d = "send" => ch[c].qcount = Cap[c]
        /\ d = "recv" => ch[c].qcount = 0
        /\ \E s \in ToSet(Queue(c, d)) : Live(s)
    <3>1. Blocked(h, i)
      BY <1>5, BlockedEquiv DEF CoreInv, AllBlocked
    <3> QED BY <1>5, <2>2, <3>1 DEF Blocked
  <2>4. LiveIn(Queue(c, d)) # {}
    BY <2>3 DEF LiveIn, ToSet
  <2>5. Cap[c] \in Nat
    BY ChanAssumption
  <2> QED BY <2>2, <2>3, <2>4, <2>5, QueueNames DEF Dirs
<1> QED BY <1>2, <1>4, <1>5 DEF WakeStep

\* Steps in which g finishes having dequeued the first live sudog of a queue.
LEMMA WakeOneStep ==
  ASSUME ChanTypeOK, CoreInv, NEW g \in Goroutines,
         pc[g] \in {"lock", "sellock", "loop"}, pc' = [pc EXCEPT ![g] = "done"],
         UNCHANGED <<op, commit>>,
         NEW c \in Chans, NEW e \in Dirs, NEW x, LiveIn(Queue(c, e)) # {},
         NEW r, r = First(Queue(c, e)), Claim(g, r, r.case, x),
         Queue(c, e)' = Rest(Queue(c, e)),
         \A d \in Chans, dir \in Dirs :
           (d # c \/ dir # e) => SameQueue(Queue(d, dir), Queue(d, dir)'),
         \A d \in Chans : ch'[d].closed = ch[d].closed /\ ch'[d].qcount = ch[d].qcount
  PROVE  r \in Sudog /\ Asleep(r.g) /\ WakeStep(g, {r.g})
<1>1. /\ r \in ToSet(Queue(c, e)) /\ Live(r)
      /\ ToSet(Queue(c, e)') \subseteq ToSet(Queue(c, e))
      /\ \A s \in ToSet(Queue(c, e)) : Live(s) => s = r \/ s \in ToSet(Queue(c, e)')
      /\ IsInjective(Queue(c, e)') /\ r \notin ToSet(Queue(c, e)')
  <2>1. Queue(c, e) \in Seq(Sudog) /\ IsInjective(Queue(c, e))
    BY QueueType, QueuesEquiv DEF CoreInv, QueuesOK
  <2> QED BY <2>1, RestFact
<1>2. /\ r \in Sudog /\ r.g \in Goroutines /\ r.case \in Nat \ {0}
      /\ r = SudogOf(r.g, r.case) /\ r.case \in Indices(r.g)
      /\ Asleep(r.g)
      /\ op[r.g].cases[r.case] = [dir |-> e, c |-> c]
      /\ r.isSelect = (op[r.g].kind = "select")
  BY <1>1, SudogFact, SudogCase
<1>3. ASSUME NEW d \in Chans, NEW dir \in Dirs
      PROVE  /\ ToSet(Queue(d, dir)') \subseteq ToSet(Queue(d, dir))
             /\ IsInjective(Queue(d, dir)) => IsInjective(Queue(d, dir)')
             /\ \A s \in ToSet(Queue(d, dir)) : Live(s) => s \in ToSet(Queue(d, dir)') \/ s.g = r.g
             /\ r \notin ToSet(Queue(d, dir)')
  <2>1. CASE d = c /\ dir = e
    BY <1>1, <2>1
  <2>2. CASE d # c \/ dir # e
    <3>1. r \notin ToSet(Queue(d, dir))
      <4>1. ASSUME r \in ToSet(Queue(d, dir))
            PROVE  FALSE
        <5>1. [dir |-> dir, c |-> d] = [dir |-> e, c |-> c]
          BY <1>2, <4>1, SudogCase, ZenonT(40)
        <5> QED BY <2>2, <5>1
      <4> QED BY <4>1
    <3>2. CASE Queue(d, dir)' = Queue(d, dir)
      BY <3>1, <3>2
    <3>3. CASE Queue(d, dir)' = <<>> /\ LiveIn(Queue(d, dir)) = {}
      <4>1. ToSet(<<>>) = {} /\ IsInjective(<<>>)
        BY DEF ToSet, IsInjective
      <4>2. \A s \in ToSet(Queue(d, dir)) : ~Live(s)
        BY <3>3 DEF LiveIn, ToSet
      <4> QED BY <3>3, <4>1, <4>2
    <3> QED BY <2>2, <3>2, <3>3 DEF SameQueue
  <2> QED BY <2>1, <2>2
<1>4. ASSUME NEW d \in Chans, NEW dir \in Dirs, NEW s \in ToSet(Queue(d, dir)'), s.g = r.g
      PROVE  s.isSelect
  <2>1. s \in ToSet(Queue(d, dir)) /\ s # r
    BY <1>3, <1>4
  <2>2. /\ s = SudogOf(s.g, s.case) /\ s.case \in Indices(s.g) /\ op[s.g].kind # "close"
        /\ s.isSelect = (op[s.g].kind = "select")
    BY <2>1, SudogFact, SudogCase
  <2>3. s.case # r.case
    BY <1>2, <1>4, <2>1, <2>2
  <2>4. op[r.g].kind # "chan"
    BY <1>2, <1>4, <2>2, <2>3, IndicesFact
  <2>5. op[r.g] # NoOp
    <3>1. ~(r.case \in DOMAIN <<>>)
      OBVIOUS
    <3> QED BY <1>2, <3>1 DEF NoOp, Indices
  <2>6. op[r.g].kind \in {"chan", "select", "close"}
    BY <1>2, <2>5 DEF ChanTypeOK, IsOp
  <2> QED BY <1>4, <2>2, <2>4, <2>6
<1>5. ASSUME NEW h \in Goroutines
      PROVE  selectDone'[h] <=> selectDone[h] \/ (h \in {r.g} /\ op[h].kind = "select")
  <2>1. selectDone' = [selectDone EXCEPT ![r.g] = r.isSelect] /\ selectDone \in [Goroutines -> BOOLEAN]
    BY DEF Claim, ChanTypeOK
  <2>2. CASE h # r.g
    BY <2>1, <2>2
  <2>3. CASE h = r.g
    <3>1. selectDone'[h] = (op[h].kind = "select")
      BY <1>2, <2>1, <2>3
    <3>2. selectDone[h] => op[h].kind = "select"
      BY DEF CoreInv, WakeInv
    <3> QED BY <2>3, <3>1, <3>2
  <2> QED BY <2>2, <2>3
<1>6. /\ param' = [param EXCEPT ![r.g] = r.case] /\ param \in [Goroutines -> Nat]
      /\ wakes' = [wakes EXCEPT ![g] = {r.g}]
  BY DEF Claim, ChanTypeOK
<1>7. ASSUME NEW h \in Goroutines, Asleep(h), NEW i \in Indices(h), op[h].cases[i].c # Nil
      PROVE  LET case == op[h].cases[i] IN
             /\ ~ch'[case.c].closed
             /\ case.dir = "send" => ch'[case.c].qcount = Cap[case.c]
             /\ case.dir = "recv" => ch'[case.c].qcount = 0
  <2>1. op[h].cases[i].c \in Chans
    <3>1. op[h].cases[i] \in Case
      BY IndicesFact
    <3> QED BY <1>7, <3>1 DEF Case
  <2>2. Blocked(h, i)
    BY <1>7, BlockedEquiv DEF CoreInv, AllBlocked
  <2> QED BY <1>7, <2>1, <2>2 DEF Blocked
<1>8. param'[r.g] = r.case /\ \A h \in Goroutines : h # r.g => param'[h] = param[h]
  BY <1>2, <1>6
<1> DEFINE W == {r.g}
<1>9. /\ \A w \in W : w \in Goroutines /\ Asleep(w)
      /\ \A h \in Goroutines : h \notin W => param'[h] = param[h]
  BY <1>2, <1>8
<1>10. \A w \in W :
         \/ param'[w] = Nil /\ SawClosed(w)'
         \/ /\ param'[w] \in Indices(w)
            /\ \A d \in Chans, dir \in Dirs : SudogOf(w, param'[w]) \notin ToSet(Queue(d, dir)')
  BY <1>2, <1>3, <1>8
<1>11. \A d \in Chans, dir \in Dirs :
         /\ ToSet(Queue(d, dir)') \subseteq ToSet(Queue(d, dir))
         /\ IsInjective(Queue(d, dir)) => IsInjective(Queue(d, dir)')
         /\ \A s \in ToSet(Queue(d, dir)) : Live(s) => s \in ToSet(Queue(d, dir)') \/ s.g \in W
         /\ \A s \in ToSet(Queue(d, dir)') : s.g \in W => s.isSelect
  BY <1>3, <1>4
<1>12. \A h \in Goroutines : Asleep(h) /\ h \notin W =>
         \A i \in Indices(h) :
           LET case == op[h].cases[i] IN
           case.c # Nil =>
             /\ ~ch'[case.c].closed
             /\ case.dir = "send" => ch'[case.c].qcount = Cap[case.c]
             /\ case.dir = "recv" => ch'[case.c].qcount = 0
  BY <1>7
<1>13. /\ \A h \in Goroutines : selectDone'[h] <=> selectDone[h] \/ (h \in W /\ op[h].kind = "select")
       /\ \A d \in Chans : ch[d].closed => ch'[d].closed
       /\ wakes' = [wakes EXCEPT ![g] = W]
  BY <1>5, <1>6
<1>14. WakeStep(g, W)
  <2> HIDE DEF W
  <2> QED BY <1>9, <1>10, <1>11, <1>12, <1>13 DEF WakeStep
<1> QED BY <1>2, <1>14

\* What PlaceInv, FastInv and DefaultJustified say of one goroutine.
Placed(g) ==
  /\ pc[g] = "idle" <=> op[g] = NoOp
  /\ pc[g] \in {"fast", "fast2"} => op[g].kind = "chan" /\ ~op[g].block
  /\ pc[g] = "fast2" => theCase(g).c # Nil
  /\ pc[g] = "lock" => op[g].kind # "select"
  /\ pc[g] \in {"sellock", "loop", "relock"} => op[g].kind = "select"
  /\ pc[g] \in {"parked", "awake", "loop", "relock"} =>
       op[g].kind # "close" /\ op[g].block
  /\ pc[g] # "done" => res[g] = NoResult /\ wakes[g] = {}
  /\ commit[g] # {} => op[g].kind = "select" /\ commit[g] \subseteq CaseChans(g)

FastOK(g) ==
  LET c == theCase(g).c IN
  /\ NotReady(g) => missed[g]
  /\ pc[g] = "fast2" /\ theCase(g).dir = "recv" => missed[g] \/ ch[c].closed
  /\ pc[g] = "fast2" /\ theCase(g).dir = "send" /\ Cap[c] > 0
         /\ ch[c].closed /\ ch[c].qcount = Cap[c] => missed[g]

DefaultOK(g) ==
  res[g] = Default => missed[g] \/ (UnbufferedSend(g) /\ ch[theCase(g).c].closed)

\* Of all of them.
AllPlaced == \A g \in Goroutines : Placed(g)
AllFast == \A g \in Goroutines : FastOK(g)
AllDefaults == \A g \in Goroutines : DefaultOK(g)

\* They are PlaceInv,
LEMMA PlaceEquiv == PlaceInv <=> AllPlaced
BY DEF PlaceInv, Placed, AllPlaced

\* FastInv
LEMMA FastEquiv == FastInv <=> AllFast
BY DEF FastInv, FastOK, AllFast

\* and DefaultJustified.
LEMMA DefaultEquiv == DefaultJustified <=> AllDefaults
BY DEF DefaultJustified, DefaultOK, AllDefaults

\* The one case of an operation on one channel.
LEMMA TheCaseFact ==
  ASSUME ChanTypeOK, NEW g \in Goroutines, op[g].kind \in {"chan", "close"}
  PROVE  /\ op[g] # NoOp /\ Indices(g) = {1} /\ theCase(g) \in Case
         /\ theCase(g).c # Nil => theCase(g).c \in Chans
         /\ op[g].kind = "chan" => theCase(g).dir \in Dirs
<1>1. op[g] # NoOp /\ IsOp(op[g])
  BY DEF ChanTypeOK, NoOp
<1>2. op[g].cases \in Seq(Case) /\ Len(op[g].cases) = 1
  BY <1>1 DEF IsOp
<1>3. Indices(g) = {1} /\ theCase(g) \in Case
  BY <1>2 DEF Indices, theCase
<1> QED BY <1>1, <1>3 DEF Case, Dirs

\* A non-blocking operation whose one case is not ready could do nothing.
LEMMA NotReadyFact ==
  ASSUME ChanTypeOK, NEW g \in Goroutines, op[g].kind = "chan", InCall(g), ~op[g].block,
         ~Ready(theCase(g))
  PROVE  NotReady(g)
<1>1. Indices(g) = {1}
  BY TheCaseFact
<1> QED BY <1>1 DEF NotReady, ReadyAt, theCase

\* An operation that has given up has a result.
LEMMA DefaultIsResult == Default # NoResult
BY ChanAssumption DEF Default, NoResult

\* What Observe records.
LEMMA ObserveFact ==
  ASSUME Observe, NEW g \in Goroutines
  PROVE  /\ NotReady(g)' => missed'[g]
         /\ missed[g] /\ pc'[g] # "idle" => missed'[g]
BY DEF Observe, NotReady, InCall

\* A step that another goroutine takes leaves what is recorded of h true.
LEMMA HistoryKept ==
  ASSUME ChanTypeOK, PlaceInv, QueueShape, FastInv, DefaultJustified, Observe,
         NEW h \in Goroutines, op'[h] = op[h],
         pc'[h] = "fast2" => pc[h] = "fast2", pc'[h] = "idle" => pc[h] = "idle",
         res'[h] = Default => res[h] = Default,
         \A c \in Chans :
           /\ ch[c].closed => ch'[c].closed
           /\ Cap[c] > 0 /\ ch'[c].closed /\ ch'[c].qcount = Cap[c] => ch[c].qcount = Cap[c]
  PROVE  FastOK(h)' /\ DefaultOK(h)'
<1>1. theCase(h)' = theCase(h)
  BY DEF theCase
<1>2. Placed(h) /\ FastOK(h) /\ DefaultOK(h)
  BY PlaceEquiv, FastEquiv, DefaultEquiv DEF AllPlaced, AllFast, AllDefaults
<1>3. ASSUME pc'[h] = "fast2"
      PROVE  LET c == theCase(h).c IN
             /\ theCase(h).dir = "recv" => missed'[h] \/ ch'[c].closed
             /\ theCase(h).dir = "send" /\ Cap[c] > 0 /\ ch'[c].closed /\ ch'[c].qcount = Cap[c] => missed'[h]
  <2>1. pc[h] = "fast2" /\ op[h].kind = "chan" /\ ~op[h].block /\ theCase(h).c # Nil
    BY <1>2, <1>3 DEF Placed
  <2>2. PICK c \in Chans : theCase(h).c = c
    BY <2>1, TheCaseFact
  <2>3. missed[h] => missed'[h]
    BY <1>3, ObserveFact
  <2>4. theCase(h).dir = "recv" => missed'[h] \/ ch'[c].closed
    BY <1>2, <2>1, <2>2, <2>3 DEF FastOK
  <2>5. ASSUME theCase(h).dir = "send", Cap[c] > 0, ch'[c].closed, ch'[c].qcount = Cap[c]
        PROVE  missed'[h]
    <3>1. ch[c].qcount = Cap[c]
      BY <2>5
    <3>2. CASE ch[c].closed
      BY <1>2, <2>1, <2>2, <2>3, <2>5, <3>1, <3>2 DEF FastOK
    <3>3. CASE ~ch[c].closed
      <4>1. ch[c].recvq = <<>> /\ Cap[c] \in Nat
        BY <2>5, <3>1, ChanAssumption DEF QueueShape
      <4>2. ~Ready(theCase(h))
        BY <2>1, <2>2, <2>5, <3>1, <3>3, <4>1 DEF Ready, Waiting, LiveIn, Field, Other
      <4>3. NotReady(h)
        BY <2>1, <4>2, NotReadyFact DEF InCall
      <4> QED BY <1>2, <2>3, <4>3 DEF FastOK
    <3> QED BY <3>2, <3>3
  <2> QED BY <2>2, <2>4, <2>5
<1>4. FastOK(h)'
  BY <1>1, <1>3, ObserveFact DEF FastOK
<1>5. ASSUME res'[h] = Default
      PROVE  missed'[h] \/ (UnbufferedSend(h)' /\ ch'[theCase(h).c].closed)
  <2>1. res[h] = Default /\ pc[h] = "done" /\ pc'[h] # "idle"
    BY <1>2, <1>5, DefaultIsResult DEF Placed
  <2>2. CASE missed[h]
    BY <2>1, <2>2, ObserveFact
  <2>3. CASE UnbufferedSend(h) /\ ch[theCase(h).c].closed
    <3>1. theCase(h).c \in Chans
      BY <2>3, TheCaseFact DEF UnbufferedSend
    <3> QED BY <1>1, <2>3, <3>1 DEF UnbufferedSend
  <2> QED BY <1>2, <2>1, <2>2, <2>3 DEF DefaultOK
<1> QED BY <1>1, <1>4, <1>5 DEF DefaultOK

\* A closed channel makes each of its cases ready.
LEMMA SawClosedReady ==
  ASSUME NEW g \in Goroutines, SawClosed(g)
  PROVE  ReadyAt(g) # {}
BY DEF SawClosed, ReadyAt, Ready

\* The rest of the invariant.
ProgramOK == program \in Programs
NoThrow == \A g \in Goroutines : pc[g] # "throw"

\* The invariant in these parts, which the steps below preserve one by one.
LEMMA InvEquiv ==
  ChanInv <=> /\ TypeOK /\ AllShaped /\ ProgramOK
              /\ CoreInv /\ NoThrow /\ FastInv /\ DefaultJustified
<1>1. WakeInv => \A g \in Goroutines : pc[g] = "loop" => ReadyAt(g) # {}
  BY SawClosedReady DEF WakeInv
<1> QED BY <1>1, ShapeEquiv DEF ChanInv, CoreInv, NoThrow, WokenForAReason, ProgramOK

\* Observe keeps the type of what it records.
LEMMA HistoryType ==
  ASSUME missed \in [Goroutines -> BOOLEAN], Observe
  PROVE  missed' \in [Goroutines -> BOOLEAN] /\ program' = program
BY DEF Observe

\* A step changes nothing of what PlaceInv says of a goroutine that does not move.
LEMMA PlaceKept ==
  ASSUME NEW h \in Goroutines, Placed(h), pc'[h] = pc[h], op'[h] = op[h], res'[h] = res[h],
         wakes'[h] = wakes[h], commit'[h] = commit[h]
  PROVE  Placed(h)'
<1>1. CaseChans(h)' = CaseChans(h) /\ theCase(h)' = theCase(h)
  BY DEF CaseChans, theCase
<1> QED BY <1>1 DEF Placed

\* A step that finishes an operation and wakes W preserves the invariant.
LEMMA FinishStep ==
  ASSUME ChanInv, ChanTypeOK', AllShaped', Observe, NEW g \in Goroutines, NEW W, WakeStep(g, W),
         \A h \in Goroutines : h # g => res'[h] = res[h], res'[g] = Default => missed[g],
         \A c \in Chans : Cap[c] > 0 /\ ch'[c].closed /\ ch'[c].qcount = Cap[c] => ch[c].qcount = Cap[c]
  PROVE  ChanInv'
<1>1. TypeOK /\ ChanTypeOK /\ CoreInv /\ NoThrow /\ QueueShape /\ FastInv /\ DefaultJustified /\ ProgramOK
  BY InvEquiv DEF ChanInv, TypeOK
<1>2. SudogInv' /\ SudogsOwned' /\ WakeInv' /\ ReadyOnce' /\ SleepersBlocked'
  BY <1>1, WakeStepCore
<1>3. /\ DOMAIN pc = Goroutines /\ DOMAIN wakes = Goroutines
      /\ pc[g] \in {"lock", "sellock", "loop"} /\ pc'[g] = "done"
      /\ \A h \in Goroutines : h # g => pc'[h] = pc[h] /\ wakes'[h] = wakes[h]
      /\ op' = op /\ commit' = commit
  BY <1>1 DEF WakeStep, ChanTypeOK
<1>4. \A h \in Goroutines : Placed(h)
  BY <1>1, PlaceEquiv DEF CoreInv, AllPlaced
<1>5. ASSUME NEW h \in Goroutines
      PROVE  Placed(h)'
  <2>1. CASE h # g
    BY <1>3, <1>4, <2>1, PlaceKept
  <2>2. CASE h = g
    <3>1. commit[g] = {}
      BY <1>1, <1>3 DEF CoreInv, SudogsOwned
    <3>2. op[g] # NoOp
      BY <1>3, <1>4 DEF Placed
    <3> QED BY <1>3, <2>2, <3>1, <3>2 DEF Placed
  <2> QED BY <2>1, <2>2
<1>6. PlaceInv'
  <2>1. AllPlaced'
    BY <1>5 DEF AllPlaced
  <2> QED BY <2>1, PlaceEquiv, PTL
<1>7. \A c \in Chans : ch[c].closed => ch'[c].closed
  BY DEF WakeStep
<1>8. ASSUME NEW h \in Goroutines
      PROVE  FastOK(h)' /\ DefaultOK(h)'
  <2>1. CASE h # g
    BY <1>1, <1>3, <1>7, <2>1, HistoryKept DEF CoreInv
  <2>2. CASE h = g
    <3>1. FastOK(h)'
      BY <1>3, <2>2, ObserveFact DEF FastOK
    <3>2. DefaultOK(h)'
      BY <1>3, <2>2, ObserveFact DEF DefaultOK
    <3> QED BY <3>1, <3>2
  <2> QED BY <2>1, <2>2
<1>9. FastInv' /\ DefaultJustified'
  <2>1. AllFast' /\ AllDefaults'
    BY <1>8 DEF AllFast, AllDefaults
  <2> QED BY <2>1, FastEquiv, DefaultEquiv, PTL
<1>10. NoThrow'
  BY <1>1, <1>3 DEF NoThrow
<1>11. TypeOK' /\ ProgramOK'
  BY <1>1, HistoryType DEF TypeOK, ProgramOK
<1>12. CoreInv'
  BY <1>2, <1>6 DEF CoreInv
<1> QED BY <1>9, <1>10, <1>11, <1>12, InvEquiv, PTL

-----------------------------------------------------------------------------
(* The operations under the lock: chansend, chanrecv, pass 1 of selectgo, closechan *)

\* g finishes with that outcome of its case i, and op and commit do not change.
Ends(g, i, outcome) ==
  /\ pc[g] \in {"lock", "sellock", "loop"}
  /\ Finish(g, i, outcome) /\ i \in Nat /\ outcome \in Outcome
  /\ UNCHANGED <<op, commit>>
  /\ chlock' \in [Chans -> Goroutines \cup {Nobody}]

\* Its type.
LEMMA EndsType ==
  ASSUME ChanTypeOK, NEW g \in Goroutines, NEW i, NEW outcome, Ends(g, i, outcome),
         DOMAIN ch' = Chans, \A c \in Chans : ch'[c] \in Hchan(c),
         \/ NoWake
         \/ \E r \in Sudog, x \in Value : Claim(g, r, r.case, x)
  PROVE  ChanTypeOK'
<1>1. /\ selectDone' \in [Goroutines -> BOOLEAN] /\ param' \in [Goroutines -> Nat]
      /\ elem' \in [Goroutines -> Value] /\ wakes' \in [Goroutines -> SUBSET Goroutines]
  <2>1. CASE NoWake
    BY <2>1 DEF NoWake, ChanTypeOK
  <2>2. ASSUME NEW r \in Sudog, NEW x \in Value, Claim(g, r, r.case, x)
        PROVE  <1>1
    <3>1. r.g \in Goroutines /\ r.case \in Nat /\ r.isSelect \in BOOLEAN
      BY DEF Sudog
    <3> QED BY <2>2, <3>1 DEF Claim, ChanTypeOK
  <2> QED BY <2>1, <2>2
<1>2. pc' = [pc EXCEPT ![g] = "done"] /\ res' = [res EXCEPT ![g] = <<i, outcome>>]
  BY DEF Ends, Finish, Goto
<1>3. res' \in [Goroutines -> Nat \X Outcome]
  <2>1. <<i, outcome>> \in Nat \X Outcome
    BY DEF Ends
  <2> HIDE DEF Outcome
  <2> QED BY <1>2, <2>1 DEF ChanTypeOK
<1>4. /\ pc' \in [Goroutines -> {"idle", "fast", "fast2", "lock", "sellock", "loop",
                               "parked", "awake", "relock", "done", "throw"}]
      /\ op' = op /\ commit' = commit
      /\ chlock' \in [Chans -> Goroutines \cup {Nobody}]
  BY <1>2 DEF Ends, ChanTypeOK
<1> QED BY <1>1, <1>3, <1>4 DEF ChanTypeOK

\* Channels without their stale sudogs keep their shape.
LEMMA StrippedShape ==
  ASSUME ChanTypeOK, AllShaped, NEW hs, Stripped(hs), NEW c \in Chans
  PROVE  Shaped(c, hs[c])
<1>1. ch[c] \in Hchan(c) /\ hs[c] \in Hchan(c) /\ hs[c].qcount = ch[c].qcount
  BY DEF ChanTypeOK, Stripped
<1>2. ToSet(<<>>) = {}
  BY DEF ToSet
<1>3. ToSet(hs[c].sendq) \subseteq ToSet(ch[c].sendq) /\ ToSet(hs[c].recvq) \subseteq ToSet(ch[c].recvq)
  BY <1>2 DEF Stripped, SameQueue
<1> QED BY <1>1, <1>3, ShrinkShape DEF AllShaped

\* A queue and what examining left of it have the same live sudogs.
LEMMA SameLive ==
  ASSUME NEW q, NEW r, SameQueue(q, r)
  PROVE  /\ LiveIn(r) = {} => LiveIn(q) = {} /\ SameQueue(q, <<>>)
         /\ LiveIn(r) # {} => r = q
BY DEF SameQueue, LiveIn

\* The operation finds what it needs in the channel and wakes nobody.
LEMMA QuietStep ==
  ASSUME ChanInv, Observe, NEW g \in Goroutines, NEW i, NEW outcome, Ends(g, i, outcome),
         <<i, outcome>> = Default => missed[g],
         NEW hs, Stripped(hs), NEW c \in Chans,
         NEW qcount, NEW sendx, NEW recvx, NEW buf, NEW sendq, NEW recvq,
         Becomes(hs, c, qcount, sendx, recvx, buf, sendq, recvq), NoWake,
         \/ qcount = hs[c].qcount /\ sendq = hs[c].sendq /\ recvq = hs[c].recvq
         \/ /\ ~hs[c].closed /\ LiveIn(hs[c].recvq) = {} /\ hs[c].qcount < Cap[c]
            /\ qcount = hs[c].qcount + 1 /\ sendq = hs[c].sendq /\ recvq = <<>>
         \/ /\ LiveIn(hs[c].sendq) = {} /\ hs[c].qcount > 0
            /\ qcount = hs[c].qcount - 1 /\ sendq = <<>> /\ recvq = hs[c].recvq
  PROVE  ChanInv'
<1>1. TypeOK /\ ChanTypeOK /\ CoreInv /\ AllShaped
  BY InvEquiv DEF TypeOK
<1>2. /\ pc' = [pc EXCEPT ![g] = "done"] /\ pc[g] \in {"lock", "sellock", "loop"}
      /\ res' = [res EXCEPT ![g] = <<i, outcome>>]
  BY DEF Ends, Finish, Goto
<1>3. DOMAIN ch' = Chans /\ \A d \in Chans : ch'[d] \in Hchan(d)
  BY DEF Becomes, Stripped
<1>4. ChanTypeOK'
  BY <1>1, <1>3, EndsType
<1>5. /\ ch'[c].qcount = qcount /\ ch'[c].sendq = sendq /\ ch'[c].recvq = recvq
      /\ ch'[c].closed = hs[c].closed /\ \A d \in Chans \ {c} : ch'[d] = hs[d]
  BY DEF Becomes
<1>6. ASSUME NEW d \in Chans
      PROVE  /\ ch[d] \in Hchan(d) /\ ch[d].qcount = hs[d].qcount /\ ch[d].closed = hs[d].closed
             /\ SameQueue(ch[d].sendq, hs[d].sendq) /\ SameQueue(ch[d].recvq, hs[d].recvq)
             /\ hs[d] \in Hchan(d) /\ Shaped(d, hs[d])
  BY <1>1, StrippedShape DEF ChanTypeOK, Stripped
<1>7. ASSUME NEW d \in Chans
      PROVE  /\ ch'[d].closed = ch[d].closed
             /\ SameQueue(ch[d].sendq, ch'[d].sendq)
             /\ SameQueue(ch[d].recvq, ch'[d].recvq)
             /\ \/ ch'[d].qcount = ch[d].qcount
                \/ ch[d].qcount < Cap[d] /\ LiveIn(ch[d].recvq) = {}
                \/ ch[d].qcount > 0 /\ LiveIn(ch[d].sendq) = {}
  <2>1. CASE d # c
    BY <1>5, <1>6, <2>1
  <2>2. CASE d = c /\ qcount = hs[c].qcount /\ sendq = hs[c].sendq /\ recvq = hs[c].recvq
    BY <1>5, <1>6, <2>2
  <2>3. CASE /\ d = c /\ LiveIn(hs[c].recvq) = {} /\ hs[c].qcount < Cap[c]
             /\ sendq = hs[c].sendq /\ recvq = <<>>
    BY <1>5, <1>6, <2>3, SameLive
  <2>4. CASE /\ d = c /\ LiveIn(hs[c].sendq) = {} /\ hs[c].qcount > 0
             /\ sendq = <<>> /\ recvq = hs[c].recvq
    BY <1>5, <1>6, <2>4, SameLive
  <2> QED BY <2>1, <2>2, <2>3, <2>4
<1>8. WakeStep(g, {})
  <2>1. UNCHANGED <<op, commit, selectDone, param, wakes>>
    BY DEF NoWake, Ends
  <2> QED BY <1>1, <1>2, <1>7, <2>1, NoWakeStep
<1>9. ASSUME NEW d \in Chans
      PROVE  Shaped(d, ch'[d])
  <2>1. CASE d # c
    BY <1>5, <1>6, <2>1
  <2>2. CASE d = c /\ qcount = hs[c].qcount /\ sendq = hs[c].sendq /\ recvq = hs[c].recvq
    BY <1>3, <1>5, <1>6, <2>2, ShrinkShape
  <2>3. CASE /\ d = c /\ hs[c].qcount < Cap[c]
             /\ qcount = hs[c].qcount + 1 /\ sendq = hs[c].sendq /\ recvq = <<>>
    BY <1>3, <1>5, <1>6, <2>3, BufferShape
  <2>4. CASE /\ d = c /\ hs[c].qcount > 0
             /\ qcount = hs[c].qcount - 1 /\ sendq = <<>> /\ recvq = hs[c].recvq
    BY <1>3, <1>5, <1>6, <2>4, BufferShape
  <2> QED BY <2>1, <2>2, <2>3, <2>4
<1>10. ASSUME NEW d \in Chans, ch'[d].closed, ch'[d].qcount = Cap[d]
       PROVE  ch[d].qcount = Cap[d]
  <2>1. CASE d # c
    BY <1>5, <1>6, <1>10, <2>1
  <2>2. CASE d = c
    <3>1. hs[c].qcount \in 0 .. Cap[c] /\ Cap[c] \in Nat
      BY <1>6, ChanAssumption DEF Hchan
    <3>2. ch[c].qcount = hs[c].qcount
      BY <1>6
    <3> QED BY <1>5, <1>10, <2>2, <3>1, <3>2
  <2> QED BY <2>1, <2>2
<1>11. \A h \in Goroutines : h # g => res'[h] = res[h]
  BY <1>1, <1>2 DEF ChanTypeOK
<1>12. res'[g] = Default => missed[g]
  BY <1>1, <1>2 DEF ChanTypeOK
<1>13. AllShaped'
  BY <1>9 DEF AllShaped
<1> QED BY <1>4, <1>8, <1>10, <1>11, <1>12, <1>13, FinishStep

\* The operation dequeues somebody who waits in direction e.
LEMMA WakingStep ==
  ASSUME ChanInv, Observe, NEW g \in Goroutines, NEW i, NEW outcome, Ends(g, i, outcome),
         <<i, outcome>> = Default => missed[g],
         NEW hs, Stripped(hs), NEW c \in Chans,
         NEW sendx, NEW recvx, NEW buf, NEW sendq, NEW recvq,
         Becomes(hs, c, hs[c].qcount, sendx, recvx, buf, sendq, recvq),
         NEW r, NEW x \in Value, Claim(g, r, r.case, x),
         \/ /\ LiveIn(hs[c].recvq) # {} /\ r = First(hs[c].recvq)
            /\ sendq = hs[c].sendq /\ recvq = Rest(hs[c].recvq)
         \/ /\ LiveIn(hs[c].sendq) # {} /\ r = First(hs[c].sendq)
            /\ sendq = Rest(hs[c].sendq) /\ recvq = hs[c].recvq
  PROVE  ChanInv'
<1>1. TypeOK /\ ChanTypeOK /\ CoreInv /\ AllShaped
  BY InvEquiv DEF TypeOK
<1>2. /\ pc' = [pc EXCEPT ![g] = "done"] /\ pc[g] \in {"lock", "sellock", "loop"}
      /\ res' = [res EXCEPT ![g] = <<i, outcome>>]
  BY DEF Ends, Finish, Goto
<1>3. DOMAIN ch' = Chans /\ \A d \in Chans : ch'[d] \in Hchan(d)
  BY DEF Becomes, Stripped
<1>4. /\ ch'[c].qcount = hs[c].qcount /\ ch'[c].sendq = sendq /\ ch'[c].recvq = recvq
      /\ ch'[c].closed = hs[c].closed /\ \A d \in Chans \ {c} : ch'[d] = hs[d]
  BY DEF Becomes
<1>5. ASSUME NEW d \in Chans
      PROVE  /\ ch[d] \in Hchan(d) /\ ch[d].qcount = hs[d].qcount /\ ch[d].closed = hs[d].closed
             /\ SameQueue(ch[d].sendq, hs[d].sendq) /\ SameQueue(ch[d].recvq, hs[d].recvq)
             /\ hs[d] \in Hchan(d) /\ Shaped(d, hs[d])
  BY <1>1, StrippedShape DEF ChanTypeOK, Stripped
<1>6. \A d \in Chans : ch'[d].closed = ch[d].closed /\ ch'[d].qcount = ch[d].qcount
  BY <1>4, <1>5
<1>7. PICK e \in Dirs :
        /\ LiveIn(Queue(c, e)) # {} /\ r = First(Queue(c, e))
        /\ Queue(c, e)' = Rest(Queue(c, e))
        /\ \A d \in Chans, dir \in Dirs :
             (d # c \/ dir # e) => SameQueue(Queue(d, dir), Queue(d, dir)')
  <2>1. CASE /\ LiveIn(hs[c].recvq) # {} /\ r = First(hs[c].recvq)
             /\ sendq = hs[c].sendq /\ recvq = Rest(hs[c].recvq)
    <3>1. ch[c].recvq = hs[c].recvq
      BY <1>5, <2>1, SameLive
    <3>2. /\ LiveIn(Queue(c, "recv")) # {} /\ r = First(Queue(c, "recv"))
          /\ Queue(c, "recv")' = Rest(Queue(c, "recv"))
      BY <1>4, <2>1, <3>1 DEF Queue, Field
    <3>3. ASSUME NEW d \in Chans, NEW dir \in Dirs, d # c \/ dir # "recv"
          PROVE  SameQueue(Queue(d, dir), Queue(d, dir)')
      BY <1>4, <1>5, <2>1, <3>3 DEF Queue, Field, Dirs
    <3> QED BY <3>2, <3>3 DEF Dirs
  <2>2. CASE /\ LiveIn(hs[c].sendq) # {} /\ r = First(hs[c].sendq)
             /\ sendq = Rest(hs[c].sendq) /\ recvq = hs[c].recvq
    <3>1. ch[c].sendq = hs[c].sendq
      BY <1>5, <2>2, SameLive
    <3>2. /\ LiveIn(Queue(c, "send")) # {} /\ r = First(Queue(c, "send"))
          /\ Queue(c, "send")' = Rest(Queue(c, "send"))
      BY <1>4, <2>2, <3>1 DEF Queue, Field
    <3>3. ASSUME NEW d \in Chans, NEW dir \in Dirs, d # c \/ dir # "send"
          PROVE  SameQueue(Queue(d, dir), Queue(d, dir)')
      BY <1>4, <1>5, <2>2, <3>3 DEF Queue, Field, Dirs
    <3> QED BY <3>2, <3>3 DEF Dirs
  <2> QED BY <2>1, <2>2
<1>8. r \in Sudog /\ WakeStep(g, {r.g})
  <2>1. UNCHANGED <<op, commit>>
    BY DEF Ends
  <2> QED BY <1>1, <1>2, <1>6, <1>7, <2>1, WakeOneStep
<1>9. ChanTypeOK'
  BY <1>1, <1>3, <1>8, EndsType
<1>10. ASSUME NEW d \in Chans
       PROVE  Shaped(d, ch'[d])
  <2>1. CASE d # c
    BY <1>4, <1>5, <2>1
  <2>2. CASE d = c
    <3>1. hs[c].sendq \in Seq(Sudog) /\ hs[c].recvq \in Seq(Sudog)
      BY <1>5 DEF Hchan
    <3>2. ToSet(sendq) \subseteq ToSet(hs[c].sendq) /\ ToSet(recvq) \subseteq ToSet(hs[c].recvq)
      BY <3>1, RestFact
    <3> QED BY <1>3, <1>4, <1>5, <2>2, <3>2, ShrinkShape
  <2> QED BY <2>1, <2>2
<1>11. \A h \in Goroutines : h # g => res'[h] = res[h]
  BY <1>1, <1>2 DEF ChanTypeOK
<1>12. res'[g] = Default => missed[g]
  BY <1>1, <1>2 DEF ChanTypeOK
<1>13. AllShaped'
  BY <1>10 DEF AllShaped
<1> QED BY <1>6, <1>8, <1>9, <1>11, <1>12, <1>13, FinishStep

\* The six ways to proceed, in chansend, chanrecv and pass 1 of selectgo.
LEMMA ProceedStep ==
  ASSUME ChanInv, Observe, NEW g \in Goroutines, pc[g] \in {"lock", "sellock", "loop"},
         NEW i \in Indices(g), op[g].cases[i].c # Nil, NEW hs, Stripped(hs), Proceed(g, i, hs),
         UNCHANGED <<op, commit>>, chlock' \in [Chans -> Goroutines \cup {Nobody}]
  PROVE  ChanInv'
<1>1. ChanTypeOK
  BY InvEquiv DEF TypeOK
<1>2. i \in Nat /\ \A outcome : <<i, outcome>> # Default
  <2>1. i \in Nat /\ i # 0
    BY <1>1, IndicesFact
  <2> QED BY <2>1 DEF Default
<1>3. PICK c \in Chans : c = op[g].cases[i].c
  <2>1. op[g].cases[i] \in Case
    BY <1>1, IndicesFact
  <2> QED BY <2>1 DEF Case
<1>4. {"sent", "closed", "panic"} \subseteq Outcome /\ Value \subseteq Outcome
      /\ Goroutines \subseteq Value /\ Nobody \in Value
  BY DEF Outcome, Value
<1>5. /\ hs[c] \in Hchan(c)
      /\ hs[c].buf \in [0 .. Cap[c] - 1 -> Value] /\ hs[c].recvx \in Slot(c)
      /\ hs[c].qcount \in 0 .. Cap[c] /\ Cap[c] \in Nat
      /\ hs[c].sendq \in Seq(Sudog)
  BY ChanAssumption DEF Stripped, Hchan
<1>6. ASSUME NEW outcome \in Outcome, Finish(g, i, outcome)
      PROVE  Ends(g, i, outcome)
  BY <1>2, <1>6 DEF Ends
<1>7. CASE SendPanics(g, i, c, hs)
  <2>1. Ends(g, i, "panic") /\ NoWake /\ ch' = hs
    BY <1>4, <1>6, <1>7 DEF SendPanics
  <2> QED BY <1>2, <2>1, SameChannels, QuietStep
<1>8. CASE SendToReceiver(g, i, c, hs)
  <2> DEFINE r == First(hs[c].recvq)
  <2>1. Ends(g, i, "sent") /\ Claim(g, r, r.case, g) /\ LiveIn(hs[c].recvq) # {}
    BY <1>4, <1>6, <1>8 DEF SendToReceiver
  <2>2. Becomes(hs, c, hs[c].qcount, hs[c].sendx, hs[c].recvx, hs[c].buf, hs[c].sendq, Rest(hs[c].recvq))
    BY <1>8, SendToReceiverFact
  <2> QED BY <1>2, <1>4, <2>1, <2>2, WakingStep
<1>9. CASE SendToBuffer(g, i, c, hs)
  <2>1. /\ Ends(g, i, "sent") /\ NoWake
        /\ ~hs[c].closed /\ LiveIn(hs[c].recvq) = {} /\ hs[c].qcount < Cap[c]
    BY <1>4, <1>6, <1>9 DEF SendToBuffer
  <2>2. Becomes(hs, c, hs[c].qcount + 1, Advance(hs[c].sendx, c), hs[c].recvx,
                [hs[c].buf EXCEPT ![hs[c].sendx] = g], hs[c].sendq, <<>>)
    BY <1>9, SendToBufferFact
  <2> QED BY <1>2, <2>1, <2>2, QuietStep
<1>10. CASE RecvFromSender(g, i, c, hs)
  <2> DEFINE r == First(hs[c].sendq)
  <2>1. LiveIn(hs[c].sendq) # {} /\ Claim(g, r, r.case, Nobody)
    BY <1>10 DEF RecvFromSender
  <2>2. r.g \in Value
    <3>1. r \in ToSet(hs[c].sendq)
      BY <1>5, <2>1, RestFact
    <3>2. r \in Sudog
      BY <1>5, <3>1 DEF ToSet
    <3> QED BY <3>2 DEF Sudog, Value
  <2>3. CASE Cap[c] = 0
    <3>1. Finish(g, i, r.g)
      BY <1>10, <2>3 DEF RecvFromSender
    <3>2. Ends(g, i, r.g)
      BY <1>4, <1>6, <2>2, <3>1
    <3>3. Becomes(hs, c, hs[c].qcount, hs[c].sendx, hs[c].recvx, hs[c].buf,
                  Rest(hs[c].sendq), hs[c].recvq)
      BY <1>10, <2>3, RecvFromSenderFact
    <3> QED BY <1>2, <1>4, <2>1, <3>2, <3>3, WakingStep
  <2>4. CASE Cap[c] # 0
    <3> DEFINE x == hs[c].recvx
    <3>1. Finish(g, i, hs[c].buf[x])
      BY <1>10, <2>4 DEF RecvFromSender
    <3>2. hs[c].buf[x] \in Value
      <4>1. x \in 0 .. Cap[c] - 1
        BY <1>5, <2>4 DEF Slot
      <4> QED BY <1>5, <4>1
    <3>3. Ends(g, i, hs[c].buf[x])
      BY <1>4, <1>6, <3>1, <3>2
    <3>4. Becomes(hs, c, hs[c].qcount, Advance(x, c), Advance(x, c),
                  [hs[c].buf EXCEPT ![x] = r.g], Rest(hs[c].sendq), hs[c].recvq)
      BY <1>10, <2>4, RecvFromSenderFact
    <3> QED BY <1>2, <1>4, <2>1, <3>3, <3>4, WakingStep
  <2> QED BY <2>3, <2>4
<1>11. CASE RecvFromBuffer(g, i, c, hs)
  <2>1. /\ Finish(g, i, hs[c].buf[hs[c].recvx]) /\ NoWake
        /\ LiveIn(hs[c].sendq) = {} /\ hs[c].qcount > 0
    BY <1>11 DEF RecvFromBuffer
  <2>2. hs[c].buf[hs[c].recvx] \in Value
    <3>1. hs[c].recvx \in 0 .. Cap[c] - 1
      BY <1>5, <2>1 DEF Slot
    <3> QED BY <1>5, <3>1
  <2>3. Ends(g, i, hs[c].buf[hs[c].recvx])
    BY <1>4, <1>6, <2>1, <2>2
  <2>4. Becomes(hs, c, hs[c].qcount - 1, hs[c].sendx, Advance(hs[c].recvx, c),
                [hs[c].buf EXCEPT ![hs[c].recvx] = Nobody], <<>>, hs[c].recvq)
    BY <1>11, RecvFromBufferFact
  <2> QED BY <1>2, <2>1, <2>3, <2>4, QuietStep
<1>12. CASE RecvClosed(g, i, c, hs)
  <2>1. Ends(g, i, "closed") /\ NoWake /\ ch' = hs
    BY <1>4, <1>6, <1>12 DEF RecvClosed
  <2> QED BY <1>2, <2>1, SameChannels, QuietStep
<1> QED BY <1>3, <1>7, <1>8, <1>9, <1>10, <1>11, <1>12 DEF Proceed

\* The operation ends without touching a channel, stale sudogs apart.
LEMMA StillStep ==
  ASSUME ChanInv, Observe, NEW g \in Goroutines, NEW i, NEW outcome, Ends(g, i, outcome),
         <<i, outcome>> = Default => missed[g], NEW hs, Stripped(hs), ch' = hs, NoWake
  PROVE  ChanInv'
<1>1. TypeOK /\ ChanTypeOK /\ CoreInv /\ AllShaped
  BY InvEquiv DEF TypeOK
<1>2. /\ pc' = [pc EXCEPT ![g] = "done"] /\ pc[g] \in {"lock", "sellock", "loop"}
      /\ res' = [res EXCEPT ![g] = <<i, outcome>>]
  BY DEF Ends, Finish, Goto
<1>3. DOMAIN ch' = Chans /\ \A d \in Chans : ch'[d] \in Hchan(d)
  BY DEF Stripped
<1>4. ChanTypeOK'
  BY <1>1, <1>3, EndsType
<1>5. \A d \in Chans : /\ ch'[d].closed = ch[d].closed
                       /\ SameQueue(ch[d].sendq, ch'[d].sendq)
                       /\ SameQueue(ch[d].recvq, ch'[d].recvq)
                       /\ ch'[d].qcount = ch[d].qcount
  BY DEF Stripped
<1>6. WakeStep(g, {})
  <2>1. UNCHANGED <<op, commit, selectDone, param, wakes>>
    BY DEF NoWake, Ends
  <2> QED BY <1>1, <1>2, <1>5, <2>1, NoWakeStep
<1>7. AllShaped'
  BY <1>1, StrippedShape DEF AllShaped
<1>8. \A h \in Goroutines : h # g => res'[h] = res[h]
  BY <1>1, <1>2 DEF ChanTypeOK
<1>9. res'[g] = Default => missed[g]
  BY <1>1, <1>2 DEF ChanTypeOK
<1> QED BY <1>4, <1>5, <1>6, <1>7, <1>8, <1>9, FinishStep

\* A non-blocking operation that could do nothing has that recorded.
LEMMA MissedFact ==
  ASSUME ChanInv, NEW g \in Goroutines, NotReady(g)
  PROVE  missed[g]
BY InvEquiv, FastEquiv DEF AllFast, FastOK

\* chansend and chanrecv, if they do not park.
LEMMA ChanOpFinishes ==
  ASSUME ChanInv, Observe, NEW g \in Goroutines, ChanOp(g), pc'[g] # "parked"
  PROVE  ChanInv'
<1>1. ChanTypeOK
  BY InvEquiv DEF TypeOK
<1> DEFINE case == theCase(g)
<1>2. /\ pc[g] = "lock" /\ op[g].kind = "chan" /\ case.c # Nil
      /\ UNCHANGED <<chlock, op, commit>>
  BY DEF ChanOp
<1>3. Indices(g) = {1} /\ case = op[g].cases[1] /\ case \in Case
  BY <1>1, <1>2, TheCaseFact DEF theCase
<1>4. chlock' \in [Chans -> Goroutines \cup {Nobody}]
  BY <1>1, <1>2 DEF ChanTypeOK
<1>5. CASE Proceed(g, 1, ch)
  BY <1>1, <1>2, <1>3, <1>4, <1>5, SameFact, ProceedStep
<1>6. CASE ~Ready(case) /\ ~op[g].block /\ ch' = Examined({case}) /\ Finish(g, 0, "default") /\ NoWake
  <2>1. Stripped(Examined({case}))
    BY <1>1, <1>3, <1>6, ExaminedFact
  <2>2. Ends(g, 0, "default")
    BY <1>2, <1>4, <1>6 DEF Ends, Outcome
  <2>3. missed[g]
    <3>1. NotReady(g)
      BY <1>1, <1>2, <1>6, NotReadyFact DEF InCall
    <3> QED BY <3>1, MissedFact
  <2> QED BY <1>6, <2>1, <2>2, <2>3, StillStep
<1>7. ~Goto(g, "parked")
  BY <1>1 DEF Goto, ChanTypeOK
<1> QED BY <1>5, <1>6, <1>7 DEF ChanOp

\* Examining some of the cases of g, none ready, takes only stale sudogs.
LEMMA CasesFact ==
  ASSUME ChanTypeOK, NEW g \in Goroutines, NEW I \in SUBSET (Indices(g) \ ReadyAt(g))
  PROVE  Stripped(Examined(CasesAt(g, I)))
<1>1. CasesAt(g, I) \in SUBSET Case
  BY IndicesFact DEF CasesAt
<1>2. \A case \in CasesAt(g, I) : ~Ready(case)
  BY DEF CasesAt, ReadyAt
<1> QED BY <1>1, <1>2, ExaminedFact

\* Pass 1 of selectgo that finds a case,
LEMMA SelectReadyStep ==
  ASSUME ChanInv, Observe, NEW g \in Goroutines, SelectReady(g)
  PROVE  ChanInv'
<1>1. ChanTypeOK
  BY InvEquiv DEF TypeOK
<1>2. PICK i \in ReadyAt(g), before \in SUBSET (Indices(g) \ ReadyAt(g)) :
        Proceed(g, i, Examined(CasesAt(g, before)))
  BY DEF SelectReady
<1>3. i \in Indices(g) /\ op[g].cases[i].c # Nil
  BY <1>2 DEF ReadyAt, Ready
<1>4. chlock' \in [Chans -> Goroutines \cup {Nobody}]
  BY <1>1 DEF SelectReady, Unlocked, ChanTypeOK
<1>5. Stripped(Examined(CasesAt(g, before)))
  BY <1>1, <1>2, CasesFact
<1>6. pc[g] \in {"lock", "sellock", "loop"} /\ UNCHANGED <<op, commit>>
  BY DEF SelectReady, InPass1
<1> QED BY <1>2, <1>3, <1>4, <1>5, <1>6, ProceedStep

\* or none, with a default.
LEMMA SelectDefaultStep ==
  ASSUME ChanInv, Observe, NEW g \in Goroutines, SelectDefault(g)
  PROVE  ChanInv'
<1>1. ChanTypeOK
  BY InvEquiv DEF TypeOK
<1>2. chlock' \in [Chans -> Goroutines \cup {Nobody}]
  BY <1>1 DEF SelectDefault, Unlocked, ChanTypeOK
<1>3. Stripped(Examined(CasesAt(g, Indices(g))))
  BY <1>1, CasesFact DEF SelectDefault
<1>4. Ends(g, 0, "default")
  BY <1>2 DEF SelectDefault, InPass1, Ends, Outcome
<1>5. NotReady(g)
  BY DEF NotReady, InCall, SelectDefault, InPass1
<1>6. ch' = Examined(CasesAt(g, Indices(g))) /\ NoWake
  BY DEF SelectDefault, NoWake
<1> QED BY <1>3, <1>4, <1>5, <1>6, MissedFact, StillStep

\* Two sudogs of one goroutine are cases of one select.
LEMMA SecondSudog ==
  ASSUME ChanTypeOK, CoreInv,
         NEW c \in Chans, NEW dir \in Dirs, NEW s \in ToSet(Queue(c, dir)),
         NEW d \in Chans, NEW e \in Dirs, NEW r \in ToSet(Queue(d, e)), s # r, s.g = r.g
  PROVE  s.isSelect
<1>1. /\ s = SudogOf(s.g, s.case) /\ s.case \in Indices(s.g) /\ op[s.g].kind # "close"
      /\ s.isSelect = (op[s.g].kind = "select")
  BY SudogFact, SudogCase
<1>2. r = SudogOf(r.g, r.case) /\ r.case \in Indices(r.g) /\ r.g \in Goroutines
  BY SudogFact, SudogCase
<1>3. s.case # r.case
  BY <1>1, <1>2
<1>4. op[r.g].kind # "chan"
  BY <1>1, <1>2, <1>3, IndicesFact
<1>5. op[r.g] # NoOp
  <2>1. ~(r.case \in DOMAIN <<>>)
    OBVIOUS
  <2> QED BY <1>2, <2>1 DEF NoOp, Indices
<1>6. op[r.g].kind \in {"chan", "select", "close"}
  BY <1>2, <1>5 DEF ChanTypeOK, IsOp
<1> QED BY <1>1, <1>4, <1>6

\* closechan wakes whoever waits on the channel, each goroutine once, and nobody else
\* slept for what it changed.
LEMMA CloseStep ==
  ASSUME ChanInv, Observe, NEW g \in Goroutines, CloseChan(g)
  PROVE  ChanInv'
<1>1. TypeOK /\ ChanTypeOK /\ CoreInv /\ AllShaped
  BY InvEquiv DEF TypeOK
<1>2. /\ pc[g] = "lock" /\ op[g].kind = "close" /\ theCase(g).c # Nil
      /\ UNCHANGED <<chlock, op, param, elem, commit>>
  BY DEF CloseChan
<1>3. PICK c \in Chans : theCase(g).c = c
  BY <1>1, <1>2, TheCaseFact
<1>4. CASE ch[c].closed
  <2>1. Finish(g, 1, "panic") /\ ch' = ch /\ NoWake
    BY <1>2, <1>3, <1>4 DEF CloseChan, NoWake
  <2>2. Ends(g, 1, "panic")
    BY <1>1, <1>2, <2>1 DEF Ends, Outcome, ChanTypeOK
  <2>3. <<1, "panic">> # Default
    BY DEF Default
  <2> QED BY <1>1, <2>1, <2>2, <2>3, SameFact, StillStep
<1>5. CASE ~ch[c].closed
  <2> DEFINE waiters == {s \in ToSet(ch[c].recvq) \cup ToSet(ch[c].sendq) : Live(s)}
             W == {s.g : s \in waiters}
  <2>1. /\ ch' = [ch EXCEPT ![c].closed = TRUE, ![c].recvq = <<>>, ![c].sendq = <<>>]
        /\ selectDone' = [h \in Goroutines |->
                            selectDone[h] \/ \E s \in waiters : s.g = h /\ s.isSelect]
        /\ wakes' = [wakes EXCEPT ![g] = W]
        /\ Finish(g, 1, "closed")
    BY <1>3, <1>5 DEF CloseChan
  <2>2. /\ DOMAIN ch' = Chans
        /\ \A d \in Chans \ {c} : ch'[d] = ch[d]
        /\ ch'[c] \in Hchan(c) /\ ch'[c].closed
        /\ ch'[c].qcount = ch[c].qcount
        /\ ch'[c].sendq = <<>> /\ ch'[c].recvq = <<>>
    BY <1>1, <2>1, ClosedFact
  <2>3. \A dir \in Dirs : Queue(c, dir)' = <<>>
    BY <2>2, QueueNames DEF Queue, Field, Dirs
  <2>4. \A d \in Chans, dir \in Dirs : d # c => Queue(d, dir)' = Queue(d, dir)
    BY <2>2 DEF Queue
  <2>5. \A s : s \in waiters <=> Live(s) /\ \E dir \in Dirs : s \in ToSet(Queue(c, dir))
    BY QueueNames DEF Dirs
  <2> HIDE DEF waiters
  <2>6. ToSet(<<>>) = {} /\ IsInjective(<<>>)
    BY DEF ToSet, IsInjective
  <2>7. ASSUME NEW w \in W
        PROVE  /\ w \in Goroutines /\ Asleep(w)
               /\ param'[w] = Nil /\ SawClosed(w)'
               /\ \E s \in waiters : s.g = w
    <3>1. PICK s \in waiters : s.g = w
      OBVIOUS
    <3>2. PICK dir \in Dirs : s \in ToSet(Queue(c, dir)) /\ Live(s)
      BY <2>5
    <3>3. /\ w \in Goroutines /\ Asleep(w) /\ s.case \in Indices(w)
          /\ op[w].cases[s.case] = [dir |-> dir, c |-> c]
      BY <1>1, <3>1, <3>2, SudogFact, SudogCase
    <3>4. ~Woken(w)
      BY <3>3 DEF Woken, Asleep
    <3>5. param[w] = Nil
      BY <1>1, <3>3, <3>4 DEF CoreInv, WakeInv
    <3>6. c # Nil
      BY ChanAssumption DEF Nil
    <3>7. SawClosed(w)'
      <4>1. op'[w].cases[s.case].c = c /\ Indices(w)' = Indices(w)
        BY <1>2, <3>3 DEF Indices
      <4>2. ch'[c].closed
        BY <2>2, ZenonT(40)
      <4> QED BY <3>3, <3>6, <4>1, <4>2, ZenonT(40) DEF SawClosed
    <3> QED BY <1>2, <3>1, <3>3, <3>5, <3>7
  <2>8. ASSUME NEW h \in Goroutines
        PROVE  selectDone'[h] <=> selectDone[h] \/ (h \in W /\ op[h].kind = "select")
    <3>1. selectDone'[h] <=> selectDone[h] \/ \E s \in waiters : s.g = h /\ s.isSelect
      BY <2>1
    <3>2. \A s \in waiters : s.isSelect <=> op[s.g].kind = "select"
      <4> TAKE s \in waiters
      <4>1. PICK dir \in Dirs : s \in ToSet(Queue(c, dir))
        BY <2>5
      <4>2. s.isSelect = (op[s.g].kind = "select")
        BY <1>1, <4>1, SudogFact, SudogCase
      <4> QED BY <4>2
    <3> QED BY <3>1, <3>2
  <2>9. ASSUME NEW d \in Chans, NEW dir \in Dirs
        PROVE  /\ ToSet(Queue(d, dir)') \subseteq ToSet(Queue(d, dir))
               /\ IsInjective(Queue(d, dir)) => IsInjective(Queue(d, dir)')
               /\ \A s \in ToSet(Queue(d, dir)) : Live(s) => s \in ToSet(Queue(d, dir)') \/ s.g \in W
    <3>1. CASE d = c
      BY <2>3, <2>5, <2>6, <3>1
    <3>2. CASE d # c
      BY <2>4, <3>2
    <3> QED BY <3>1, <3>2
  <2>10. ASSUME NEW d \in Chans, NEW dir \in Dirs, NEW s \in ToSet(Queue(d, dir)'), s.g \in W
         PROVE  s.isSelect
    <3>1. d # c /\ s \in ToSet(Queue(d, dir))
      BY <2>3, <2>4, <2>6, <2>10
    <3>2. PICK r \in waiters : r.g = s.g
      BY <2>7, <2>10
    <3>3. PICK e \in Dirs : r \in ToSet(Queue(c, e))
      BY <2>5
    <3>4. /\ op[s.g].cases[s.case] = [dir |-> dir, c |-> d]
          /\ op[r.g].cases[r.case] = [dir |-> e, c |-> c]
      BY <1>1, <3>1, <3>3, SudogFact, SudogCase
    <3>5. s # r
      BY <3>1, <3>4
    <3> QED BY <1>1, <3>1, <3>2, <3>3, <3>5, SecondSudog
  <2>11. ASSUME NEW h \in Goroutines, Asleep(h), h \notin W, NEW i \in Indices(h), op[h].cases[i].c # Nil
         PROVE  LET case == op[h].cases[i] IN
                /\ ~ch'[case.c].closed
                /\ case.dir = "send" => ch'[case.c].qcount = Cap[case.c]
                /\ case.dir = "recv" => ch'[case.c].qcount = 0
    <3>1. op[h].cases[i].c \in Chans /\ op[h].cases[i].dir \in Dirs
      <4>1. op[h].cases[i] \in Case
        BY <1>1, IndicesFact
      <4> QED BY <2>11, <4>1 DEF Case, Dirs
    <3>2. PICK d \in Chans, e \in Dirs : op[h].cases[i].c = d /\ op[h].cases[i].dir = e
      BY <3>1
    <3>3. Blocked(h, i)
      BY <1>1, <2>11, BlockedEquiv DEF CoreInv, AllBlocked
    <3>4. d # c
      <4>1. ASSUME d = c
            PROVE  FALSE
        <5>1. \E s \in ToSet(Queue(c, e)) : s.g = h /\ Live(s)
          BY <2>11, <3>2, <3>3, <4>1 DEF Blocked
        <5>2. h \in W
          BY <2>5, <5>1
        <5> QED BY <2>11, <5>2
      <4> QED BY <4>1
    <3>5. ch'[d] = ch[d]
      BY <2>2, <3>4
    <3> QED BY <2>11, <3>2, <3>3, <3>5 DEF Blocked
  <2>12. pc' = [pc EXCEPT ![g] = "done"] /\ res' = [res EXCEPT ![g] = <<1, "closed">>]
    BY <2>1 DEF Finish, Goto
  <2>13. \A d \in Chans : ch[d].closed => ch'[d].closed
    BY <2>2
  <2>14. W \in SUBSET Goroutines
    BY <2>7
  <2>15. \A h \in Goroutines : h \notin W => param'[h] = param[h]
    BY <1>2
  <2> HIDE DEF W
  <2>16. WakeStep(g, W)
    BY <1>2, <2>1, <2>7, <2>8, <2>9, <2>10, <2>11, <2>12, <2>13, <2>15 DEF WakeStep
  <2>17. ChanTypeOK'
    <3>1. \A d \in Chans : ch'[d] \in Hchan(d)
      BY <1>1, <2>2 DEF ChanTypeOK
    <3>2. selectDone' \in [Goroutines -> BOOLEAN] /\ wakes' \in [Goroutines -> SUBSET Goroutines]
      BY <1>1, <2>1, <2>14 DEF ChanTypeOK
    <3>3. res' \in [Goroutines -> Nat \X Outcome]
      <4>1. <<1, "closed">> \in Nat \X Outcome
        BY DEF Outcome
      <4> HIDE DEF Outcome
      <4> QED BY <1>1, <2>12, <4>1 DEF ChanTypeOK
    <3>4. pc' \in [Goroutines -> {"idle", "fast", "fast2", "lock", "sellock", "loop",
                                 "parked", "awake", "relock", "done", "throw"}]
      BY <1>1, <2>12 DEF ChanTypeOK
    <3>5. /\ op' = op /\ commit' = commit /\ chlock' = chlock /\ param' = param /\ elem' = elem
      BY <1>2
    <3> QED BY <1>1, <2>2, <3>1, <3>2, <3>3, <3>4, <3>5 DEF ChanTypeOK
  <2>18. AllShaped'
    <3>1. ASSUME NEW d \in Chans
          PROVE  Shaped(d, ch'[d])
      <4>1. CASE d # c
        BY <1>1, <2>2, <4>1 DEF AllShaped
      <4>2. CASE d = c
        <5>1. ch[c] \in Hchan(c)
          BY <1>1 DEF ChanTypeOK
        <5> QED BY <1>1, <2>2, <2>6, <4>2, <5>1, ShrinkShape DEF AllShaped
      <4> QED BY <4>1, <4>2
    <3> QED BY <3>1 DEF AllShaped
  <2>19. \A h \in Goroutines : h # g => res'[h] = res[h]
    BY <1>1, <2>12 DEF ChanTypeOK
  <2>20. res'[g] # Default
    BY <1>1, <2>12 DEF ChanTypeOK, Default
  <2>21. \A d \in Chans : ch'[d].qcount = ch[d].qcount
    BY <2>2
  <2> QED BY <2>16, <2>17, <2>18, <2>19, <2>20, <2>21, FinishStep
<1> QED BY <1>4, <1>5

-----------------------------------------------------------------------------
(* Parks                                                                   *)

\* The sudogs with which g parks on a channel.
Fresh(g, c, dir) == {SudogOf(g, i) : i \in {i \in Indices(g) : op[g].cases[i] = [dir |-> dir, c |-> c]}}

\* hs with the sudogs of g, as g parks.
Parks(g, hs) ==
  /\ pc[g] \in {"lock", "sellock", "loop"} /\ pc' = [pc EXCEPT ![g] = "parked"]
  /\ op[g].kind \in {"chan", "select"} /\ op[g].block /\ ReadyAt(g) = {}
  /\ Stripped(hs) /\ ch' = Enqueued(g, op[g].cases, hs)
  /\ \A i \in Indices(g) :
       op[g].cases[i].c # Nil => hs[op[g].cases[i].c][Field[Other[op[g].cases[i].dir]]] = <<>>
  /\ UNCHANGED <<op, selectDone, param, elem, wakes, res>>
  /\ chlock' \in [Chans -> Goroutines \cup {Nobody}]
  /\ commit' \in [Goroutines -> SUBSET Chans]
  /\ \A h \in Goroutines : h # g => commit'[h] = commit[h]
  /\ commit'[g] # {} => op[g].kind = "select" /\ commit'[g] \subseteq CaseChans(g)

\* What the queues hold then, each sudog once.
LEMMA ParkQueues ==
  ASSUME ChanTypeOK, CoreInv, NEW g \in Goroutines, NEW hs, Parks(g, hs)
  PROVE  /\ DOMAIN ch' = Chans
         /\ \A c \in Chans : /\ ch'[c] \in Hchan(c) /\ ch'[c].qcount = ch[c].qcount
                             /\ ch'[c].closed = ch[c].closed
         /\ \A c \in Chans, dir \in Dirs :
              /\ SameQueue(Queue(c, dir), hs[c][Field[dir]])
              /\ ToSet(Queue(c, dir)') = ToSet(hs[c][Field[dir]]) \cup Fresh(g, c, dir)
              /\ IsInjective(Queue(c, dir)')
              /\ \A s \in ToSet(Queue(c, dir)) : s.g # g
<1> DEFINE cases == op[g].cases
<1>1. cases \in Seq(Case)
  BY IndicesFact
<1>2. ch' = Enqueued(g, cases, hs) /\ Stripped(hs)
  BY DEF Parks
<1>3. /\ DOMAIN ch' = Chans
      /\ \A c \in Chans :
           /\ ch'[c] \in Hchan(c)
           /\ ch'[c].qcount = hs[c].qcount /\ ch'[c].closed = hs[c].closed
           /\ ch'[c].sendq = hs[c].sendq \o Sudogs(g, cases, c, "send")
           /\ ch'[c].recvq = hs[c].recvq \o Sudogs(g, cases, c, "recv")
  <2> DEFINE qs == Enqueued(g, cases, hs)
  <2>1. /\ DOMAIN qs = Chans
        /\ \A c \in Chans :
             /\ qs[c] \in Hchan(c)
             /\ qs[c].qcount = hs[c].qcount /\ qs[c].closed = hs[c].closed
             /\ qs[c].sendq = hs[c].sendq \o Sudogs(g, cases, c, "send")
             /\ qs[c].recvq = hs[c].recvq \o Sudogs(g, cases, c, "recv")
    <3>1. Enlists(g, cases, hs, qs)
      BY <1>1, <1>2, EnqueuedFact, Zenon
    <3> HIDE DEF qs
    <3> QED BY <3>1 DEF Enlists
  <2>2. ch' = qs
    BY <1>2
  <2> HIDE DEF qs
  <2> QED BY <2>1, <2>2
<1>4. \A c \in Chans : /\ hs[c].qcount = ch[c].qcount /\ hs[c].closed = ch[c].closed
                       /\ hs[c] \in Hchan(c)
  BY <1>2 DEF Stripped
<1>5. ASSUME NEW c \in Chans, NEW dir \in Dirs
      PROVE  /\ SameQueue(Queue(c, dir), hs[c][Field[dir]])
             /\ ToSet(Queue(c, dir)') = ToSet(hs[c][Field[dir]]) \cup Fresh(g, c, dir)
             /\ IsInjective(Queue(c, dir)')
             /\ \A s \in ToSet(Queue(c, dir)) : s.g # g
  <2> DEFINE q == hs[c][Field[dir]]
             n == Sudogs(g, cases, c, dir)
  <2>1. Queue(c, dir)' = q \o n /\ q \in Seq(Sudog)
    <3>1. hs[c].sendq \in Seq(Sudog) /\ hs[c].recvq \in Seq(Sudog)
      BY <1>4 DEF Hchan
    <3>2. CASE dir = "send"
      BY <1>3, <3>1, <3>2 DEF Queue, Field
    <3>3. CASE dir = "recv"
      BY <1>3, <3>1, <3>3 DEF Queue, Field
    <3> QED BY <3>2, <3>3 DEF Dirs
  <2>2. n \in Seq(Sudog) /\ ToSet(n) = Fresh(g, c, dir) /\ IsInjective(n)
    BY <1>1, SudogsFact DEF Fresh, Indices
  <2>3. SameQueue(Queue(c, dir), q)
    BY <1>2 DEF Stripped, Queue, Field, Dirs
  <2>4. \A s \in ToSet(Queue(c, dir)) : s.g # g
    <3>1. pc[g] \notin {"parked", "awake", "relock"}
      BY DEF Parks
    <3>2. \A s \in ToSet(Queue(c, dir)) : pc[s.g] \in {"parked", "awake", "relock"}
      BY SudogFact
    <3> QED BY <3>1, <3>2
  <2>5. ToSet(q) \subseteq ToSet(Queue(c, dir)) /\ IsInjective(q)
    <3>1. ToSet(<<>>) = {} /\ IsInjective(<<>>)
      BY DEF ToSet, IsInjective
    <3>2. IsInjective(Queue(c, dir))
      BY QueuesEquiv DEF CoreInv, QueuesOK
    <3> QED BY <2>3, <3>1, <3>2 DEF SameQueue
  <2> HIDE DEF q, n
  <2>6. ToSet(q) \cap ToSet(n) = {}
    BY <2>2, <2>4, <2>5 DEF Fresh, SudogOf
  <2>7. ToSet(q \o n) = ToSet(q) \cup ToSet(n) /\ IsInjective(q \o n)
    BY <2>1, <2>2, <2>5, <2>6, ConcatFact
  <2> QED BY <2>1, <2>2, <2>3, <2>4, <2>7 DEF q
<1> QED BY <1>3, <1>4, <1>5

\* A case of g that is not ready, and what g leaves on its channel.
LEMMA ParkCase ==
  ASSUME ChanTypeOK, CoreInv, NEW g \in Goroutines, NEW hs, Parks(g, hs),
         NEW c \in Chans, NEW d \in Dirs, NEW e \in Dirs, Other[d] = e,
         NEW i \in Indices(g), op[g].cases[i] = [dir |-> d, c |-> c]
  PROVE  /\ c # Nil /\ ~ch[c].closed
         /\ d = "send" => ch[c].qcount = Cap[c]
         /\ d = "recv" => ch[c].qcount = 0
         /\ LiveIn(Queue(c, e)) = {}
         /\ hs[c][Field[e]] = <<>>
<1>1. c # Nil
  BY ChanAssumption DEF Nil
<1>2. ~Ready([dir |-> d, c |-> c])
  BY DEF Parks, ReadyAt
<1>3. ch[c].qcount \in 0 .. Cap[c] /\ Cap[c] \in Nat
  BY ChanAssumption DEF ChanTypeOK, Hchan
<1>4. hs[c][Field[e]] = <<>>
  <2>1. \A j \in Indices(g) :
          op[g].cases[j].c # Nil =>
            hs[op[g].cases[j].c][Field[Other[op[g].cases[j].dir]]] = <<>>
    BY ZenonT(40) DEF Parks
  <2>2. op[g].cases[i].c = c /\ op[g].cases[i].dir = d
    OBVIOUS
  <2> QED BY <1>1, <2>1, <2>2, ZenonT(40)
<1> QED BY <1>1, <1>2, <1>3, <1>4 DEF Ready, Waiting, Queue, Dirs

\* The queues keep their shape: g found on the other side of each of its cases nobody but
\* itself.
LEMMA ParkShape ==
  ASSUME ChanTypeOK, CoreInv, AllShaped, NEW g \in Goroutines, NEW hs, Parks(g, hs)
  PROVE  AllShaped'
<1>1. ASSUME NEW c \in Chans
      PROVE  Shaped(c, ch'[c])
  <2> DEFINE k == ch'[c]
             h == hs[c]
             S == Fresh(g, c, "send")
             R == Fresh(g, c, "recv")
  <2>1. /\ k \in Hchan(c) /\ k.qcount = ch[c].qcount
        /\ ToSet(k.sendq) = ToSet(h.sendq) \cup S /\ ToSet(k.recvq) = ToSet(h.recvq) \cup R
    BY ParkQueues DEF Queue, Field, Dirs
  <2>2. Stripped(hs)
    BY DEF Parks
  <2>3. h \in Hchan(c) /\ h.qcount = ch[c].qcount /\ Shaped(c, h)
    BY <2>2, StrippedShape DEF Stripped
  <2>4. S # {} => h.recvq = <<>> /\ k.qcount = Cap[c]
    <3> SUFFICES ASSUME S # {} PROVE h.recvq = <<>> /\ k.qcount = Cap[c]
      OBVIOUS
    <3>1. PICK i \in Indices(g) : op[g].cases[i] = [dir |-> "send", c |-> c]
      BY DEF Fresh
    <3>2. "send" \in Dirs /\ "recv" \in Dirs /\ Other["send"] = "recv" /\ Field["recv"] = "recvq"
      BY DEF Other, Field, Dirs
    <3>3. hs[c][Field["recv"]] = <<>> /\ ch[c].qcount = Cap[c]
      BY <3>1, <3>2, ParkCase
    <3> QED BY <2>1, <3>2, <3>3
  <2>5. R # {} => h.sendq = <<>> /\ k.qcount = 0
    <3> SUFFICES ASSUME R # {} PROVE h.sendq = <<>> /\ k.qcount = 0
      OBVIOUS
    <3>1. PICK i \in Indices(g) : op[g].cases[i] = [dir |-> "recv", c |-> c]
      BY DEF Fresh
    <3>2. "recv" \in Dirs /\ "send" \in Dirs /\ Other["recv"] = "send" /\ Field["send"] = "sendq"
      BY DEF Other, Field, Dirs
    <3>3. hs[c][Field["send"]] = <<>> /\ ch[c].qcount = 0
      BY <3>1, <3>2, ParkCase
    <3> QED BY <2>1, <3>2, <3>3
  <2>6. \A s \in S \cup R : s.g = g
    BY DEF Fresh, SudogOf
  <2>7. /\ Cap[c] \in Nat /\ k.qcount \in 0 .. Cap[c]
        /\ k.sendq \in Seq(Sudog) /\ k.recvq \in Seq(Sudog)
        /\ h.sendq \in Seq(Sudog) /\ h.recvq \in Seq(Sudog)
    BY <2>1, <2>3, ChanAssumption DEF Hchan
  <2>8. /\ k.sendq = <<>> <=> ToSet(k.sendq) = {}
        /\ k.recvq = <<>> <=> ToSet(k.recvq) = {}
        /\ h.sendq = <<>> <=> ToSet(h.sendq) = {}
        /\ h.recvq = <<>> <=> ToSet(h.recvq) = {}
    <3>1. k.sendq = <<>> <=> ToSet(k.sendq) = {}
      BY <2>7, EmptyFact
    <3>2. k.recvq = <<>> <=> ToSet(k.recvq) = {}
      BY <2>7, EmptyFact
    <3>3. h.sendq = <<>> <=> ToSet(h.sendq) = {}
      BY <2>7, EmptyFact
    <3>4. h.recvq = <<>> <=> ToSet(h.recvq) = {}
      BY <2>7, EmptyFact
    <3> QED BY <3>1, <3>2, <3>3, <3>4
  <2>9. CASE S = {} /\ R = {}
    BY <2>1, <2>3, <2>9, ShrinkShape
  <2>10. CASE S # {} \/ R # {}
    <3> HIDE DEF k, h, S, R
    <3>1. k.sendq # <<>> /\ k.recvq # <<>> =>
            Cap[c] = 0 /\ {s.g : s \in ToSet(k.sendq) \cup ToSet(k.recvq)} = {g}
      <4> SUFFICES ASSUME k.sendq # <<>>, k.recvq # <<>>
                   PROVE  Cap[c] = 0 /\ {s.g : s \in ToSet(k.sendq) \cup ToSet(k.recvq)} = {g}
        OBVIOUS
      <4>1. S # {} /\ R # {}
        BY <2>1, <2>4, <2>5, <2>8, <2>10
      <4>2. ToSet(k.sendq) = S /\ ToSet(k.recvq) = R /\ Cap[c] = 0
        BY <2>1, <2>4, <2>5, <2>8, <4>1
      <4> QED BY <2>6, <4>1, <4>2
    <3>2. Cap[c] > 0 /\ k.qcount > 0 => k.recvq = <<>>
      BY <2>1, <2>4, <2>5, <2>7, <2>8, <2>10
    <3>3. k.qcount < Cap[c] => k.sendq = <<>>
      BY <2>1, <2>4, <2>5, <2>7, <2>8, <2>10
    <3>4. Shaped(c, k)
      BY <3>1, <3>2, <3>3 DEF Shaped
    <3> QED BY <3>4 DEF k
  <2> QED BY <2>9, <2>10
<1> QED BY <1>1 DEF AllShaped

\* The two directions.
LEMMA OtherFact ==
  ASSUME NEW d \in Dirs
  PROVE  Other[d] \in Dirs /\ Other[d] # d /\ Other[Other[d]] = d
BY DEF Dirs, Other

\* A park preserves the invariant: nobody who waits could proceed with a case of g, and g
\* with none of its own.
LEMMA ParkStep ==
  ASSUME ChanInv, Observe, NEW g \in Goroutines, NEW hs, Parks(g, hs)
  PROVE  ChanInv'
<1>1. /\ TypeOK /\ ChanTypeOK /\ CoreInv /\ AllShaped /\ NoThrow /\ ProgramOK
      /\ QueueShape /\ FastInv /\ DefaultJustified
  BY InvEquiv DEF TypeOK, ChanInv
<1>2. /\ DOMAIN ch' = Chans
      /\ \A c \in Chans : /\ ch'[c] \in Hchan(c) /\ ch'[c].qcount = ch[c].qcount
                          /\ ch'[c].closed = ch[c].closed
      /\ \A c \in Chans, dir \in Dirs :
           /\ SameQueue(Queue(c, dir), hs[c][Field[dir]])
           /\ ToSet(Queue(c, dir)') = ToSet(hs[c][Field[dir]]) \cup Fresh(g, c, dir)
           /\ IsInjective(Queue(c, dir)')
           /\ \A s \in ToSet(Queue(c, dir)) : s.g # g
  BY <1>1, ParkQueues
<1>3. /\ pc[g] \in {"lock", "sellock", "loop"} /\ pc'[g] = "parked"
      /\ \A h \in Goroutines : h # g => pc'[h] = pc[h] /\ commit'[h] = commit[h]
      /\ op' = op /\ selectDone' = selectDone /\ param' = param /\ wakes' = wakes /\ res' = res
      /\ op[g].kind \in {"chan", "select"} /\ op[g].block /\ ReadyAt(g) = {}
  BY <1>1 DEF Parks, ChanTypeOK
<1>4. PlaceInv /\ SudogsOwned /\ WakeInv /\ ReadyOnce /\ SleepersBlocked
  BY <1>1 DEF CoreInv
<1>5. /\ ~Woken(g) /\ ~Dequeued(g) /\ param[g] = Nil /\ ~selectDone[g]
      /\ wakes[g] = {} /\ commit[g] = {} /\ res[g] = NoResult
  <2>1. ~Dequeued(g)
    BY <1>3, <1>4 DEF ReadyOnce, Dequeued
  <2>2. ~Woken(g)
    BY <1>3 DEF Woken
  <2>3. commit[g] = {} /\ wakes[g] = {} /\ res[g] = NoResult
    BY <1>3, <1>4 DEF SudogsOwned, PlaceInv
  <2> QED BY <1>4, <2>1, <2>2, <2>3 DEF WakeInv
<1>6. \A h \in Goroutines : Dequeued(h)' = Dequeued(h)
  BY <1>3 DEF Dequeued
<1>7. /\ Asleep(g)' /\ ~Woken(g)'
      /\ \A h \in Goroutines : h # g => (Asleep(h)' <=> Asleep(h)) /\ (Woken(h)' <=> Woken(h))
  BY <1>3, <1>5, <1>6 DEF Asleep, Woken
<1>8. /\ \A s : Live(s)' <=> Live(s)
      /\ \A h \in Goroutines : Indices(h)' = Indices(h) /\ CaseChans(h)' = CaseChans(h)
      /\ \A h \in Goroutines : \A i : SudogOf(h, i)' = SudogOf(h, i)
  BY <1>3 DEF Live, Indices, CaseChans, SudogOf
<1>9. ASSUME NEW c \in Chans, NEW dir \in Dirs, NEW s \in ToSet(Queue(c, dir)')
      PROVE  \/ s \in ToSet(Queue(c, dir)) /\ s.g # g
             \/ \E i \in Indices(g) : s = SudogOf(g, i) /\ op[g].cases[i] = [dir |-> dir, c |-> c]
  <2>1. CASE s \in Fresh(g, c, dir)
    BY <2>1 DEF Fresh
  <2>2. CASE s \in ToSet(hs[c][Field[dir]])
    <3>1. ToSet(<<>>) = {}
      BY DEF ToSet
    <3> QED BY <1>2, <2>2, <3>1 DEF SameQueue
  <2> QED BY <1>2, <2>1, <2>2
<1>10. ASSUME NEW c \in Chans, NEW dir \in Dirs
       PROVE  /\ \A s \in ToSet(Queue(c, dir)) : Live(s) => s \in ToSet(Queue(c, dir)')
              /\ \A i \in Indices(g) : op[g].cases[i] = [dir |-> dir, c |-> c] =>
                                         SudogOf(g, i) \in ToSet(Queue(c, dir)')
  <2>1. \A s \in ToSet(Queue(c, dir)) : Live(s) => s \in ToSet(hs[c][Field[dir]])
    BY <1>2 DEF SameQueue, LiveIn, ToSet
  <2> QED BY <1>2, <2>1 DEF Fresh
<1>11. ASSUME NEW c \in Chans, NEW dir \in Dirs, NEW s \in ToSet(Queue(c, dir)')
       PROVE  Accounted(c, dir, s)'
  <2>1. CASE s \in ToSet(Queue(c, dir)) /\ s.g # g
    <3>1. Accounted(c, dir, s)
      BY <1>1, <2>1, QueuesEquiv DEF CoreInv, QueuesOK
    <3>2. s.g \in Goroutines
      BY <1>1, <2>1, SudogFact
    <3> QED BY <1>3, <1>7, <1>8, <2>1, <3>1, <3>2 DEF Accounted
  <2>2. ASSUME NEW i \in Indices(g), s = SudogOf(g, i), op[g].cases[i] = [dir |-> dir, c |-> c]
        PROVE  Accounted(c, dir, s)'
    <3>1. s.g = g /\ s.case = i
      BY <2>2 DEF SudogOf
    <3>2. i # Nil
      BY <1>1, IndicesFact DEF Nil
    <3> QED BY <1>3, <1>5, <1>7, <1>8, <2>2, <3>1, <3>2 DEF Accounted
  <2> QED BY <1>9, <2>1, <2>2
<1>12. SudogInv' /\ SudogsOwned'
  <2>1. QueuesOK'
    BY <1>2, <1>11 DEF QueuesOK
  <2>2. CommitsOK'
    <3>1. CommitsOK
      BY <1>1, QueuesEquiv DEF CoreInv
    <3> QED BY <1>3, <3>1 DEF CommitsOK
  <2> QED BY <2>1, <2>2, QueuesEquiv, PTL
<1>13. \A h \in Goroutines : SawClosed(h) => SawClosed(h)'
  <2> TAKE h \in Goroutines
  <2> HAVE SawClosed(h)
  <2>1. PICK i \in Indices(h) : op[h].cases[i].c # Nil /\ ch[op[h].cases[i].c].closed
    BY DEF SawClosed
  <2>2. op[h].cases[i].c \in Chans
    BY <1>1, <2>1, IndicesFact DEF Case
  <2> QED BY <1>2, <1>3, <1>8, <2>1, <2>2 DEF SawClosed
<1>14. WakeInv'
  <2>1. ASSUME NEW h \in Goroutines
        PROVE  /\ selectDone'[h] <=> op'[h].kind = "select" /\ Woken(h)'
               /\ param'[h] # Nil => Woken(h)' /\ param'[h] \in Indices(h)'
               /\ Woken(h)' /\ param'[h] = Nil => SawClosed(h)'
               /\ pc'[h] = "loop" => SawClosed(h)'
    <3>1. CASE h = g
      BY <1>3, <1>5, <1>7, <3>1
    <3>2. CASE h # g
      <4>1. /\ selectDone[h] <=> op[h].kind = "select" /\ Woken(h)
            /\ param[h] # Nil => Woken(h) /\ param[h] \in Indices(h)
            /\ Woken(h) /\ param[h] = Nil => SawClosed(h)
            /\ pc[h] = "loop" => SawClosed(h)
        BY <1>4 DEF WakeInv
      <4> QED BY <1>3, <1>7, <1>8, <1>13, <3>2, <4>1
    <3> QED BY <3>1, <3>2
  <2> QED BY <2>1 DEF WakeInv
<1>15. ReadyOnce'
  <2>1. \A f, h \in Goroutines : h \in wakes[f] => h # g
    BY <1>5 DEF Dequeued
  <2> QED BY <1>3, <1>4, <2>1 DEF ReadyOnce
<1>16. ASSUME NEW h \in Goroutines, Asleep(h)', NEW i \in Indices(h)
       PROVE  Blocked(h, i)'
  <2>1. CASE op[h].cases[i].c = Nil
    BY <1>3, <2>1 DEF Blocked
  <2>2. CASE op[h].cases[i].c # Nil
    <3>1. op[h].cases[i] \in Case
      BY <1>1, IndicesFact
    <3>2. PICK c \in Chans, d \in Dirs, e \in Dirs :
            op[h].cases[i] = [dir |-> d, c |-> c] /\ Other[d] = e /\ Other[e] = d
      BY <2>2, <3>1, OtherFact DEF Case, Dirs
    <3>3. op[h].cases[i].c = c /\ op[h].cases[i].dir = d
      BY <3>2
    <3>4. CASE h = g
      <4>1. /\ ~ch[c].closed
            /\ d = "send" => ch[c].qcount = Cap[c]
            /\ d = "recv" => ch[c].qcount = 0
            /\ LiveIn(Queue(c, e)) = {}
        BY <1>1, <3>2, <3>4, ParkCase
      <4>2. \A s \in ToSet(Queue(c, e)') : s.g = g \/ ~Live(s)'
        <5>1. ASSUME NEW s \in ToSet(Queue(c, e)), s.g # g
              PROVE  ~Live(s)'
          BY <1>8, <4>1, <5>1 DEF LiveIn, ToSet
        <5>2. \A j \in Indices(g) : SudogOf(g, j).g = g
          BY DEF SudogOf
        <5> TAKE s \in ToSet(Queue(c, e)')
        <5>3. \/ s \in ToSet(Queue(c, e)) /\ s.g # g
              \/ \E j \in Indices(g) : s = SudogOf(g, j) /\ op[g].cases[j] = [dir |-> e, c |-> c]
          BY <1>9, ZenonT(40)
        <5>4. CASE s \in ToSet(Queue(c, e)) /\ s.g # g
          BY <5>1, <5>4
        <5>5. CASE \E j \in Indices(g) : s = SudogOf(g, j)
          BY <5>2, <5>5
        <5> QED BY <5>3, <5>4, <5>5
      <4>3. PICK t : t = SudogOf(g, i)
        OBVIOUS
      <4>4. t \in ToSet(Queue(c, d)') /\ t.g = g /\ t.case = i
        BY <1>10, <3>2, <3>4, <4>3 DEF SudogOf
      <4>5. Live(t)'
        BY <1>3, <1>5, <4>4 DEF Live
      <4> QED BY <1>2, <1>3, <3>3, <3>2, <3>4, <4>1, <4>2, <4>3, <4>4, <4>5 DEF Blocked
    <3>5. CASE h # g
      <4>1. Blocked(h, i)
        BY <1>1, <1>7, <1>16, <3>5, BlockedEquiv DEF CoreInv, AllBlocked
      <4>2. /\ ~ch[c].closed
            /\ d = "send" => ch[c].qcount = Cap[c]
            /\ d = "recv" => ch[c].qcount = 0
            /\ \A s \in ToSet(Queue(c, e)) : s.g = h \/ ~Live(s)
            /\ \E s \in ToSet(Queue(c, d)) : s.g = h /\ s.case = i /\ Live(s)
        BY <2>2, <3>2, <3>3, <4>1 DEF Blocked
      <4>3. PICK t \in ToSet(Queue(c, d)) : t.g = h /\ t.case = i /\ Live(t)
        BY <4>2
      <4>4. \A s \in ToSet(Queue(c, e)') : s.g = h \/ ~Live(s)'
        <5> TAKE s \in ToSet(Queue(c, e)')
        <5>1. CASE s \in ToSet(Queue(c, e))
          BY <1>8, <4>2, <5>1
        <5>2. ASSUME NEW j \in Indices(g), op[g].cases[j] = [dir |-> e, c |-> c]
              PROVE  FALSE
          <6>1. LiveIn(Queue(c, d)) = {}
            BY <1>1, <3>2, <5>2, ParkCase
          <6> QED BY <4>3, <6>1 DEF LiveIn, ToSet
        <5> QED BY <1>9, <5>1, <5>2
      <4>5. t \in ToSet(Queue(c, d)') /\ Live(t)'
        BY <1>8, <1>10, <4>3
      <4> QED BY <1>2, <1>3, <3>2, <3>3, <4>2, <4>3, <4>4, <4>5 DEF Blocked
    <3> QED BY <3>4, <3>5
  <2> QED BY <2>1, <2>2
<1>17. SleepersBlocked'
  <2>1. AllBlocked'
    BY <1>8, <1>16 DEF AllBlocked
  <2> QED BY <2>1, BlockedEquiv, PTL
<1>18. PlaceInv'
  <2>1. ASSUME NEW h \in Goroutines
        PROVE  Placed(h)'
    <3>1. Placed(h)
      BY <1>4, PlaceEquiv DEF AllPlaced
    <3>2. CASE h # g
      BY <1>3, <3>1, <3>2, PlaceKept
    <3>3. CASE h = g
      <4>1. op[g] # NoOp
        BY <1>3 DEF NoOp
      <4>2. commit'[g] # {} => op[g].kind = "select" /\ commit'[g] \subseteq CaseChans(g)
        BY DEF Parks
      <4> QED BY <1>3, <1>5, <1>8, <3>3, <4>1, <4>2 DEF Placed
    <3> QED BY <3>2, <3>3
  <2>2. AllPlaced'
    BY <2>1 DEF AllPlaced
  <2> QED BY <2>2, PlaceEquiv, PTL
<1>19. FastInv' /\ DefaultJustified'
  <2>1. ASSUME NEW h \in Goroutines
        PROVE  FastOK(h)' /\ DefaultOK(h)'
    <3>1. /\ op'[h] = op[h] /\ (pc'[h] = "fast2" => pc[h] = "fast2")
          /\ (pc'[h] = "idle" => pc[h] = "idle") /\ (res'[h] = Default => res[h] = Default)
      BY <1>3
    <3>2. \A c \in Chans :
            /\ ch[c].closed => ch'[c].closed
            /\ Cap[c] > 0 /\ ch'[c].closed /\ ch'[c].qcount = Cap[c] => ch[c].qcount = Cap[c]
      BY <1>2
    <3> QED BY <1>1, <1>4, <3>1, <3>2, HistoryKept
  <2>2. AllFast' /\ AllDefaults'
    BY <2>1 DEF AllFast, AllDefaults
  <2> QED BY <2>2, FastEquiv, DefaultEquiv, PTL
<1>20. NoThrow'
  BY <1>1, <1>3 DEF NoThrow
<1>21. ChanTypeOK'
  <2>1. pc' = [pc EXCEPT ![g] = "parked"]
    BY DEF Parks
  <2>2. pc' \in [Goroutines -> {"idle", "fast", "fast2", "lock", "sellock", "loop",
                               "parked", "awake", "relock", "done", "throw"}]
    BY <1>1, <2>1 DEF ChanTypeOK
  <2> QED BY <1>1, <1>2, <2>2 DEF Parks, ChanTypeOK
<1>22. TypeOK' /\ ProgramOK'
  BY <1>1, <1>21, HistoryType DEF TypeOK, ProgramOK
<1>23. AllShaped'
  BY <1>1, ParkShape
<1>24. CoreInv'
  BY <1>12, <1>14, <1>15, <1>17, <1>18 DEF CoreInv
<1> QED BY <1>19, <1>20, <1>22, <1>23, <1>24, InvEquiv, PTL

\* The queue that an examined case looked into has been emptied.
LEMMA ExaminedClears ==
  ASSUME ChanTypeOK, NEW cases, NEW c \in Chans, NEW d \in Dirs, [dir |-> d, c |-> c] \in cases
  PROVE  Examined(cases)[c][Field[Other[d]]] = <<>>
<1> DEFINE rq == IF [dir |-> "send", c |-> c] \in cases THEN <<>> ELSE ch[c].recvq
           sq == IF [dir |-> "recv", c |-> c] \in cases THEN <<>> ELSE ch[c].sendq
<1>1. ch[c] \in Hchan(c)
  BY DEF ChanTypeOK
<1>2. Examined(cases)[c] = [ch[c] EXCEPT !.recvq = rq, !.sendq = sq]
  BY DEF Examined
<1> HIDE DEF rq, sq
<1>3. Examined(cases)[c].recvq = rq /\ Examined(cases)[c].sendq = sq
  BY <1>1, <1>2 DEF Hchan
<1>4. CASE d = "send"
  BY <1>3, <1>4 DEF rq, Field, Other
<1>5. CASE d = "recv"
  BY <1>3, <1>5 DEF sq, Field, Other
<1> QED BY <1>4, <1>5 DEF Dirs

\* Pass 2 of selectgo, and the last part of chansend and chanrecv.
LEMMA ParksFact ==
  ASSUME ChanTypeOK, NEW g \in Goroutines, NEW cases, ReadyAt(g) = {},
         cases = {op[g].cases[i] : i \in Indices(g)}
  PROVE  /\ Stripped(Examined(cases))
         /\ \A i \in Indices(g) :
              op[g].cases[i].c # Nil =>
                Examined(cases)[op[g].cases[i].c][Field[Other[op[g].cases[i].dir]]] = <<>>
<1>1. Stripped(Examined(cases))
  <2>1. cases = CasesAt(g, Indices(g))
    BY DEF CasesAt
  <2> QED BY <2>1, CasesFact
<1>2. ASSUME NEW i \in Indices(g), op[g].cases[i].c # Nil
      PROVE  Examined(cases)[op[g].cases[i].c][Field[Other[op[g].cases[i].dir]]] = <<>>
  <2>1. op[g].cases[i] \in Case /\ op[g].cases[i] \in cases
    BY IndicesFact
  <2>2. PICK c \in Chans, d \in Dirs : op[g].cases[i] = [dir |-> d, c |-> c]
    BY <1>2, <2>1 DEF Case, Dirs
  <2>3. Examined(cases)[c][Field[Other[d]]] = <<>>
    BY <2>1, <2>2, ExaminedClears
  <2>4. op[g].cases[i].c = c /\ op[g].cases[i].dir = d
    BY <2>2
  <2> QED BY <2>3, <2>4
<1> QED BY <1>1, <1>2

\* Pass 2 of selectgo.
LEMMA SelectParkStep ==
  ASSUME ChanInv, Observe, NEW g \in Goroutines, SelectPark(g)
  PROVE  ChanInv'
<1> DEFINE hs == Examined(CasesAt(g, Indices(g)))
<1>1. ChanTypeOK
  BY InvEquiv DEF TypeOK
<1>2. CasesAt(g, Indices(g)) = {op[g].cases[i] : i \in Indices(g)}
  BY DEF CasesAt
<1>3. /\ pc[g] \in {"sellock", "loop"} /\ op[g].kind = "select" /\ ReadyAt(g) = {} /\ op[g].block
      /\ ch' = Enqueued(g, op[g].cases, hs)
      /\ pc' = [pc EXCEPT ![g] = "parked"]
      /\ commit' = [commit EXCEPT ![g] = CaseChans(g)]
      /\ UNCHANGED <<chlock, op, selectDone, param, elem, wakes, res>>
  BY DEF SelectPark, InPass1, Goto
<1>4. /\ Stripped(hs)
      /\ \A i \in Indices(g) :
           op[g].cases[i].c # Nil => hs[op[g].cases[i].c][Field[Other[op[g].cases[i].dir]]] = <<>>
  BY <1>1, <1>2, <1>3, ParksFact
<1>5. CaseChans(g) \in SUBSET Chans
  <2>1. \A case \in ToSet(op[g].cases) : case \in Case
    BY <1>1, IndicesFact DEF ToSet, Indices
  <2> QED BY <2>1 DEF CaseChans, Case
<1>6. /\ commit' \in [Goroutines -> SUBSET Chans] /\ commit'[g] = CaseChans(g)
      /\ \A h \in Goroutines : h # g => commit'[h] = commit[h]
      /\ chlock' \in [Chans -> Goroutines \cup {Nobody}]
  BY <1>1, <1>3, <1>5 DEF ChanTypeOK
<1> HIDE DEF hs
<1>7. Parks(g, hs)
  BY <1>3, <1>4, <1>6 DEF Parks
<1> QED BY <1>7, ParkStep

\* chansend and chanrecv.
LEMMA ChanOpStep ==
  ASSUME ChanInv, Observe, NEW g \in Goroutines, ChanOp(g)
  PROVE  ChanInv'
<1> DEFINE hs == Examined({theCase(g)})
<1>1. ChanTypeOK /\ CoreInv
  BY InvEquiv DEF TypeOK
<1>2. CASE pc'[g] # "parked"
  BY <1>2, ChanOpFinishes
<1>3. CASE pc'[g] = "parked"
  <2>1. ~Proceed(g, 1, ch)
    <3>1. \A i, outcome : ~Finish(g, i, outcome)
      BY <1>1, <1>3 DEF Finish, Goto, ChanTypeOK
    <3> QED BY <3>1 DEF Proceed, SendPanics, SendToReceiver, SendToBuffer, RecvFromSender,
                       RecvFromBuffer, RecvClosed
  <2>2. /\ pc[g] = "lock" /\ op[g].kind = "chan" /\ theCase(g).c # Nil
        /\ ~Ready(theCase(g)) /\ op[g].block
        /\ ch' = Enqueued(g, op[g].cases, hs)
        /\ pc' = [pc EXCEPT ![g] = "parked"]
        /\ UNCHANGED <<chlock, op, selectDone, param, elem, wakes, commit, res>>
    <3>1. ~Finish(g, 0, "default")
      BY <1>1, <1>3 DEF Finish, Goto, ChanTypeOK
    <3> QED BY <2>1, <3>1 DEF ChanOp, NoWake, Goto
  <2>3. Indices(g) = {1}
    BY <1>1, <2>2, TheCaseFact
  <2>4. {theCase(g)} = {op[g].cases[i] : i \in Indices(g)} /\ ReadyAt(g) = {}
    BY <2>2, <2>3 DEF theCase, ReadyAt
  <2>5. /\ Stripped(hs)
        /\ \A i \in Indices(g) :
             op[g].cases[i].c # Nil => hs[op[g].cases[i].c][Field[Other[op[g].cases[i].dir]]] = <<>>
    BY <1>1, <2>4, ParksFact
  <2>6. commit[g] = {}
    BY <1>1, <2>2 DEF CoreInv, SudogsOwned
  <2>7. chlock \in [Chans -> Goroutines \cup {Nobody}] /\ commit \in [Goroutines -> SUBSET Chans]
    BY <1>1 DEF ChanTypeOK
  <2> HIDE DEF hs
  <2>8. Parks(g, hs)
    BY <2>2, <2>4, <2>5, <2>6, <2>7 DEF Parks
  <2> QED BY <2>8, ParkStep
<1> QED BY <1>2, <1>3

-----------------------------------------------------------------------------
(* Steps that concern one goroutine                                        *)

\* What WakeInv says of one goroutine.
WakeOK(g) ==
  /\ selectDone[g] <=> op[g].kind = "select" /\ Woken(g)
  /\ param[g] # Nil => Woken(g) /\ param[g] \in Indices(g)
  /\ Woken(g) /\ param[g] = Nil => SawClosed(g)
  /\ pc[g] = "loop" => SawClosed(g)

\* Of all of them.
AllWakeOK == \A g \in Goroutines : WakeOK(g)

\* It is WakeInv.
LEMMA WakeEquiv == WakeInv <=> AllWakeOK
BY DEF WakeInv, WakeOK, AllWakeOK

\* Steps that concern one goroutine m, from whose sudogs some may leave the queues.
LEMMA OwnStep ==
  ASSUME ChanInv, Observe, ChanTypeOK', NEW m \in Goroutines,
         \A h \in Goroutines : h # m =>
           /\ pc'[h] = pc[h] /\ op'[h] = op[h] /\ param'[h] = param[h] /\ res'[h] = res[h]
           /\ commit'[h] = commit[h] /\ selectDone'[h] = selectDone[h]
           /\ Dequeued(h)' <=> Dequeued(h),
         \A h \in Goroutines : wakes'[h] \subseteq wakes[h],
         \A c \in Chans : ch'[c].qcount = ch[c].qcount /\ ch'[c].closed = ch[c].closed,
         \A c \in Chans, dir \in Dirs :
           /\ ToSet(Queue(c, dir)') \subseteq ToSet(Queue(c, dir))
           /\ IsInjective(Queue(c, dir)) => IsInjective(Queue(c, dir)')
           /\ \A s \in ToSet(Queue(c, dir)) : s.g # m => s \in ToSet(Queue(c, dir)')
           /\ \A s \in ToSet(Queue(c, dir)') : s.g = m => Accounted(c, dir, s)' /\ (Live(s)' => Live(s)),
         Asleep(m)' => \A i \in Indices(m)' : Blocked(m, i)',
         Dequeued(m)' => pc'[m] = "parked" /\ op'[m] = op[m] /\ selectDone'[m] = selectDone[m],
         commit'[m] # {} => pc'[m] \in {"parked", "awake", "relock"},
         pc'[m] # "throw",
         Placed(m)', WakeOK(m)', FastOK(m)', DefaultOK(m)'
  PROVE  ChanInv'
<1>1. /\ TypeOK /\ ChanTypeOK /\ CoreInv /\ AllShaped /\ NoThrow /\ ProgramOK
      /\ QueueShape /\ FastInv /\ DefaultJustified
  BY InvEquiv DEF TypeOK, ChanInv
<1>2. PlaceInv /\ SudogsOwned /\ WakeInv /\ ReadyOnce /\ SleepersBlocked
  BY <1>1 DEF CoreInv
<1>3. ASSUME NEW h \in Goroutines, h # m
      PROVE  /\ Asleep(h)' <=> Asleep(h)
             /\ Woken(h)' <=> Woken(h)
             /\ Indices(h)' = Indices(h) /\ CaseChans(h)' = CaseChans(h)
             /\ theCase(h)' = theCase(h) /\ \A i : SudogOf(h, i)' = SudogOf(h, i)
  BY <1>3 DEF Asleep, Woken, Indices, CaseChans, theCase, SudogOf
<1>4. ASSUME NEW c \in Chans, NEW dir \in Dirs, NEW s \in ToSet(Queue(c, dir)), s.g # m
      PROVE  s.g \in Goroutines /\ (Live(s)' <=> Live(s))
  <2>1. s.g \in Goroutines
    BY <1>1, SudogFact
  <2> QED BY <1>4, <2>1 DEF Live
<1>5. SudogInv' /\ SudogsOwned'
  <2>1. ASSUME NEW c \in Chans, NEW dir \in Dirs, NEW s \in ToSet(Queue(c, dir)')
        PROVE  Accounted(c, dir, s)'
    <3>1. CASE s.g = m
      BY <3>1
    <3>2. CASE s.g # m
      <4>1. s \in ToSet(Queue(c, dir))
        OBVIOUS
      <4>2. s.g \in Goroutines /\ (Live(s)' <=> Live(s)) /\ Accounted(c, dir, s)
        BY <1>1, <1>4, <3>2, <4>1, QueuesEquiv DEF CoreInv, QueuesOK
      <4> QED BY <1>3, <3>2, <4>2 DEF Accounted
    <3> QED BY <3>1, <3>2
  <2>2. ASSUME NEW c \in Chans, NEW dir \in Dirs
        PROVE  IsInjective(Queue(c, dir)')
    <3>1. IsInjective(Queue(c, dir))
      BY <1>1, QueuesEquiv DEF CoreInv, QueuesOK
    <3> QED BY <3>1
  <2>3. QueuesOK'
    BY <2>1, <2>2 DEF QueuesOK
  <2>4. CommitsOK'
    <3>1. CommitsOK
      BY <1>1, QueuesEquiv DEF CoreInv
    <3> QED BY <3>1 DEF CommitsOK
  <2> QED BY <2>3, <2>4, QueuesEquiv, PTL
<1>6. WakeInv'
  <2>1. ASSUME NEW h \in Goroutines, h # m
        PROVE  WakeOK(h)'
    <3>1. WakeOK(h)
      BY <1>2, WakeEquiv DEF AllWakeOK
    <3>2. SawClosed(h) => SawClosed(h)'
      <4> SUFFICES ASSUME SawClosed(h)
                   PROVE  SawClosed(h)'
        OBVIOUS
      <4>1. PICK i \in Indices(h) : op[h].cases[i].c # Nil /\ ch[op[h].cases[i].c].closed
        BY DEF SawClosed
      <4>2. op[h].cases[i].c \in Chans
        BY <1>1, <4>1, IndicesFact DEF Case
      <4> QED BY <1>3, <2>1, <4>1, <4>2 DEF SawClosed
    <3>3. /\ pc'[h] = pc[h] /\ op'[h] = op[h] /\ param'[h] = param[h] /\ selectDone'[h] = selectDone[h]
          /\ Woken(h)' <=> Woken(h)
          /\ Indices(h)' = Indices(h)
      BY <1>3, <2>1
    <3> QED BY <3>1, <3>2, <3>3 DEF WakeOK
  <2>2. AllWakeOK'
    BY <2>1 DEF AllWakeOK
  <2> QED BY <2>2, WakeEquiv, PTL
<1>7. ReadyOnce'
  <2>1. ASSUME NEW f \in Goroutines, NEW h \in Goroutines, h \in wakes'[f]
        PROVE  /\ pc'[h] = "parked"
               /\ \A e \in Goroutines : h \in wakes'[e] => e = f
               /\ op'[h].kind = "select" => selectDone'[h]
    <3>1. /\ pc[h] = "parked"
          /\ \A e \in Goroutines : h \in wakes[e] => e = f
          /\ op[h].kind = "select" => selectDone[h]
      BY <1>2, <2>1 DEF ReadyOnce
    <3>2. CASE h = m
      <4>1. Dequeued(m)'
        BY <2>1, <3>2 DEF Dequeued
      <4> QED BY <3>1, <3>2, <4>1
    <3>3. CASE h # m
      BY <3>1, <3>3
    <3> QED BY <3>2, <3>3
  <2> QED BY <2>1 DEF ReadyOnce
<1>8. SleepersBlocked'
  <2>1. ASSUME NEW h \in Goroutines, h # m, Asleep(h), NEW i \in Indices(h)
        PROVE  Blocked(h, i)'
    <3>1. Blocked(h, i) /\ op'[h] = op[h]
      BY <1>1, <2>1, BlockedEquiv DEF CoreInv, AllBlocked
    <3>2. CASE op[h].cases[i].c = Nil
      BY <3>1, <3>2 DEF Blocked
    <3>3. CASE op[h].cases[i].c # Nil
      <4>1. op[h].cases[i] \in Case
        BY <1>1, IndicesFact
      <4>2. PICK c \in Chans, d \in Dirs, e \in Dirs :
              op[h].cases[i].c = c /\ op[h].cases[i].dir = d /\ Other[d] = e
        BY <3>3, <4>1, OtherFact DEF Case, Dirs
      <4>3. /\ ~ch[c].closed
            /\ d = "send" => ch[c].qcount = Cap[c]
            /\ d = "recv" => ch[c].qcount = 0
            /\ \A s \in ToSet(Queue(c, e)) : s.g = h \/ ~Live(s)
            /\ \E s \in ToSet(Queue(c, d)) : s.g = h /\ s.case = i /\ Live(s)
        BY <3>1, <3>3, <4>2 DEF Blocked
      <4>4. \A s \in ToSet(Queue(c, e)') : s.g = h \/ ~Live(s)'
        <5> TAKE s \in ToSet(Queue(c, e)')
        <5>1. s \in ToSet(Queue(c, e)) /\ (s.g = m => (Live(s)' => Live(s)))
          OBVIOUS
        <5> QED BY <1>4, <4>3, <5>1
      <4>5. PICK s \in ToSet(Queue(c, d)) : s.g = h /\ s.case = i /\ Live(s)
        BY <4>3
      <4>6. s \in ToSet(Queue(c, d)') /\ Live(s)'
        BY <1>4, <2>1, <4>5
      <4>7. /\ op'[h].cases[i].c = c /\ op'[h].cases[i].dir = d
            /\ ~ch'[c].closed
            /\ d = "send" => ch'[c].qcount = Cap[c]
            /\ d = "recv" => ch'[c].qcount = 0
        BY <3>1, <4>2, <4>3
      <4>8. \E x \in ToSet(Queue(c, d)') : x.g = h /\ x.case = i /\ Live(x)'
        BY <4>5, <4>6, ZenonT(40)
      <4> QED BY <4>2, <4>4, <4>7, <4>8, BlockedByCase, ZenonT(40)
    <3> QED BY <3>2, <3>3
  <2>2. AllBlocked'
    BY <1>3, <2>1 DEF AllBlocked
  <2> QED BY <2>2, BlockedEquiv, PTL
<1>9. PlaceInv'
  <2>1. ASSUME NEW h \in Goroutines, h # m
        PROVE  Placed(h)'
    <3>1. Placed(h)
      BY <1>2, PlaceEquiv DEF AllPlaced
    <3> QED BY <1>3, <2>1, <3>1 DEF Placed
  <2>2. AllPlaced'
    BY <2>1 DEF AllPlaced
  <2> QED BY <2>2, PlaceEquiv, PTL
<1>10. FastInv' /\ DefaultJustified'
  <2>1. ASSUME NEW h \in Goroutines, h # m
        PROVE  FastOK(h)' /\ DefaultOK(h)'
    <3>1. /\ op'[h] = op[h] /\ (pc'[h] = "fast2" => pc[h] = "fast2")
          /\ (pc'[h] = "idle" => pc[h] = "idle") /\ (res'[h] = Default => res[h] = Default)
      BY <2>1
    <3>2. \A c \in Chans :
            /\ ch[c].closed => ch'[c].closed
            /\ Cap[c] > 0 /\ ch'[c].closed /\ ch'[c].qcount = Cap[c] => ch[c].qcount = Cap[c]
      OBVIOUS
    <3> QED BY <1>1, <1>2, <3>1, <3>2, HistoryKept
  <2>2. AllFast' /\ AllDefaults'
    BY <2>1 DEF AllFast, AllDefaults
  <2> QED BY <2>2, FastEquiv, DefaultEquiv, PTL
<1>11. NoThrow'
  BY <1>1 DEF NoThrow
<1>12. TypeOK' /\ ProgramOK'
  BY <1>1, HistoryType DEF TypeOK, ProgramOK
<1>13. AllShaped'
  <2>1. ASSUME NEW c \in Chans
        PROVE  Shaped(c, ch'[c])
    <3>1. /\ ch[c] \in Hchan(c) /\ ch'[c] \in Hchan(c) /\ ch'[c].qcount = ch[c].qcount /\ Shaped(c, ch[c])
      BY <1>1 DEF ChanTypeOK, AllShaped
    <3>2. ToSet(ch'[c].sendq) \subseteq ToSet(ch[c].sendq) /\ ToSet(ch'[c].recvq) \subseteq ToSet(ch[c].recvq)
      BY DEF Queue, Field, Dirs
    <3> QED BY <3>1, <3>2, ShrinkShape
  <2> QED BY <2>1 DEF AllShaped
<1>14. CoreInv'
  BY <1>5, <1>6, <1>7, <1>8, <1>9 DEF CoreInv
<1> QED BY <1>10, <1>11, <1>12, <1>13, <1>14, InvEquiv, PTL

\* m has no sudog in a queue.
Unqueued(m) == \A c \in Chans, dir \in Dirs : \A s \in ToSet(Queue(c, dir)) : s.g # m

\* Nobody has one whose operation has not parked or is over its wakeup.
LEMMA UnqueuedFact ==
  ASSUME ChanTypeOK, CoreInv, NEW m \in Goroutines,
         \/ pc[m] \notin {"parked", "awake", "relock"}
         \/ pc[m] = "awake" /\ op[m].kind = "chan"
  PROVE  Unqueued(m)
<1> SUFFICES ASSUME NEW c \in Chans, NEW dir \in Dirs, NEW s \in ToSet(Queue(c, dir)), s.g = m
             PROVE  FALSE
  BY DEF Unqueued
<1>1. /\ s.isSelect = (op[s.g].kind = "select")
      /\ pc[s.g] \in {"parked", "awake", "relock"}
      /\ Live(s) => Asleep(s.g)
  BY SudogFact
<1> QED BY <1>1 DEF Live, Asleep

\* Steps that leave the channels alone and move m.
LEMMA MoveStep ==
  ASSUME ChanInv, Observe, ChanTypeOK', NEW m \in Goroutines,
         UNCHANGED <<ch, selectDone>>,
         \A h \in Goroutines : h # m =>
           /\ pc'[h] = pc[h] /\ op'[h] = op[h] /\ param'[h] = param[h] /\ res'[h] = res[h]
           /\ commit'[h] = commit[h]
           /\ Dequeued(h)' <=> Dequeued(h),
         \A h \in Goroutines : wakes'[h] \subseteq wakes[h],
         \/ Unqueued(m)
         \/ /\ pc'[m] \in {"parked", "awake", "relock"}
            /\ op'[m] = op[m] /\ param'[m] = param[m] /\ (Asleep(m) => Asleep(m)'),
         Asleep(m)' => \/ Asleep(m) /\ op'[m] = op[m]
                       \/ \A i \in Indices(m)' : op'[m].cases[i].c = Nil,
         Dequeued(m)' => pc'[m] = "parked" /\ op'[m] = op[m],
         commit'[m] # {} => pc'[m] \in {"parked", "awake", "relock"},
         pc'[m] # "throw",
         Placed(m)', WakeOK(m)', FastOK(m)', DefaultOK(m)'
  PROVE  ChanInv'
<1>1. ChanTypeOK /\ CoreInv
  BY InvEquiv DEF TypeOK
<1>2. /\ ch' = ch /\ \A s : Live(s)' <=> Live(s)
      /\ \A c \in Chans, dir \in Dirs : Queue(c, dir)' = Queue(c, dir)
  BY DEF Live, Queue
<1>3. ASSUME NEW c \in Chans, NEW dir \in Dirs, NEW s \in ToSet(Queue(c, dir)), s.g = m
      PROVE  Accounted(c, dir, s)'
  <2>1. Accounted(c, dir, s)
    BY <1>1, QueuesEquiv DEF CoreInv, QueuesOK
  <2>2. /\ pc'[m] \in {"parked", "awake", "relock"}
        /\ op'[m] = op[m] /\ param'[m] = param[m] /\ (Asleep(m) => Asleep(m)')
    BY <1>3 DEF Unqueued
  <2>3. Indices(m)' = Indices(m) /\ SudogOf(m, s.case)' = SudogOf(m, s.case)
    BY <2>2 DEF Indices, SudogOf
  <2> QED BY <1>2, <1>3, <2>1, <2>2, <2>3 DEF Accounted
<1>4. ASSUME Asleep(m)', NEW i \in Indices(m)'
      PROVE  Blocked(m, i)'
  <2>1. CASE Asleep(m) /\ op'[m] = op[m]
    <3>1. Indices(m)' = Indices(m)
      BY <2>1 DEF Indices
    <3>2. Blocked(m, i)
      BY <1>1, <2>1, <3>1, BlockedEquiv DEF CoreInv, AllBlocked
    <3>3. CASE op[m].cases[i].c = Nil
      BY <2>1, <3>3 DEF Blocked
    <3>4. CASE op[m].cases[i].c # Nil
      <4>1. op[m].cases[i] \in Case
        BY <1>1, <3>1, IndicesFact
      <4>2. PICK c \in Chans, d \in Dirs, e \in Dirs :
              op[m].cases[i].c = c /\ op[m].cases[i].dir = d /\ Other[d] = e
        BY <3>4, <4>1, OtherFact DEF Case, Dirs
      <4> QED BY <1>2, <2>1, <3>2, <4>2 DEF Blocked
    <3> QED BY <3>3, <3>4
  <2>2. CASE op'[m].cases[i].c = Nil
    BY <2>2 DEF Blocked
  <2> QED BY <1>4, <2>1, <2>2
<1>5. \A c \in Chans : ch'[c].qcount = ch[c].qcount /\ ch'[c].closed = ch[c].closed
  BY <1>2
<1>6. \A h \in Goroutines : selectDone'[h] = selectDone[h]
  OBVIOUS
<1>7. ASSUME NEW c \in Chans, NEW dir \in Dirs
      PROVE  /\ ToSet(Queue(c, dir)') \subseteq ToSet(Queue(c, dir))
             /\ IsInjective(Queue(c, dir)) => IsInjective(Queue(c, dir)')
             /\ \A s \in ToSet(Queue(c, dir)) : s.g # m => s \in ToSet(Queue(c, dir)')
             /\ \A s \in ToSet(Queue(c, dir)') : s.g = m => Accounted(c, dir, s)' /\ (Live(s)' => Live(s))
  BY <1>2, <1>3
<1> QED BY <1>4, <1>5, <1>6, <1>7, OwnStep

\* Nobody has dequeued a goroutine that is not parked.
LEMMA NotDequeued ==
  ASSUME ChanInv, NEW g \in Goroutines, pc[g] # "parked"
  PROVE  ~Dequeued(g)
BY InvEquiv DEF CoreInv, ReadyOnce, Dequeued

\* Steps in which g goes on by itself, without sudogs before and after.
LEMMA LocalStep ==
  ASSUME ChanInv, Observe, ChanTypeOK', NEW g \in Goroutines, Unqueued(g),
         pc[g] # "parked", pc'[g] \notin {"awake", "relock", "loop", "throw"},
         UNCHANGED <<ch, selectDone, wakes, commit>>,
         \A h \in Goroutines : h # g =>
           pc'[h] = pc[h] /\ op'[h] = op[h] /\ param'[h] = param[h] /\ res'[h] = res[h],
         commit[g] = {}, ~selectDone[g], param'[g] = Nil,
         pc'[g] = "parked" => \A i \in Indices(g)' : op'[g].cases[i].c = Nil,
         Placed(g)', FastOK(g)', DefaultOK(g)'
  PROVE  ChanInv'
<1>1. ~Dequeued(g)
  BY NotDequeued
<1>2. \A h \in Goroutines : Dequeued(h)' <=> Dequeued(h)
  BY DEF Dequeued
<1>3. ~Woken(g)'
  BY <1>1, <1>2 DEF Woken
<1>4. WakeOK(g)'
  BY <1>3 DEF WakeOK
<1>5. Asleep(g)' => \A i \in Indices(g)' : op'[g].cases[i].c = Nil
  BY DEF Asleep
<1> QED BY <1>1, <1>2, <1>4, <1>5, MoveStep

\* A goroutine between its park and its wakeup apart, what holds of g.
LEMMA LocalFact ==
  ASSUME ChanInv, NEW g \in Goroutines, pc[g] \notin {"parked", "awake", "relock"}
  PROVE  /\ Unqueued(g) /\ commit[g] = {} /\ ~selectDone[g] /\ param[g] = Nil
         /\ Placed(g) /\ FastOK(g) /\ DefaultOK(g)
<1>1. ChanTypeOK /\ CoreInv /\ FastInv /\ DefaultJustified
  BY InvEquiv DEF TypeOK
<1>2. ~Woken(g)
  BY DEF Woken
<1>3. ~selectDone[g] /\ param[g] = Nil
  BY <1>1, <1>2 DEF CoreInv, WakeInv
<1>4. commit[g] = {}
  BY <1>1 DEF CoreInv, SudogsOwned
<1>5. Placed(g) /\ FastOK(g) /\ DefaultOK(g)
  BY <1>1, PlaceEquiv, FastEquiv, DefaultEquiv DEF CoreInv, AllPlaced, AllFast, AllDefaults
<1> QED BY <1>1, <1>3, <1>4, <1>5, UnqueuedFact

\* A goroutine calls an operation.
LEMMA InvokeStep ==
  ASSUME ChanInv, Observe, NEW g \in Goroutines, NEW o \in program, Invoke(g, o)
  PROVE  ChanInv'
<1>1. ChanTypeOK /\ ProgramOK
  BY InvEquiv DEF TypeOK
<1>2. /\ Unqueued(g) /\ commit[g] = {} /\ ~selectDone[g] /\ param[g] = Nil /\ Placed(g)
      /\ pc[g] = "idle"
  BY LocalFact DEF Invoke
<1>3. IsOp(o) /\ o.kind \in {"chan", "select", "close"}
  BY <1>1, ProgramsAssumption DEF ProgramOK, IsOp
<1> DEFINE label == CASE o.kind = "select"             -> "sellock"
                      [] o.kind = "chan" /\ ~o.block   -> "fast"
                      [] OTHER                         -> "lock"
<1>4. \/ label = "sellock" /\ o.kind = "select"
      \/ label = "fast" /\ o.kind = "chan" /\ ~o.block
      \/ label = "lock" /\ o.kind # "select"
  BY <1>3
<1>5. /\ op' = [op EXCEPT ![g] = o] /\ pc' = [pc EXCEPT ![g] = label]
      /\ UNCHANGED <<ch, chlock, selectDone, param, elem, wakes, commit, res>>
  BY DEF Invoke, Goto
<1> HIDE DEF label
<1>6. op'[g] = o /\ pc'[g] = label /\ \A h \in Goroutines : h # g => pc'[h] = pc[h] /\ op'[h] = op[h]
  BY <1>1, <1>5 DEF ChanTypeOK
<1>7. ChanTypeOK'
  <2>1. pc' \in [Goroutines -> {"idle", "fast", "fast2", "lock", "sellock", "loop",
                               "parked", "awake", "relock", "done", "throw"}]
    BY <1>1, <1>4, <1>5 DEF ChanTypeOK
  <2>2. DOMAIN op' = Goroutines /\ \A h \in Goroutines : op'[h] = NoOp \/ IsOp(op'[h])
    BY <1>1, <1>3, <1>5, <1>6 DEF ChanTypeOK
  <2> QED BY <1>1, <1>5, <2>1, <2>2 DEF ChanTypeOK
<1>8. Placed(g)'
  <2>1. res[g] = NoResult /\ wakes[g] = {}
    BY <1>2 DEF Placed
  <2>2. o # NoOp
    BY <1>3 DEF NoOp
  <2> QED BY <1>2, <1>4, <1>5, <1>6, <2>1, <2>2 DEF Placed
<1>9. FastOK(g)' /\ DefaultOK(g)'
  <2>1. res'[g] # Default
    BY <1>2, <1>5, DefaultIsResult DEF Placed
  <2>2. pc'[g] # "fast2"
    BY <1>4, <1>6
  <2> QED BY <2>1, <2>2, ObserveFact DEF FastOK, DefaultOK
<1>10. pc'[g] \notin {"awake", "relock", "loop", "throw", "parked"}
  BY <1>4, <1>6
<1> QED BY <1>2, <1>5, <1>6, <1>7, <1>8, <1>9, <1>10, LocalStep

\* Where a goroutine may be.
Labels == {"idle", "fast", "fast2", "lock", "sellock", "loop",
           "parked", "awake", "relock", "done", "throw"}

\* The type of a step of g that only moves it and may give it a result.
LEMMA MoveType ==
  ASSUME ChanTypeOK, NEW g \in Goroutines, NEW label \in Labels, Goto(g, label),
         \/ UNCHANGED res
         \/ \E i \in Nat, outcome \in Outcome : res' = [res EXCEPT ![g] = <<i, outcome>>],
         UNCHANGED <<ch, chlock, op, selectDone, elem, wakes, commit>>,
         param' = param \/ param' = [param EXCEPT ![g] = Nil]
  PROVE  /\ ChanTypeOK'
         /\ pc'[g] = label
         /\ \A h \in Goroutines : h # g => pc'[h] = pc[h] /\ op'[h] = op[h] /\ param'[h] = param[h] /\ res'[h] = res[h]
<1>1. pc' = [pc EXCEPT ![g] = label]
  BY DEF Goto
<1>2. pc' \in [Goroutines -> Labels] /\ pc'[g] = label /\ \A h \in Goroutines : h # g => pc'[h] = pc[h]
  BY <1>1 DEF ChanTypeOK, Labels
<1>3. res' \in [Goroutines -> Nat \X Outcome] /\ \A h \in Goroutines : h # g => res'[h] = res[h]
  <2> HIDE DEF Outcome
  <2> QED BY DEF ChanTypeOK
<1>4. param' \in [Goroutines -> Nat] /\ \A h \in Goroutines : h # g => param'[h] = param[h]
  BY DEF ChanTypeOK, Nil
<1> QED BY <1>2, <1>3, <1>4 DEF ChanTypeOK, Labels

\* A finished operation in terms of the two.
LEMMA FinishMoves ==
  ASSUME NEW g, NEW i, NEW outcome, Finish(g, i, outcome)
  PROVE  Goto(g, "done") /\ res' = [res EXCEPT ![g] = <<i, outcome>>]
BY DEF Finish

\* After a step to a label past the reads without the lock, with that result.
LEMMA HistoryFact ==
  ASSUME ChanInv, Observe, NEW g \in Goroutines, pc'[g] # "fast2",
         pc'[g] # "idle", res'[g] = Default => missed[g]
  PROVE  FastOK(g)' /\ DefaultOK(g)'
BY ObserveFact DEF FastOK, DefaultOK

\* An operation on a nil channel gives up, panics or sleeps for ever.
LEMMA OnNilStep ==
  ASSUME ChanInv, Observe, NEW g \in Goroutines, OnNil(g)
  PROVE  ChanInv'
<1>1. ChanTypeOK
  BY InvEquiv DEF TypeOK
<1>2. /\ Unqueued(g) /\ commit[g] = {} /\ ~selectDone[g] /\ param[g] = Nil /\ Placed(g)
      /\ pc[g] \in {"fast", "lock"} /\ theCase(g).c = Nil
      /\ UNCHANGED <<ch, chlock, op, selectDone, param, elem, wakes, commit>>
  BY LocalFact DEF OnNil
<1>3. /\ op[g].kind \in {"chan", "close"} /\ Indices(g) = {1} /\ op[g] # NoOp
      /\ wakes[g] = {} /\ res[g] = NoResult
  <2>1. op[g].kind \in {"chan", "close"}
    BY DEF OnNil
  <2> QED BY <1>1, <1>2, <2>1, TheCaseFact DEF Placed
<1>4. ASSUME NEW i \in Nat, NEW outcome \in {"panic", "default"}, Finish(g, i, outcome),
             <<i, outcome>> = Default => missed[g]
      PROVE  ChanInv'
  <2>1. Goto(g, "done") /\ res' = [res EXCEPT ![g] = <<i, outcome>>] /\ outcome \in Outcome
    BY <1>4, FinishMoves DEF Outcome
  <2>2. /\ ChanTypeOK' /\ pc'[g] = "done"
        /\ \A h \in Goroutines : h # g => pc'[h] = pc[h] /\ op'[h] = op[h] /\ param'[h] = param[h] /\ res'[h] = res[h]
    BY <1>1, <1>2, <2>1, MoveType DEF Labels
  <2>3. res'[g] = Default => missed[g]
    BY <1>1, <1>4, <2>1 DEF ChanTypeOK
  <2>4. FastOK(g)' /\ DefaultOK(g)'
    BY <2>2, <2>3, HistoryFact
  <2>5. Placed(g)'
    BY <1>2, <1>3, <2>2 DEF Placed
  <2> QED BY <1>2, <2>2, <2>4, <2>5, LocalStep
<1>5. CASE op[g].kind = "close" /\ Finish(g, 1, "panic")
  <2>1. <<1, "panic">> # Default
    BY DEF Default
  <2> QED BY <1>4, <1>5, <2>1
<1>6. CASE op[g].kind = "chan" /\ ~op[g].block /\ Finish(g, 0, "default")
  <2>1. missed[g]
    <3>1. ~Ready(theCase(g))
      BY <1>2 DEF Ready
    <3>2. NotReady(g)
      BY <1>1, <1>2, <1>6, <3>1, NotReadyFact DEF InCall
    <3> QED BY <3>2, MissedFact
  <2> QED BY <1>4, <1>6, <2>1
<1>7. CASE op[g].kind = "chan" /\ op[g].block /\ Goto(g, "parked") /\ UNCHANGED res
  <2>1. /\ ChanTypeOK' /\ pc'[g] = "parked"
        /\ \A h \in Goroutines : h # g => pc'[h] = pc[h] /\ op'[h] = op[h] /\ param'[h] = param[h] /\ res'[h] = res[h]
    BY <1>1, <1>2, <1>7, MoveType DEF Labels
  <2>2. FastOK(g)' /\ DefaultOK(g)'
    BY <1>3, <1>7, <2>1, HistoryFact, DefaultIsResult
  <2>3. Placed(g)'
    BY <1>2, <1>3, <1>7, <2>1 DEF Placed
  <2>4. \A i \in Indices(g)' : op'[g].cases[i].c = Nil
    BY <1>2, <1>3 DEF Indices, theCase
  <2> QED BY <1>2, <2>1, <2>2, <2>3, <2>4, LocalStep
<1> QED BY <1>5, <1>6, <1>7 DEF OnNil

\* The first read without the lock,
LEMMA FastRead1Step ==
  ASSUME ChanInv, Observe, NEW g \in Goroutines, FastRead1(g)
  PROVE  ChanInv'
<1>1. ChanTypeOK /\ QueueShape
  BY InvEquiv DEF TypeOK, ChanInv
<1>2. /\ Unqueued(g) /\ commit[g] = {} /\ ~selectDone[g] /\ param[g] = Nil /\ Placed(g)
      /\ pc[g] = "fast" /\ theCase(g).c # Nil
      /\ UNCHANGED <<ch, chlock, op, selectDone, param, elem, wakes, commit, res>>
  BY LocalFact DEF FastRead1
<1>3. /\ op[g].kind = "chan" /\ ~op[g].block /\ op[g] # NoOp
      /\ wakes[g] = {} /\ res[g] = NoResult
  BY <1>2 DEF Placed, NoOp
<1>4. PICK c \in Chans : theCase(g).c = c
  BY <1>1, <1>2, <1>3, TheCaseFact
<1> DEFINE label == IF FastReads(theCase(g).dir, c)[1] THEN "fast2" ELSE "lock"
<1>5. Goto(g, label) /\ label \in {"fast2", "lock"}
  BY <1>4 DEF FastRead1
<1> HIDE DEF label
<1>6. /\ ChanTypeOK' /\ pc'[g] = label
      /\ \A h \in Goroutines : h # g => pc'[h] = pc[h] /\ op'[h] = op[h] /\ param'[h] = param[h] /\ res'[h] = res[h]
  BY <1>1, <1>2, <1>5, MoveType DEF Labels
<1>7. Placed(g)'
  <2>1. theCase(g)' = theCase(g)
    BY <1>2 DEF theCase
  <2> QED BY <1>2, <1>3, <1>5, <1>6, <2>1 DEF Placed
<1>8. ASSUME label = "fast2", theCase(g).dir = "recv", ~ch[c].closed
      PROVE  missed[g]
  <2>1. LooksEmpty(c)
    BY <1>8 DEF label, FastReads
  <2>2. ch[c].qcount \in 0 .. Cap[c] /\ Cap[c] \in Nat
    BY <1>1, ChanAssumption DEF ChanTypeOK, Hchan
  <2>3. ch[c].qcount = 0 /\ ch[c].sendq = <<>>
    BY <1>1, <2>1, <2>2 DEF LooksEmpty, QueueShape
  <2>4. ~Ready(theCase(g))
    BY <1>4, <1>8, <2>3 DEF Ready, Waiting, LiveIn, Field, Other
  <2>5. NotReady(g)
    BY <1>1, <1>2, <1>3, <2>4, NotReadyFact DEF InCall
  <2> QED BY <2>5, MissedFact
<1>9. ASSUME label = "fast2", theCase(g).dir = "send"
      PROVE  ~ch[c].closed
  BY <1>9 DEF label, FastReads
<1>10. FastOK(g)'
  <2>1. theCase(g)' = theCase(g)
    BY <1>2 DEF theCase
  <2>2. missed[g] => missed'[g]
    BY <1>5, <1>6, ObserveFact
  <2> QED BY <1>2, <1>4, <1>6, <1>8, <1>9, <2>1, <2>2, ObserveFact DEF FastOK
<1>11. DefaultOK(g)'
  BY <1>2, <1>3, DefaultIsResult DEF DefaultOK
<1>12. pc'[g] \notin {"awake", "relock", "loop", "throw", "parked"}
  BY <1>5, <1>6
<1> QED BY <1>2, <1>6, <1>7, <1>10, <1>11, <1>12, LocalStep

\* and the second: what FastInv says of the first one justifies giving up.
LEMMA FastRead2Step ==
  ASSUME ChanInv, Observe, NEW g \in Goroutines, FastRead2(g)
  PROVE  ChanInv'
<1>1. ChanTypeOK /\ QueueShape
  BY InvEquiv DEF TypeOK, ChanInv
<1>2. /\ Unqueued(g) /\ commit[g] = {} /\ ~selectDone[g] /\ param[g] = Nil /\ Placed(g) /\ FastOK(g)
      /\ pc[g] = "fast2"
      /\ UNCHANGED <<ch, chlock, op, selectDone, param, elem, wakes, commit>>
  BY LocalFact DEF FastRead2
<1>3. /\ op[g].kind = "chan" /\ ~op[g].block /\ op[g] # NoOp /\ theCase(g).c # Nil
      /\ wakes[g] = {} /\ res[g] = NoResult
  BY <1>2 DEF Placed, NoOp
<1>4. PICK c \in Chans : theCase(g).c = c
  BY <1>1, <1>3, TheCaseFact
<1>5. theCase(g)' = theCase(g)
  BY <1>2 DEF theCase
<1>6. CASE FastReads(theCase(g).dir, c)[2] /\ Finish(g, 0, "default")
  <2>1. Goto(g, "done") /\ res' = [res EXCEPT ![g] = <<0, "default">>] /\ "default" \in Outcome
    BY <1>6, FinishMoves DEF Outcome
  <2>2. /\ ChanTypeOK' /\ pc'[g] = "done"
        /\ \A h \in Goroutines : h # g => pc'[h] = pc[h] /\ op'[h] = op[h] /\ param'[h] = param[h] /\ res'[h] = res[h]
    BY <1>1, <1>2, <2>1, MoveType DEF Labels
  <2>3. Placed(g)'
    BY <1>2, <1>3, <2>2 DEF Placed
  <2>4. missed[g] \/ (UnbufferedSend(g) /\ ch[c].closed)
    <3>1. CASE theCase(g).dir = "recv"
      <4>1. ~ch[c].closed
        BY <1>6, <3>1 DEF FastReads
      <4> QED BY <1>2, <1>4, <3>1, <4>1 DEF FastOK
    <3>2. CASE theCase(g).dir = "send"
      <4>1. LooksFull(c) /\ Cap[c] \in Nat
        BY <1>6, <3>2, ChanAssumption DEF FastReads
      <4>2. CASE ch[c].closed
        <5>1. CASE Cap[c] = 0
          BY <1>3, <1>4, <3>2, <4>2, <5>1 DEF UnbufferedSend
        <5>2. CASE Cap[c] > 0
          <6>1. ch[c].qcount = Cap[c]
            BY <4>1, <5>2 DEF LooksFull
          <6> QED BY <1>2, <1>4, <3>2, <4>2, <5>2, <6>1 DEF FastOK
        <5> QED BY <4>1, <5>1, <5>2
      <4>3. CASE ~ch[c].closed
        <5>1. ch[c].qcount \in 0 .. Cap[c]
          BY <1>1 DEF ChanTypeOK, Hchan
        <5>2. ch[c].recvq = <<>> /\ ch[c].qcount = Cap[c]
          BY <1>1, <4>1, <5>1 DEF LooksFull, QueueShape
        <5>3. ~Ready(theCase(g))
          BY <1>4, <3>2, <4>1, <4>3, <5>2 DEF Ready, Waiting, LiveIn, Field, Other
        <5>4. NotReady(g)
          BY <1>1, <1>2, <1>3, <5>3, NotReadyFact DEF InCall
        <5> QED BY <5>4, MissedFact
      <4> QED BY <4>2, <4>3
    <3> QED BY <1>1, <1>3, <3>1, <3>2, TheCaseFact DEF Dirs
  <2>5. DefaultOK(g)'
    <3>1. missed[g] => missed'[g]
      BY <2>2, ObserveFact
    <3>2. UnbufferedSend(g) => UnbufferedSend(g)'
      BY <1>2, <1>5 DEF UnbufferedSend
    <3> QED BY <1>2, <1>4, <1>5, <2>4, <3>1, <3>2 DEF DefaultOK
  <2>6. FastOK(g)'
    BY <2>2, ObserveFact DEF FastOK
  <2> QED BY <1>2, <2>2, <2>3, <2>5, <2>6, LocalStep
<1>7. CASE Goto(g, "lock") /\ UNCHANGED res
  <2>1. /\ ChanTypeOK' /\ pc'[g] = "lock"
        /\ \A h \in Goroutines : h # g => pc'[h] = pc[h] /\ op'[h] = op[h] /\ param'[h] = param[h] /\ res'[h] = res[h]
    BY <1>1, <1>2, <1>7, MoveType DEF Labels
  <2>2. FastOK(g)' /\ DefaultOK(g)'
    BY <1>3, <1>7, <2>1, HistoryFact, DefaultIsResult
  <2>3. Placed(g)'
    BY <1>2, <1>3, <1>7, <2>1 DEF Placed
  <2> QED BY <1>2, <2>1, <2>2, <2>3, LocalStep
<1> QED BY <1>4, <1>6, <1>7 DEF FastRead2

-----------------------------------------------------------------------------
(* Wakeups, locks and pass 3                                               *)

\* chansend or chanrecv goes on after its wakeup, and has been told why.
LEMMA ChanWakeStep ==
  ASSUME ChanInv, Observe, NEW g \in Goroutines, ChanWake(g)
  PROVE  ChanInv'
<1>1. ChanTypeOK /\ CoreInv
  BY InvEquiv DEF TypeOK
<1>2. /\ pc[g] = "awake" /\ op[g].kind = "chan"
      /\ param' = [param EXCEPT ![g] = Nil]
      /\ UNCHANGED <<ch, chlock, op, selectDone, elem, wakes, commit>>
  BY DEF ChanWake
<1>3. /\ Unqueued(g) /\ ~selectDone[g] /\ commit[g] = {} /\ Placed(g)
      /\ Woken(g) /\ (param[g] = Nil => SawClosed(g))
  BY <1>1, <1>2, UnqueuedFact, PlaceEquiv DEF CoreInv, WakeInv, PlaceInv, AllPlaced, Woken
<1>4. /\ Indices(g) = {1} /\ op[g] # NoOp /\ theCase(g).dir \in Dirs
      /\ wakes[g] = {} /\ res[g] = NoResult
  BY <1>1, <1>2, <1>3, TheCaseFact DEF Placed
<1>5. param[g] = Nil => ch[theCase(g).c].closed
  BY <1>3, <1>4 DEF SawClosed, theCase
<1> DEFINE outcome == IF param[g] = Nil
                        THEN IF theCase(g).dir = "send" THEN "panic" ELSE "closed"
                        ELSE IF theCase(g).dir = "send" THEN "sent" ELSE elem[g]
<1>6. Finish(g, 1, outcome)
  BY <1>5 DEF ChanWake
<1>7. outcome \in Outcome
  BY <1>1 DEF ChanTypeOK, Outcome
<1> HIDE DEF outcome
<1>8. Goto(g, "done") /\ res' = [res EXCEPT ![g] = <<1, outcome>>]
  BY <1>6, FinishMoves
<1>9. /\ ChanTypeOK' /\ pc'[g] = "done"
      /\ \A h \in Goroutines : h # g => pc'[h] = pc[h] /\ op'[h] = op[h] /\ param'[h] = param[h] /\ res'[h] = res[h]
  BY <1>1, <1>2, <1>7, <1>8, MoveType DEF Labels
<1>10. res'[g] # Default
  BY <1>1, <1>8 DEF ChanTypeOK, Default
<1>11. FastOK(g)' /\ DefaultOK(g)'
  BY <1>9, <1>10, HistoryFact
<1>12. Placed(g)'
  BY <1>2, <1>3, <1>4, <1>9 DEF Placed
<1>13. param'[g] = Nil
  BY <1>1, <1>2 DEF ChanTypeOK
<1> QED BY <1>2, <1>3, <1>9, <1>11, <1>12, <1>13, LocalStep

\* A goroutine that was dequeued becomes runnable: it has no live sudog, so that nobody
\* dequeues it again.
LEMMA GoreadyStep ==
  ASSUME ChanInv, Observe, NEW g \in Goroutines, Goready(g)
  PROVE  ChanInv'
<1>1. ChanTypeOK /\ CoreInv
  BY InvEquiv DEF TypeOK
<1>2. PICK h \in wakes[g] : wakes' = [wakes EXCEPT ![g] = @ \ {h}] /\ Goto(h, "awake")
  BY DEF Goready
<1>3. /\ pc[g] = "done" /\ UNCHANGED <<ch, chlock, op, selectDone, param, elem, commit, res>>
  BY DEF Goready
<1>4. h \in Goroutines
  BY <1>1 DEF ChanTypeOK
<1>5. pc[h] = "parked" /\ \A f \in Goroutines : h \in wakes[f] => f = g
  BY <1>1, <1>4 DEF CoreInv, ReadyOnce
<1>6. /\ wakes'[g] = wakes[g] \ {h} /\ \A f \in Goroutines : f # g => wakes'[f] = wakes[f]
      /\ pc'[h] = "awake" /\ \A f \in Goroutines : f # h => pc'[f] = pc[f]
  BY <1>1, <1>2, <1>4 DEF ChanTypeOK, Goto
<1>7. /\ \A f \in Goroutines : f # h => (Dequeued(f)' <=> Dequeued(f))
      /\ Dequeued(h) /\ ~Dequeued(h)'
  BY <1>5, <1>6 DEF Dequeued
<1>8. ChanTypeOK'
  <2>1. pc' = [pc EXCEPT ![h] = "awake"]
    BY <1>2 DEF Goto
  <2>2. pc' \in [Goroutines -> Labels]
    BY <1>1, <2>1 DEF ChanTypeOK, Labels
  <2>3. wakes' \in [Goroutines -> SUBSET Goroutines]
    BY <1>1, <1>2 DEF ChanTypeOK
  <2> QED BY <1>1, <1>3, <2>2, <2>3 DEF ChanTypeOK, Labels
<1>9. Placed(h) /\ WakeOK(h)
  BY <1>1, <1>4, PlaceEquiv, WakeEquiv DEF CoreInv, AllPlaced, AllWakeOK
<1>10. Placed(h)'
  <2>1. CaseChans(h)' = CaseChans(h)
    BY <1>3 DEF CaseChans
  <2>2. wakes'[h] = {}
    <3>1. h # g /\ wakes[h] = {}
      BY <1>3, <1>5, <1>9 DEF Placed
    <3> QED BY <1>4, <1>6, <3>1
  <2> QED BY <1>3, <1>5, <1>6, <1>9, <2>1, <2>2 DEF Placed
<1>11. WakeOK(h)'
  <2>1. Woken(h) /\ Woken(h)'
    BY <1>5, <1>6, <1>7 DEF Woken
  <2>2. SawClosed(h)' = SawClosed(h) /\ Indices(h)' = Indices(h)
    BY <1>3 DEF SawClosed, Indices
  <2> QED BY <1>3, <1>6, <1>9, <2>1, <2>2 DEF WakeOK
<1>12. FastOK(h)' /\ DefaultOK(h)'
  <2>1. res'[h] # Default
    BY <1>3, <1>5, <1>9, DefaultIsResult DEF Placed
  <2> QED BY <1>4, <1>6, <2>1, HistoryFact
<1>13. ~Asleep(h)' /\ ~Asleep(h)
  BY <1>6, <1>7 DEF Asleep
<1>14. \A f \in Goroutines : wakes'[f] \subseteq wakes[f]
  BY <1>6
<1> QED BY <1>3, <1>4, <1>6, <1>7, <1>8, <1>10, <1>11, <1>12, <1>13, <1>14, MoveStep

\* An operation returns.
LEMMA ChanReturnStep ==
  ASSUME ChanInv, Observe, NEW g \in Goroutines, ChanReturn(g)
  PROVE  ChanInv'
<1>1. ChanTypeOK
  BY InvEquiv DEF TypeOK
<1>2. /\ Unqueued(g) /\ commit[g] = {} /\ ~selectDone[g] /\ param[g] = Nil /\ Placed(g)
      /\ pc[g] = "done" /\ wakes[g] = {}
      /\ UNCHANGED <<ch, chlock, selectDone, param, wakes, commit>>
  BY LocalFact DEF ChanReturn
<1>3. /\ pc' = [pc EXCEPT ![g] = "idle"] /\ op' = [op EXCEPT ![g] = NoOp]
      /\ elem' = [elem EXCEPT ![g] = Nobody] /\ res' = [res EXCEPT ![g] = NoResult]
  BY DEF ChanReturn, Goto
<1>4. /\ pc'[g] = "idle" /\ op'[g] = NoOp /\ res'[g] = NoResult
      /\ \A h \in Goroutines : h # g => pc'[h] = pc[h] /\ op'[h] = op[h] /\ res'[h] = res[h]
  BY <1>1, <1>3 DEF ChanTypeOK
<1>5. ChanTypeOK'
  <2>1. pc' \in [Goroutines -> Labels] /\ elem' \in [Goroutines -> Value]
    BY <1>1, <1>3 DEF ChanTypeOK, Labels, Value
  <2>2. res' \in [Goroutines -> Nat \X Outcome]
    <3>1. NoResult \in Nat \X Outcome
      BY DEF NoResult, Outcome, Value
    <3> HIDE DEF Outcome
    <3> QED BY <1>1, <1>3, <3>1 DEF ChanTypeOK
  <2>3. DOMAIN op' = Goroutines /\ \A h \in Goroutines : op'[h] = NoOp \/ IsOp(op'[h])
    BY <1>1, <1>3, <1>4 DEF ChanTypeOK
  <2> QED BY <1>1, <1>2, <2>1, <2>2, <2>3 DEF ChanTypeOK, Labels
<1>6. Placed(g)'
  BY <1>2, <1>4 DEF Placed
<1>7. FastOK(g)' /\ DefaultOK(g)'
  BY <1>4, DefaultIsResult, ObserveFact DEF FastOK, DefaultOK
<1> QED BY <1>2, <1>4, <1>5, <1>6, <1>7, LocalStep

\* selectgo begins its relocking.
LEMMA SelectWakeStep ==
  ASSUME ChanInv, Observe, NEW g \in Goroutines, SelectWake(g)
  PROVE  ChanInv'
<1>1. ChanTypeOK /\ CoreInv
  BY InvEquiv DEF TypeOK
<1>2. /\ pc[g] = "awake" /\ op[g].kind = "select" /\ Goto(g, "relock")
      /\ UNCHANGED <<ch, chlock, op, selectDone, param, elem, wakes, commit, res>>
  BY DEF SelectWake
<1>3. /\ ChanTypeOK' /\ pc'[g] = "relock"
      /\ \A h \in Goroutines : h # g => pc'[h] = pc[h] /\ op'[h] = op[h] /\ param'[h] = param[h] /\ res'[h] = res[h]
  BY <1>1, <1>2, MoveType DEF Labels
<1>4. Placed(g) /\ WakeOK(g)
  BY <1>1, PlaceEquiv, WakeEquiv DEF CoreInv, AllPlaced, AllWakeOK
<1>5. ~Dequeued(g) /\ \A h \in Goroutines : Dequeued(h)' <=> Dequeued(h)
  BY <1>2, NotDequeued DEF Dequeued
<1>6. Placed(g)'
  <2>1. CaseChans(g)' = CaseChans(g)
    BY <1>2 DEF CaseChans
  <2> QED BY <1>2, <1>3, <1>4, <2>1 DEF Placed
<1>7. WakeOK(g)'
  <2>1. Woken(g) /\ Woken(g)'
    BY <1>2, <1>3 DEF Woken
  <2>2. SawClosed(g)' = SawClosed(g) /\ Indices(g)' = Indices(g)
    BY <1>2 DEF SawClosed, Indices
  <2> QED BY <1>2, <1>3, <1>4, <2>1, <2>2 DEF WakeOK
<1>8. FastOK(g)' /\ DefaultOK(g)'
  <2>1. res'[g] # Default
    BY <1>2, <1>4, DefaultIsResult DEF Placed
  <2> QED BY <1>3, <2>1, HistoryFact
<1>9. ~Asleep(g) /\ ~Asleep(g)'
  BY <1>2, <1>3 DEF Asleep
<1> QED BY <1>2, <1>3, <1>5, <1>6, <1>7, <1>8, <1>9, MoveStep

\* Steps of the locks alone.
LEMMA LockStep ==
  ASSUME ChanInv, Observe, NEW g \in Goroutines,
         UNCHANGED <<ch, pc, op, selectDone, param, elem, wakes, res>>,
         chlock' \in [Chans -> Goroutines \cup {Nobody}],
         commit' \in [Goroutines -> SUBSET Chans], commit'[g] \subseteq commit[g],
         \A h \in Goroutines : h # g => commit'[h] = commit[h]
  PROVE  ChanInv'
<1>1. /\ ChanTypeOK /\ CoreInv /\ QueueShape /\ FastInv /\ DefaultJustified /\ NoThrow /\ PlaceInv
  BY InvEquiv DEF TypeOK, ChanInv
<1>2. ChanTypeOK'
  BY <1>1 DEF ChanTypeOK
<1>3. Placed(g) /\ WakeOK(g)
  BY <1>1, PlaceEquiv, WakeEquiv DEF CoreInv, AllPlaced, AllWakeOK
<1>4. /\ \A h \in Goroutines : Dequeued(h)' <=> Dequeued(h)
      /\ Asleep(g)' <=> Asleep(g)
      /\ Woken(g)' <=> Woken(g)
  BY DEF Dequeued, Asleep, Woken
<1>5. /\ SawClosed(g)' = SawClosed(g) /\ Indices(g)' = Indices(g) /\ CaseChans(g)' = CaseChans(g)
      /\ theCase(g)' = theCase(g)
  BY DEF SawClosed, Indices, CaseChans, theCase
<1>6. Placed(g)'
  BY <1>3, <1>5 DEF Placed
<1>7. WakeOK(g)'
  BY <1>3, <1>4, <1>5 DEF WakeOK
<1>8. FastOK(g)' /\ DefaultOK(g)'
  <2>1. \A c \in Chans :
          /\ ch[c].closed => ch'[c].closed
          /\ Cap[c] > 0 /\ ch'[c].closed /\ ch'[c].qcount = Cap[c] => ch[c].qcount = Cap[c]
    OBVIOUS
  <2> QED BY <1>1, <2>1, HistoryKept
<1>9. /\ Dequeued(g) => pc[g] = "parked"
      /\ commit'[g] # {} => pc[g] \in {"parked", "awake", "relock"}
      /\ pc[g] # "throw"
      /\ Asleep(g) => Unqueued(g) \/ pc[g] \in {"parked", "awake", "relock"}
      /\ Unqueued(g) \/ pc[g] \in {"parked", "awake", "relock"}
  BY <1>1, NotDequeued, UnqueuedFact DEF CoreInv, SudogsOwned, NoThrow
<1> QED BY <1>2, <1>4, <1>6, <1>7, <1>8, <1>9, MoveStep

\* selectgo takes one lock of its channels.
LEMMA SelLockStep ==
  ASSUME ChanInv, Observe, NEW g \in Goroutines, SelLock(g)
  PROVE  ChanInv'
<1>1. ChanTypeOK
  BY InvEquiv DEF TypeOK
<1>2. chlock' \in [Chans -> Goroutines \cup {Nobody}]
  BY <1>1 DEF ChanTypeOK, SelLock
<1> QED BY <1>1, <1>2, LockStep DEF SelLock, ChanTypeOK

\* selparkcommit gives one lock up.
LEMMA CommitStep ==
  ASSUME ChanInv, Observe, NEW g \in Goroutines, SelParkCommit(g)
  PROVE  ChanInv'
<1>1. ChanTypeOK
  BY InvEquiv DEF TypeOK
<1> DEFINE c == Min(commit[g])
<1>2. chlock' = [chlock EXCEPT ![c] = Nobody] /\ commit' = [commit EXCEPT ![g] = @ \ {c}]
  BY DEF SelParkCommit
<1> HIDE DEF c
<1>3. /\ chlock' \in [Chans -> Goroutines \cup {Nobody}]
      /\ commit' \in [Goroutines -> SUBSET Chans] /\ commit'[g] \subseteq commit[g]
      /\ \A h \in Goroutines : h # g => commit'[h] = commit[h]
  BY <1>1, <1>2 DEF ChanTypeOK
<1> QED BY <1>3, LockStep DEF SelParkCommit

\* Pass 3 takes every sudog of g that is left.
LEMMA RemovedQueues ==
  ASSUME ChanTypeOK, CoreInv, NEW g \in Goroutines, ch' = Removed(g)
  PROVE  /\ DOMAIN ch' = Chans
         /\ \A c \in Chans : /\ ch'[c] \in Hchan(c) /\ ch'[c].qcount = ch[c].qcount
                             /\ ch'[c].closed = ch[c].closed
         /\ \A c \in Chans, dir \in Dirs :
              /\ ToSet(Queue(c, dir)') = {s \in ToSet(Queue(c, dir)) : s.g # g}
              /\ IsInjective(Queue(c, dir)) => IsInjective(Queue(c, dir)')
<1> DEFINE qs == Removed(g)
<1>1. /\ DOMAIN qs = Chans
      /\ \A c \in Chans :
           /\ qs[c] \in Hchan(c)
           /\ qs[c].qcount = ch[c].qcount /\ qs[c].closed = ch[c].closed
           /\ qs[c].sendq = Without(g, ch[c].sendq)
           /\ qs[c].recvq = Without(g, ch[c].recvq)
  BY RemovedFact
<1>2. ch' = qs
  OBVIOUS
<1> HIDE DEF qs
<1>3. ASSUME NEW c \in Chans, NEW dir \in Dirs
      PROVE  /\ ToSet(Queue(c, dir)') = {s \in ToSet(Queue(c, dir)) : s.g # g}
             /\ IsInjective(Queue(c, dir)) => IsInjective(Queue(c, dir)')
  <2>1. Queue(c, dir)' = Without(g, Queue(c, dir))
    <3>1. CASE dir = "send"
      BY <1>1, <1>2, <3>1 DEF Queue, Field
    <3>2. CASE dir = "recv"
      BY <1>1, <1>2, <3>2 DEF Queue, Field
    <3> QED BY <3>1, <3>2 DEF Dirs
  <2>2. Queue(c, dir) \in Seq(Sudog)
    BY QueueType
  <2>3. /\ ToSet(Without(g, Queue(c, dir))) = {s \in ToSet(Queue(c, dir)) : s.g # g \/ s.case = param[g]}
        /\ IsInjective(Queue(c, dir)) => IsInjective(Without(g, Queue(c, dir)))
    BY <2>2, WithoutFact
  <2>4. \A s \in ToSet(Queue(c, dir)) : s.case # param[s.g]
    BY SudogFact
  <2> QED BY <2>1, <2>3, <2>4
<1> QED BY <1>1, <1>2, <1>3

\* Pass 3 preserves the invariant: what g leaves in no queue, no waker can find.
LEMMA SelectPass3Step ==
  ASSUME ChanInv, Observe, NEW g \in Goroutines, SelectPass3(g)
  PROVE  ChanInv'
<1>1. ChanTypeOK /\ CoreInv
  BY InvEquiv DEF TypeOK
<1>2. /\ pc[g] = "relock" /\ Missing(g) = {} /\ ch' = Removed(g)
      /\ selectDone' = [selectDone EXCEPT ![g] = FALSE]
      /\ param' = [param EXCEPT ![g] = Nil]
      /\ UNCHANGED <<op, elem, wakes, commit>>
  BY DEF SelectPass3
<1>3. /\ DOMAIN ch' = Chans
      /\ \A c \in Chans : /\ ch'[c] \in Hchan(c) /\ ch'[c].qcount = ch[c].qcount
                          /\ ch'[c].closed = ch[c].closed
      /\ \A c \in Chans, dir \in Dirs :
           /\ ToSet(Queue(c, dir)') = {s \in ToSet(Queue(c, dir)) : s.g # g}
           /\ IsInjective(Queue(c, dir)) => IsInjective(Queue(c, dir)')
  BY <1>1, <1>2, RemovedQueues
<1>4. Placed(g) /\ WakeOK(g) /\ Woken(g)
  BY <1>1, <1>2, PlaceEquiv, WakeEquiv DEF CoreInv, AllPlaced, AllWakeOK, Woken
<1>5. /\ op[g].kind = "select" /\ op[g].block /\ op[g] # NoOp
      /\ wakes[g] = {} /\ res[g] = NoResult
  BY <1>2, <1>4 DEF Placed, NoOp
<1>6. commit[g] = {}
  BY <1>2, <1>4 DEF Missing, Holds, Placed
<1>7. ~Dequeued(g) /\ \A h \in Goroutines : Dequeued(h)' <=> Dequeued(h)
  BY <1>2, NotDequeued DEF Dequeued
<1> DEFINE outcome == IF op[g].cases[param[g]].dir = "send" THEN "sent" ELSE elem[g]
<1>8. \/ /\ param[g] = Nil /\ Goto(g, "loop") /\ UNCHANGED <<chlock, res>>
      \/ /\ param[g] # Nil /\ Finish(g, param[g], outcome) /\ chlock' = Unlocked(g)
  BY DEF SelectPass3
<1>9. outcome \in Outcome
  BY <1>1 DEF ChanTypeOK, Outcome
<1> HIDE DEF outcome
<1>10. /\ chlock' \in [Chans -> Goroutines \cup {Nobody}]
       /\ res' \in [Goroutines -> Nat \X Outcome]
       /\ \/ pc' = [pc EXCEPT ![g] = "loop"] /\ param[g] = Nil /\ res' = res
          \/ /\ pc' = [pc EXCEPT ![g] = "done"] /\ param[g] # Nil
             /\ res' = [res EXCEPT ![g] = <<param[g], outcome>>]
  <2>1. CASE param[g] = Nil /\ Goto(g, "loop") /\ UNCHANGED <<chlock, res>>
    BY <1>1, <2>1 DEF Goto, ChanTypeOK
  <2>2. CASE param[g] # Nil /\ Finish(g, param[g], outcome) /\ chlock' = Unlocked(g)
    <3>1. chlock' \in [Chans -> Goroutines \cup {Nobody}]
      BY <1>1, <2>2 DEF Unlocked, ChanTypeOK
    <3>2. <<param[g], outcome>> \in Nat \X Outcome
      BY <1>1, <1>9 DEF ChanTypeOK
    <3>3. res' = [res EXCEPT ![g] = <<param[g], outcome>>] /\ pc' = [pc EXCEPT ![g] = "done"]
      BY <2>2 DEF Finish, Goto
    <3>4. res' \in [Goroutines -> Nat \X Outcome]
      <4> HIDE DEF Outcome
      <4> QED BY <1>1, <3>2, <3>3 DEF ChanTypeOK
    <3> QED BY <2>2, <3>1, <3>3, <3>4
  <2> QED BY <1>8, <2>1, <2>2
<1>11. /\ \/ pc'[g] = "loop" /\ param[g] = Nil /\ res'[g] = NoResult
          \/ pc'[g] = "done" /\ res'[g] # Default
       /\ \A h \in Goroutines : h # g => pc'[h] = pc[h] /\ res'[h] = res[h]
       /\ pc' \in [Goroutines -> Labels]
  BY <1>1, <1>5, <1>10 DEF ChanTypeOK, Labels, Default, Nil
<1>12. ChanTypeOK'
  <2>1. selectDone' \in [Goroutines -> BOOLEAN] /\ param' \in [Goroutines -> Nat]
    BY <1>1, <1>2 DEF ChanTypeOK, Nil
  <2> QED BY <1>1, <1>2, <1>3, <1>10, <1>11, <2>1 DEF ChanTypeOK, Labels
<1>13. /\ ~selectDone'[g] /\ param'[g] = Nil
       /\ \A h \in Goroutines : h # g => selectDone'[h] = selectDone[h] /\ param'[h] = param[h]
  BY <1>1, <1>2 DEF ChanTypeOK
<1>14. Placed(g)'
  BY <1>2, <1>5, <1>6, <1>11 DEF Placed
<1>15. WakeOK(g)'
  <2>1. ~Woken(g)'
    BY <1>7, <1>11 DEF Woken
  <2>2. SawClosed(g) => SawClosed(g)'
    <3> SUFFICES ASSUME SawClosed(g)
                 PROVE  SawClosed(g)'
      OBVIOUS
    <3>1. PICK i \in Indices(g) : op[g].cases[i].c # Nil /\ ch[op[g].cases[i].c].closed
      BY DEF SawClosed
    <3>2. op[g].cases[i].c \in Chans
      BY <1>1, <3>1, IndicesFact DEF Case
    <3> QED BY <1>2, <1>3, <3>1, <3>2 DEF SawClosed, Indices
  <2>3. pc'[g] = "loop" => SawClosed(g)
    BY <1>4, <1>11 DEF WakeOK
  <2> QED BY <1>13, <2>1, <2>2, <2>3 DEF WakeOK
<1>16. FastOK(g)' /\ DefaultOK(g)'
  BY <1>11, DefaultIsResult, HistoryFact
<1>17. ~Asleep(g)'
  BY <1>11 DEF Asleep
<1>18. ASSUME NEW c \in Chans, NEW dir \in Dirs
       PROVE  /\ ToSet(Queue(c, dir)') \subseteq ToSet(Queue(c, dir))
              /\ IsInjective(Queue(c, dir)) => IsInjective(Queue(c, dir)')
              /\ \A s \in ToSet(Queue(c, dir)) : s.g # g => s \in ToSet(Queue(c, dir)')
              /\ \A s \in ToSet(Queue(c, dir)') : s.g = g => Accounted(c, dir, s)' /\ (Live(s)' => Live(s))
  BY <1>3
<1>19. \A h \in Goroutines : h # g =>
         /\ pc'[h] = pc[h] /\ op'[h] = op[h] /\ param'[h] = param[h] /\ res'[h] = res[h]
         /\ commit'[h] = commit[h] /\ selectDone'[h] = selectDone[h]
         /\ Dequeued(h)' <=> Dequeued(h)
  BY <1>2, <1>7, <1>11, <1>13
<1>20. /\ \A h \in Goroutines : wakes'[h] \subseteq wakes[h]
       /\ \A c \in Chans : ch'[c].qcount = ch[c].qcount /\ ch'[c].closed = ch[c].closed
       /\ ~Dequeued(g)' /\ commit'[g] = {} /\ pc'[g] # "throw"
  BY <1>2, <1>3, <1>6, <1>7, <1>11
<1> QED BY <1>12, <1>14, <1>15, <1>16, <1>17, <1>18, <1>19, <1>20, OwnStep

-----------------------------------------------------------------------------
(* The inductive invariant                                                 *)

\* The invariant holds before the first call,
LEMMA ChanInvInit == Init => ChanInv
<1> SUFFICES ASSUME Init
             PROVE  ChanInv
  OBVIOUS
<1>1. /\ DOMAIN ch = Chans /\ \A c \in Chans : ch[c] = NewHchan(c)
      /\ \A g \in Goroutines : /\ pc[g] = "idle" /\ op[g] = NoOp /\ ~selectDone[g] /\ param[g] = Nil
                               /\ wakes[g] = {} /\ commit[g] = {} /\ res[g] = NoResult
      /\ DOMAIN op = Goroutines
  BY DEF Init, ChanInit
<1>2. \A c \in Chans : NewHchan(c) \in Hchan(c)
  <2> TAKE c \in Chans
  <2>1. Cap[c] \in Nat
    BY ChanAssumption
  <2>2. 0 \in 0 .. Cap[c] /\ 0 \in Slot(c) /\ <<>> \in Seq(Sudog)
    BY <2>1 DEF Slot
  <2>3. [i \in 0 .. Cap[c] - 1 |-> Nobody] \in [0 .. Cap[c] - 1 -> Value]
    BY DEF Value
  <2> QED BY <2>2, <2>3 DEF NewHchan, Hchan
<1>3. \A c \in Chans : ch[c].sendq = <<>> /\ ch[c].recvq = <<>>
  BY <1>1 DEF NewHchan
<1>4. ToSet(<<>>) = {} /\ IsInjective(<<>>) /\ DOMAIN <<>> = {}
  BY DEF ToSet, IsInjective
<1>5. ChanTypeOK
  <2>1. NoResult \in Nat \X Outcome
    BY DEF NoResult, Outcome, Value
  <2>2. res \in [Goroutines -> Nat \X Outcome]
    <3> HIDE DEF Outcome
    <3> QED BY <2>1 DEF Init, ChanInit
  <2> QED BY <1>1, <1>2, <2>2 DEF ChanTypeOK, Init, ChanInit, Nil, Value
<1>6. TypeOK /\ ProgramOK /\ NoThrow
  BY <1>1, <1>5 DEF Init, TypeOK, ProgramOK, NoThrow
<1>7. AllShaped
  BY <1>1, <1>3 DEF AllShaped, Shaped
<1>8. \A g \in Goroutines : ~Dequeued(g) /\ ~Asleep(g) /\ ~Woken(g)
  BY <1>1 DEF Dequeued, Asleep, Woken
<1>9. QueuesOK /\ CommitsOK
  <2>1. \A c \in Chans, dir \in Dirs : Queue(c, dir) = <<>>
    BY <1>3 DEF Queue, Field, Dirs
  <2> QED BY <1>1, <1>4, <2>1 DEF QueuesOK, CommitsOK
<1>10. PlaceInv /\ WakeInv /\ ReadyOnce /\ SleepersBlocked
  <2>1. PlaceInv
    BY <1>1 DEF PlaceInv
  <2>2. WakeInv
    BY <1>1, <1>8 DEF WakeInv
  <2> QED BY <1>1, <1>8, <2>1, <2>2 DEF ReadyOnce, SleepersBlocked
<1>11. FastInv /\ DefaultJustified
  BY <1>1, DefaultIsResult DEF FastInv, DefaultJustified, NotReady, InCall
<1>12. CoreInv
  BY <1>9, <1>10, QueuesEquiv DEF CoreInv
<1> QED BY <1>6, <1>7, <1>11, <1>12, InvEquiv

\* when nothing happens,
LEMMA StutterStep ==
  ASSUME ChanInv, UNCHANGED vars
  PROVE  ChanInv'
<1>1. /\ ch' = ch /\ chlock' = chlock /\ pc' = pc /\ op' = op /\ selectDone' = selectDone
      /\ param' = param /\ elem' = elem /\ wakes' = wakes /\ commit' = commit /\ res' = res
      /\ program' = program /\ missed' = missed
  BY DEF vars, chanVars
<1>2. /\ \A g \in Goroutines :
           /\ Dequeued(g)' <=> Dequeued(g)
           /\ Asleep(g)' <=> Asleep(g)
           /\ Woken(g)' <=> Woken(g)
           /\ SawClosed(g)' <=> SawClosed(g)
           /\ UnbufferedSend(g)' <=> UnbufferedSend(g)
           /\ Indices(g)' = Indices(g) /\ theCase(g)' = theCase(g) /\ CaseChans(g)' = CaseChans(g)
           /\ \A i : SudogOf(g, i)' = SudogOf(g, i)
      /\ \A s : Live(s)' <=> Live(s)
  BY <1>1 DEF Dequeued, Asleep, Woken, SawClosed, UnbufferedSend, Indices, theCase, CaseChans,
     SudogOf, Live
<1>3. \A g \in Goroutines : ReadyAt(g)' = ReadyAt(g) /\ (NotReady(g)' <=> NotReady(g))
  BY <1>1 DEF ReadyAt, Ready, Waiting, LiveIn, Live, NotReady, InCall, Indices
<1>4. TypeOK' /\ AllShaped' /\ ProgramOK'
  BY <1>1, InvEquiv DEF TypeOK, ChanTypeOK, AllShaped, Shaped, ProgramOK
<1>5. PlaceInv' /\ WakeInv' /\ NoThrow'
  BY <1>1, <1>2, InvEquiv DEF CoreInv, PlaceInv, WakeInv, NoThrow
<1>6. SudogInv' /\ SudogsOwned' /\ ReadyOnce'
  <2>1. \A c \in Chans, dir \in Dirs : Queue(c, dir)' = Queue(c, dir)
    BY <1>1 DEF Queue
  <2>2. ASSUME NEW c \in Chans, NEW dir \in Dirs, NEW s \in ToSet(Queue(c, dir))
        PROVE  Accounted(c, dir, s)'
    <3>1. s.g \in Goroutines /\ Accounted(c, dir, s)
      BY InvEquiv, SudogFact, QueuesEquiv DEF CoreInv, QueuesOK, TypeOK
    <3> QED BY <1>1, <1>2, <3>1 DEF Accounted
  <2>3. QueuesOK /\ CommitsOK /\ ReadyOnce
    BY InvEquiv, QueuesEquiv DEF CoreInv
  <2>4. QueuesOK' /\ CommitsOK' /\ ReadyOnce'
    BY <1>1, <2>1, <2>2, <2>3 DEF QueuesOK, CommitsOK, ReadyOnce
  <2> QED BY <2>4, QueuesEquiv, PTL
<1>7. SleepersBlocked'
  <2>1. CoreInv /\ ChanTypeOK
    BY InvEquiv DEF TypeOK
  <2>2. \A c \in Chans, dir \in Dirs : Queue(c, dir)' = Queue(c, dir)
    BY <1>1 DEF Queue
  <2>3. ASSUME NEW g \in Goroutines, Asleep(g)', NEW i \in Indices(g)'
        PROVE  Blocked(g, i)'
    <3>1. Indices(g)' = Indices(g) /\ op'[g] = op[g] /\ Asleep(g)
      BY <1>1, <1>2, <2>3
    <3>2. Blocked(g, i)
      BY <2>1, <2>3, <3>1, BlockedEquiv DEF CoreInv, AllBlocked
    <3>3. CASE op[g].cases[i].c = Nil
      BY <3>1, <3>3 DEF Blocked
    <3>4. CASE op[g].cases[i].c # Nil
      <4>1. op[g].cases[i] \in Case
        BY <2>1, <2>3, <3>1, IndicesFact
      <4>2. PICK c \in Chans, d \in Dirs, e \in Dirs :
              op[g].cases[i].c = c /\ op[g].cases[i].dir = d /\ Other[d] = e
        BY <3>4, <4>1, OtherFact DEF Case, Dirs
      <4> QED BY <1>1, <1>2, <2>2, <3>1, <3>2, <4>2 DEF Blocked
    <3> QED BY <3>3, <3>4
  <2>4. AllBlocked'
    BY <2>3 DEF AllBlocked
  <2> QED BY <2>1, <2>4, BlockedEquiv, PTL DEF CoreInv
<1>8. FastInv' /\ DefaultJustified'
  BY <1>1, <1>2, <1>3, InvEquiv DEF FastInv, DefaultJustified
<1>9. CoreInv'
  BY <1>5, <1>6, <1>7 DEF CoreInv
<1> QED BY <1>4, <1>5, <1>8, <1>9, InvEquiv, PTL

\* and after every step.
LEMMA ChanInvStep ==
  ASSUME ChanInv, [Next]_vars
  PROVE  ChanInv'
<1>1. ASSUME NEW g \in Goroutines, ChanStep(g), Observe
      PROVE  ChanInv'
  BY <1>1, OnNilStep, FastRead1Step, FastRead2Step, ChanOpStep, ChanWakeStep, CloseStep,
     GoreadyStep, ChanReturnStep DEF ChanStep
<1>2. ASSUME NEW g \in Goroutines, SelectStep(g), Observe
      PROVE  ChanInv'
  BY <1>2, SelLockStep, SelectReadyStep, SelectDefaultStep, SelectParkStep, SelectWakeStep,
     SelectPass3Step DEF SelectStep
<1>3. ASSUME NEW g \in Goroutines, Commit(g)
      PROVE  ChanInv'
  BY <1>3, CommitStep DEF Commit
<1>4. ASSUME NEW g \in Goroutines, InvokeAny(g)
      PROVE  ChanInv'
  BY <1>4, InvokeStep DEF InvokeAny
<1>5. CASE UNCHANGED vars
  BY <1>5, StutterStep
<1> QED BY <1>1, <1>2, <1>3, <1>4, <1>5 DEF Next, Run

\* It holds at all times.
LEMMA ChanInvAlways == Spec => []ChanInv
<1>1. ChanInv /\ [Next]_vars => ChanInv'
  BY ChanInvStep
<1> QED BY <1>1, ChanInvInit, PTL DEF Spec

-----------------------------------------------------------------------------
(* What the abstract channels see of each goroutine                        *)

\* What the abstract channels see of a goroutine, one place at a time.
ViewOf(g) ==
  /\ pc[g] = "idle" => SpecStatus(g) = Abstract!Idle
  /\ pc[g] = "done" => SpecStatus(g) = [phase |-> "done", op |-> op[g], res |-> res[g]]
  /\ InCall(g) /\ param[g] # Nil =>
       SpecStatus(g) = Abstract!Done(op[g], param[g],
                         IF op[g].cases[param[g]].dir = "send" THEN "sent" ELSE elem[g])
  /\ InCall(g) /\ param[g] = Nil /\ Asleep(g) => SpecStatus(g) = Abstract!Parked(op[g])
  /\ InCall(g) /\ param[g] = Nil /\ ~Asleep(g) => SpecStatus(g) = Abstract!Called(op[g])

Views == \A g \in Goroutines : ViewOf(g)

\* It sees exactly that.
LEMMA ViewsFact == Views
<1> SUFFICES ASSUME NEW g \in Goroutines
             PROVE  ViewOf(g)
  BY DEF Views
<1> QED BY DEF ViewOf, SpecStatus, InCall, Abstract!Idle, Abstract!Done, Abstract!Parked, Abstract!Called

\* The same, before and after a step.
LEMMA ViewFact ==
  ASSUME NEW g \in Goroutines
  PROVE  ViewOf(g) /\ ViewOf(g)'
<1>1. Views'
  BY ViewsFact, PTL
<1> QED BY <1>1, ViewsFact DEF Views

\* Nothing is seen of a goroutine that stays as it is.
LEMMA ViewSame ==
  ASSUME NEW h \in Goroutines, pc'[h] = pc[h], op'[h] = op[h], param'[h] = param[h],
         res'[h] = res[h], elem'[h] = elem[h] \/ param[h] = Nil, Asleep(h)' <=> Asleep(h)
  PROVE  SpecStatus(h)' = SpecStatus(h)
<1> QED BY DEF SpecStatus

\* A goroutine is parked for the abstract channels when it is asleep.
LEMMA PhaseFact ==
  ASSUME ChanInv, NEW g \in Goroutines
  PROVE  /\ SpecStatus(g).phase = "parked" <=> Asleep(g)
         /\ Asleep(g) => SpecStatus(g) = Abstract!Parked(op[g])
         /\ pc[g] \in {"fast", "fast2", "lock", "sellock", "loop"} => SpecStatus(g) = Abstract!Called(op[g])
         /\ pc[g] = "awake" /\ param[g] = Nil => SpecStatus(g) = Abstract!Called(op[g])
<1>1. ViewOf(g)
  BY ViewFact
<1>2. Asleep(g) => param[g] = Nil /\ InCall(g)
  BY InvEquiv DEF CoreInv, WakeInv, Woken, Asleep, InCall
<1>3. pc[g] \in {"fast", "fast2", "lock", "sellock", "loop"} => param[g] = Nil
  BY LocalFact
<1>4. pc[g] # "parked" => ~Asleep(g)
  BY DEF Asleep
<1>5. InCall(g) <=> pc[g] # "idle" /\ pc[g] # "done"
  BY DEF InCall
<1>6. SpecStatus(g).phase = "parked" => Asleep(g)
  BY <1>1, <1>2, <1>4, <1>5 DEF ViewOf, Abstract!Idle, Abstract!Done, Abstract!Parked, Abstract!Called
<1>7. Asleep(g) => SpecStatus(g) = Abstract!Parked(op[g])
  BY <1>1, <1>2 DEF ViewOf
<1>8. Asleep(g) => SpecStatus(g).phase = "parked"
  BY <1>7 DEF Abstract!Parked
<1> QED BY <1>1, <1>3, <1>4, <1>5, <1>6, <1>7, <1>8 DEF ViewOf

\* The cases of a goroutine that is called or parked for the abstract channels.
LEMMA CasesOfFact ==
  ASSUME NEW g \in Goroutines,
         \/ SpecStatus(g) = Abstract!Called(op[g])
         \/ SpecStatus(g) = Abstract!Parked(op[g]),
         NEW dir, NEW c
  PROVE  Abstract!CasesOf(g, dir, c) =
           {i \in Indices(g) : op[g].kind # "close" /\ op[g].cases[i] = [dir |-> dir, c |-> c]}
<1>1. SpecStatus(g).op = op[g]
  BY DEF Abstract!Called, Abstract!Parked
<1> QED BY <1>1 DEF Abstract!CasesOf, Indices

\* Its partners on a channel are those who sleep with such a case, which is those with
\* a live sudog in the queue.
LEMMA PartnersFact ==
  ASSUME ChanInv, NEW g \in Goroutines, ~Asleep(g), NEW c \in Chans, NEW dir \in Dirs
  PROVE  /\ Abstract!Partners(g, dir, c) =
              {h \in Goroutines : Asleep(h) /\ \E i \in Indices(h) : op[h].cases[i] = [dir |-> dir, c |-> c]}
         /\ \A s \in ToSet(Queue(c, dir)) : Live(s) =>
              s.g \in Abstract!Partners(g, dir, c) /\ s.case \in Abstract!CasesOf(s.g, dir, c)
         /\ Abstract!Partners(g, dir, c) = {} <=> LiveIn(Queue(c, dir)) = {}
<1> DEFINE P == {h \in Goroutines : Asleep(h) /\ \E i \in Indices(h) : op[h].cases[i] = [dir |-> dir, c |-> c]}
<1>1. ChanTypeOK /\ CoreInv
  BY InvEquiv DEF TypeOK
<1>2. ASSUME NEW h \in Goroutines, Asleep(h)
      PROVE  Abstract!CasesOf(h, dir, c) = {i \in Indices(h) : op[h].cases[i] = [dir |-> dir, c |-> c]}
  <2>1. op[h].kind # "close"
    BY <1>1, <1>2 DEF CoreInv, PlaceInv, Asleep
  <2> QED BY <1>2, <2>1, PhaseFact, CasesOfFact
<1>3. Abstract!Partners(g, dir, c) = {h \in Goroutines \ {g} : SpecStatus(h).phase = "parked" /\ Abstract!CasesOf(h, dir, c) # {}}
  BY DEF Abstract!Partners, Abstract!In
<1>4. Abstract!Partners(g, dir, c) = P
  BY <1>2, <1>3, PhaseFact
<1>5. ASSUME NEW s \in ToSet(Queue(c, dir)), Live(s)
      PROVE  s.g \in P /\ s.case \in Abstract!CasesOf(s.g, dir, c)
  <2>1. s.g \in Goroutines /\ s.case \in Indices(s.g) /\ Asleep(s.g)
    BY <1>1, <1>5, SudogFact
  <2>2. op[s.g].cases[s.case] = [dir |-> dir, c |-> c]
    BY <1>1, SudogCase
  <2> QED BY <1>2, <2>1, <2>2
<1>6. P = {} => LiveIn(Queue(c, dir)) = {}
  <2> SUFFICES ASSUME NEW k \in DOMAIN Queue(c, dir), Live(Queue(c, dir)[k])
               PROVE  P # {}
    BY DEF LiveIn
  <2>1. Queue(c, dir)[k] \in ToSet(Queue(c, dir))
    BY DEF ToSet
  <2> QED BY <1>5, <2>1
<1>7. ASSUME NEW h \in P
      PROVE  LiveIn(Queue(c, dir)) # {}
  <2>1. PICK i \in Indices(h) : op[h].cases[i] = [dir |-> dir, c |-> c]
    OBVIOUS
  <2>2. Blocked(h, i)
    BY <1>1, <2>1, BlockedEquiv DEF CoreInv, AllBlocked
  <2>3. c # Nil
    BY ChanAssumption DEF Nil
  <2>4. PICK s \in ToSet(Queue(c, dir)) : Live(s)
    BY <2>1, <2>2, <2>3 DEF Blocked
  <2> QED BY <2>4 DEF ToSet, LiveIn
<1> QED BY <1>4, <1>5, <1>6, <1>7

-----------------------------------------------------------------------------
(* The circular buffer as a queue                                          *)

\* The values of a circular buffer, the oldest first, and where its free slots begin.
Values(k, c) == [i \in 1 .. k.qcount |-> k.buf[(k.recvx + i - 1) % Cap[c]]]
Ring(k, c) == Cap[c] > 0 => k.sendx = (k.recvx + k.qcount) % Cap[c]

\* The slot i places after x.
Place(x, i, c) == IF x + i < Cap[c] THEN x + i ELSE x + i - Cap[c]

\* The remainder of a number below twice the divisor.
LEMMA WrapFact ==
  ASSUME NEW n \in Nat \ {0}, NEW x \in 0 .. n - 1, NEW i \in 0 .. n
  PROVE  /\ x + i < n => (x + i) % n = x + i
         /\ ~(x + i < n) => (x + i) % n = x + i - n
<1>1. \A y \in Nat : y < n => y % n = y
  OBVIOUS
<1>2. \A y \in Nat : y < n + n /\ ~(y < n) => y % n = y - n
  OBVIOUS
<1>3. x + i \in Nat /\ x + i < n + n
  OBVIOUS
<1>4. ASSUME x + i < n
      PROVE  (x + i) % n = x + i
  BY <1>1, <1>3, <1>4
<1>5. ASSUME ~(x + i < n)
      PROVE  (x + i) % n = x + i - n
  BY <1>2, <1>3, <1>5
<1> QED BY <1>4, <1>5

\* It gives that slot.
LEMMA PlaceFact ==
  ASSUME NEW c \in Chans, Cap[c] > 0, NEW x \in 0 .. Cap[c] - 1, NEW i \in 0 .. Cap[c]
  PROVE  (x + i) % Cap[c] = Place(x, i, c) /\ Place(x, i, c) \in 0 .. Cap[c] - 1
<1>1. Cap[c] \in Nat \ {0}
  BY ChanAssumption
<1>2. /\ x + i < Cap[c] => (x + i) % Cap[c] = x + i
      /\ ~(x + i < Cap[c]) => (x + i) % Cap[c] = x + i - Cap[c]
  BY <1>1, WrapFact, Zenon
<1>3. Place(x, i, c) \in 0 .. Cap[c] - 1
  BY <1>1 DEF Place
<1>4. CASE x + i < Cap[c]
  <2>1. Place(x, i, c) = x + i
    BY <1>4 DEF Place
  <2> QED BY <1>2, <1>3, <1>4, <2>1, Zenon
<1>5. CASE ~(x + i < Cap[c])
  <2>1. Place(x, i, c) = x + i - Cap[c]
    BY <1>5 DEF Place
  <2> QED BY <1>2, <1>3, <1>5, <2>1, Zenon
<1> QED BY <1>4, <1>5

\* The value i of a buffer.
LEMMA ValuesFact ==
  ASSUME NEW c \in Chans, NEW k \in Hchan(c)
  PROVE  /\ Cap[c] \in Nat /\ k.qcount \in Nat /\ k.qcount <= Cap[c]
         /\ Cap[c] > 0 => k.recvx \in 0 .. Cap[c] - 1 /\ k.sendx \in 0 .. Cap[c] - 1
         /\ Values(k, c) \in Seq(Value) /\ Len(Values(k, c)) = k.qcount
         /\ \A i \in 1 .. k.qcount :
              /\ Values(k, c)[i] = k.buf[Place(k.recvx, i - 1, c)]
              /\ Place(k.recvx, i - 1, c) \in 0 .. Cap[c] - 1
<1>1. Cap[c] \in Nat /\ k.qcount \in Nat /\ k.qcount <= Cap[c]
  BY ChanAssumption DEF Hchan
<1>2. Cap[c] > 0 => k.recvx \in 0 .. Cap[c] - 1 /\ k.sendx \in 0 .. Cap[c] - 1
  BY <1>1 DEF Hchan, Slot
<1>3. k.buf \in [0 .. Cap[c] - 1 -> Value]
  BY DEF Hchan
<1>4. ASSUME NEW i \in 1 .. k.qcount
      PROVE  /\ Values(k, c)[i] = k.buf[Place(k.recvx, i - 1, c)]
             /\ Place(k.recvx, i - 1, c) \in 0 .. Cap[c] - 1
             /\ Values(k, c)[i] \in Value
  <2>1. Cap[c] > 0 /\ i - 1 \in 0 .. Cap[c]
    BY <1>1
  <2>2. k.recvx \in Int /\ k.recvx + i - 1 = k.recvx + (i - 1)
    BY <1>2, <2>1
  <2>3. /\ (k.recvx + (i - 1)) % Cap[c] = Place(k.recvx, i - 1, c)
        /\ Place(k.recvx, i - 1, c) \in 0 .. Cap[c] - 1
    BY <1>2, <2>1, PlaceFact
  <2>4. Values(k, c)[i] = k.buf[(k.recvx + i - 1) % Cap[c]]
    BY DEF Values
  <2> QED BY <1>3, <2>2, <2>3, <2>4
<1>5. Values(k, c) \in [1 .. k.qcount -> Value]
  BY <1>4 DEF Values
<1> QED BY <1>1, <1>2, <1>4, <1>5
\* How many they are.
LEMMA CountFact ==
  ASSUME NEW c \in Chans, NEW k \in Hchan(c)
  PROVE  /\ Cap[c] \in Nat /\ k.qcount \in Nat /\ k.qcount <= Cap[c]
         /\ Len(Values(k, c)) = k.qcount
         /\ k.qcount = 0 => Values(k, c) = <<>>
<1>1. Cap[c] \in Nat /\ k.qcount \in Nat /\ k.qcount <= Cap[c]
  BY ValuesFact
<1>2. Values(k, c) \in Seq(Value) /\ Len(Values(k, c)) = k.qcount
  BY ValuesFact
<1>3. k.qcount = 0 => Values(k, c) = <<>>
  BY <1>2
<1> QED BY <1>1, <1>2, <1>3

\* The bounds of a count.
LEMMA CountCases ==
  ASSUME NEW n \in Nat, NEW m \in Nat, n <= m
  PROVE  /\ ~(n < m) => n = m
         /\ ~(m > 0 /\ n > 0) => n = 0
OBVIOUS

\* A count that is not zero.
LEMMA PositiveNat == \A m \in Nat : m # 0 => m > 0
OBVIOUS

\* Without slots there is nothing to say of their indices.
LEMMA EmptyRing ==
  ASSUME NEW c \in Chans, Cap[c] = 0, NEW k
  PROVE  Ring(k, c)
BY DEF Ring

\* A queue with somebody alive is not empty.
LEMMA LiveNonEmpty ==
  ASSUME NEW q, LiveIn(q) # {}
  PROVE  q # <<>>
BY DEF LiveIn
\* A value is put at the end.
Puts(h, k, v, c) ==
  /\ h \in Hchan(c) /\ k \in Hchan(c) /\ Ring(h, c) /\ h.qcount < Cap[c]
  /\ v \in Value /\ k.qcount = h.qcount + 1 /\ k.sendx = Advance(h.sendx, c)
  /\ k.recvx = h.recvx /\ k.buf = [h.buf EXCEPT ![h.sendx] = v]

\* What it does to the values.
LEMMA PutFact ==
  ASSUME NEW c \in Chans, NEW h, NEW k, NEW v, Puts(h, k, v, c)
  PROVE  Values(k, c) = Append(Values(h, c), v) /\ Ring(k, c)
<1> USE DEF Puts
<1>1. /\ Cap[c] \in Nat /\ Cap[c] > 0 /\ h.qcount \in Nat
      /\ h.recvx \in 0 .. Cap[c] - 1 /\ h.sendx \in 0 .. Cap[c] - 1
  BY ValuesFact
<1>2. h.sendx = Place(h.recvx, h.qcount, c)
  BY <1>1, PlaceFact DEF Ring
<1>3. Ring(k, c)
  <2>1. k.sendx = Place(h.recvx, h.qcount + 1, c)
    BY <1>1, <1>2 DEF Advance, Place
  <2> QED BY <1>1, <2>1, PlaceFact DEF Ring
<1>4. h.buf \in [0 .. Cap[c] - 1 -> Value]
  BY DEF Hchan
<1>5. ASSUME NEW i \in 1 .. h.qcount + 1
      PROVE  Values(k, c)[i] = Append(Values(h, c), v)[i]
  <2>1. /\ Values(k, c)[i] = k.buf[Place(h.recvx, i - 1, c)]
        /\ Place(h.recvx, i - 1, c) \in 0 .. Cap[c] - 1
    <3>1. i \in 1 .. k.qcount
      OBVIOUS
    <3>2. /\ Values(k, c)[i] = k.buf[Place(k.recvx, i - 1, c)]
          /\ Place(k.recvx, i - 1, c) \in 0 .. Cap[c] - 1
      BY <3>1, ValuesFact, Zenon
    <3> QED BY <3>2
  <2>2. CASE i = h.qcount + 1
    <3>1. Place(h.recvx, i - 1, c) = h.sendx
      BY <1>1, <1>2, <2>2
    <3> QED BY <1>1, <1>4, <2>1, <2>2, <3>1, ValuesFact
  <2>3. CASE i # h.qcount + 1
    <3>1. i \in 1 .. h.qcount
      BY <1>1, <2>3
    <3>2. Place(h.recvx, i - 1, c) # h.sendx
      BY <1>1, <1>2, <3>1 DEF Place
    <3>3. Values(h, c)[i] = h.buf[Place(h.recvx, i - 1, c)]
      BY <3>1, ValuesFact
    <3>4. Append(Values(h, c), v)[i] = Values(h, c)[i]
      BY <3>1, ValuesFact
    <3> QED BY <1>4, <2>1, <3>2, <3>3, <3>4
  <2> QED BY <2>2, <2>3
<1>6. Values(k, c) \in Seq(Value) /\ Len(Values(k, c)) = h.qcount + 1
  BY ValuesFact
<1>7. Append(Values(h, c), v) \in Seq(Value) /\ Len(Append(Values(h, c), v)) = h.qcount + 1
  BY ValuesFact
<1> QED BY <1>3, <1>5, <1>6, <1>7

\* The oldest value is taken.
Takes(h, k, v, c) ==
  /\ h \in Hchan(c) /\ k \in Hchan(c) /\ Ring(h, c) /\ h.qcount > 0
  /\ v \in Value /\ k.qcount = h.qcount - 1 /\ k.sendx = h.sendx
  /\ k.recvx = Advance(h.recvx, c) /\ k.buf = [h.buf EXCEPT ![h.recvx] = v]

\* What it does to the values.
LEMMA TakeFact ==
  ASSUME NEW c \in Chans, NEW h, NEW k, NEW v, Takes(h, k, v, c)
  PROVE  /\ Values(k, c) = Tail(Values(h, c)) /\ Ring(k, c)
         /\ Values(h, c) # <<>> /\ Head(Values(h, c)) = h.buf[h.recvx]
<1> USE DEF Takes
<1>1. /\ Cap[c] \in Nat /\ Cap[c] > 0 /\ h.qcount \in Nat /\ h.qcount <= Cap[c]
      /\ h.recvx \in 0 .. Cap[c] - 1 /\ h.sendx \in 0 .. Cap[c] - 1
  BY ValuesFact
<1>2. h.sendx = Place(h.recvx, h.qcount, c)
  BY <1>1, PlaceFact DEF Ring
<1>3. k.recvx \in 0 .. Cap[c] - 1 /\ \A i \in 0 .. Cap[c] - 1 : Place(k.recvx, i, c) = Place(h.recvx, i + 1, c)
  BY <1>1 DEF Advance, Place
<1>4. Ring(k, c)
  <2>1. h.qcount - 1 \in 0 .. Cap[c] - 1 /\ h.qcount - 1 + 1 = h.qcount
    BY <1>1
  <2>2. k.sendx = Place(k.recvx, h.qcount - 1, c)
    BY <1>2, <1>3, <2>1
  <2> QED BY <1>1, <1>3, <2>1, <2>2, PlaceFact DEF Ring
<1>5. h.buf \in [0 .. Cap[c] - 1 -> Value]
  BY DEF Hchan
<1>6. Values(h, c) \in Seq(Value) /\ Len(Values(h, c)) = h.qcount
  BY ValuesFact
<1>7. Head(Values(h, c)) = h.buf[h.recvx] /\ Values(h, c) # <<>>
  <2>1. Values(h, c)[1] = h.buf[Place(h.recvx, 1 - 1, c)]
    BY <1>1, ValuesFact
  <2>2. Place(h.recvx, 1 - 1, c) = h.recvx
    BY <1>1 DEF Place
  <2> QED BY <1>1, <1>6, <2>1, <2>2
<1>8. ASSUME NEW i \in 1 .. h.qcount - 1
      PROVE  Values(k, c)[i] = Tail(Values(h, c))[i]
  <2>1. Values(k, c)[i] = k.buf[Place(k.recvx, i - 1, c)]
    BY ValuesFact
  <2>2. i + 1 \in 1 .. h.qcount /\ i + 1 - 1 = i /\ i - 1 \in 0 .. Cap[c] - 1 /\ i - 1 + 1 = i
    BY <1>1
  <2>3. /\ Values(h, c)[i + 1] = h.buf[Place(h.recvx, i, c)]
        /\ Place(h.recvx, i, c) \in 0 .. Cap[c] - 1
    BY <2>2, ValuesFact
  <2>4. Place(k.recvx, i - 1, c) = Place(h.recvx, i, c)
    BY <1>3, <2>2
  <2>5. Place(h.recvx, i, c) # h.recvx
    BY <1>1 DEF Place
  <2>6. Tail(Values(h, c))[i] = Values(h, c)[i + 1]
    BY <1>1, <1>6, <1>7
  <2> QED BY <1>5, <2>1, <2>3, <2>4, <2>5, <2>6
<1>9. Values(k, c) \in Seq(Value) /\ Len(Values(k, c)) = h.qcount - 1
  BY ValuesFact
<1>10. Tail(Values(h, c)) \in Seq(Value) /\ Len(Tail(Values(h, c))) = h.qcount - 1
  BY <1>6, <1>7
<1> QED BY <1>4, <1>7, <1>8, <1>9, <1>10

\* The oldest value is taken from a full buffer, and another put in its slot.
Turns(h, k, v, c) ==
  /\ h \in Hchan(c) /\ k \in Hchan(c) /\ Cap[c] > 0 /\ h.qcount = Cap[c]
  /\ v \in Value /\ k.qcount = h.qcount
  /\ k.sendx = Advance(h.recvx, c) /\ k.recvx = Advance(h.recvx, c)
  /\ k.buf = [h.buf EXCEPT ![h.recvx] = v]

\* What it does to the values.
LEMMA TurnFact ==
  ASSUME NEW c \in Chans, NEW h, NEW k, NEW v, Turns(h, k, v, c)
  PROVE  /\ Values(k, c) = Tail(Append(Values(h, c), v)) /\ Ring(k, c)
         /\ Head(Append(Values(h, c), v)) = h.buf[h.recvx]
<1> USE DEF Turns
<1>1. /\ Cap[c] \in Nat /\ h.qcount \in Nat
      /\ h.recvx \in 0 .. Cap[c] - 1
  BY ValuesFact
<1>2. k.recvx \in 0 .. Cap[c] - 1 /\ \A i \in 0 .. Cap[c] - 1 : Place(k.recvx, i, c) = Place(h.recvx, i + 1, c)
  BY <1>1 DEF Advance, Place
<1>3. Ring(k, c)
  <2>1. Cap[c] \in 0 .. Cap[c]
    BY <1>1
  <2>2. Place(k.recvx, Cap[c], c) = k.recvx
    BY <1>1, <1>2 DEF Place
  <2> QED BY <1>1, <1>2, <2>1, <2>2, PlaceFact DEF Ring
<1>4. h.buf \in [0 .. Cap[c] - 1 -> Value]
  BY DEF Hchan
<1> DEFINE q == Append(Values(h, c), v)
<1>5. /\ q \in Seq(Value) /\ Len(q) = h.qcount + 1 /\ q # <<>>
      /\ (\A i \in 1 .. h.qcount : q[i] = Values(h, c)[i]) /\ q[h.qcount + 1] = v
  <2>1. Values(h, c) \in Seq(Value) /\ Len(Values(h, c)) = h.qcount
    BY ValuesFact
  <2>2. q \in Seq(Value) /\ Len(q) = h.qcount + 1
    BY <2>1
  <2>3. (\A i \in 1 .. h.qcount : q[i] = Values(h, c)[i]) /\ q[h.qcount + 1] = v
    BY <2>1
  <2>4. q # <<>>
    BY <1>1, <2>2
  <2> QED BY <2>2, <2>3, <2>4
<1> HIDE DEF q
<1>6. Head(q) = h.buf[h.recvx]
  <2>1. Values(h, c)[1] = h.buf[Place(h.recvx, 1 - 1, c)]
    BY <1>1, ValuesFact
  <2>2. Place(h.recvx, 1 - 1, c) = h.recvx
    BY <1>1 DEF Place
  <2> QED BY <1>1, <1>5, <2>1, <2>2
<1>7. ASSUME NEW i \in 1 .. h.qcount
      PROVE  Values(k, c)[i] = Tail(q)[i]
  <2>1. Values(k, c)[i] = k.buf[Place(k.recvx, i - 1, c)]
    BY ValuesFact
  <2>2. i - 1 \in 0 .. Cap[c] - 1 /\ i - 1 + 1 = i
    BY <1>1
  <2>3. Place(k.recvx, i - 1, c) = Place(h.recvx, i, c)
    BY <1>2, <2>2
  <2>4. Tail(q)[i] = q[i + 1]
    BY <1>1, <1>5
  <2>5. CASE i = h.qcount
    <3>1. Place(h.recvx, i, c) = h.recvx
      BY <1>1, <2>5 DEF Place
    <3> QED BY <1>1, <1>4, <1>5, <2>1, <2>3, <2>4, <2>5, <3>1
  <2>6. CASE i # h.qcount
    <3>1. i + 1 \in 1 .. h.qcount /\ i + 1 - 1 = i
      BY <1>1, <2>6
    <3>2. /\ Values(h, c)[i + 1] = h.buf[Place(h.recvx, i, c)]
          /\ Place(h.recvx, i, c) \in 0 .. Cap[c] - 1
      BY <3>1, ValuesFact
    <3>3. Place(h.recvx, i, c) # h.recvx
      BY <1>1, <2>6 DEF Place
    <3> QED BY <1>4, <1>5, <2>1, <2>3, <2>4, <3>1, <3>2, <3>3
  <2> QED BY <2>5, <2>6
<1>8. Values(k, c) \in Seq(Value) /\ Len(Values(k, c)) = h.qcount
  BY ValuesFact
<1>9. Tail(q) \in Seq(Value) /\ Len(Tail(q)) = h.qcount
  BY <1>1, <1>5
<1>10. Values(k, c) = Tail(q)
  BY <1>7, <1>8, <1>9
<1> QED BY <1>3, <1>6, <1>10 DEF q

-----------------------------------------------------------------------------
(* What a step has to show to refine ChanSpec                              *)

\* What a step has to show: it preserves what RefineInv adds to ChanInv, and the abstract
\* channels take a step or none.
Refined == RingInv' /\ WokenEmptyInv' /\ [Abstract!SpecNext]_Abstract!specVars

\* The abstract variables.
Queues == [c \in Chans |-> SpecQueue(c)]
Closed == {c \in Chans : ch[c].closed}
Status == [g \in Goroutines |-> SpecStatus(g)]

\* A step does not touch what a channel holds.
SameValues(c) ==
  /\ ch'[c].qcount = ch[c].qcount /\ ch'[c].sendx = ch[c].sendx
  /\ ch'[c].recvx = ch[c].recvx /\ ch'[c].buf = ch[c].buf
SameChans == \A c \in Chans : SameValues(c) /\ ch'[c].closed = ch[c].closed

\* Then the abstract channels are the same.
LEMMA SameChansFact ==
  ASSUME RingInv, SameChans
  PROVE  RingInv' /\ Queues' = Queues /\ Closed' = Closed
<1>1. \A c \in Chans : SpecQueue(c)' = SpecQueue(c)
  BY DEF SameChans, SameValues, SpecQueue
<1>2. Queues' = Queues
  BY <1>1 DEF Queues
<1>3. Closed' = Closed
  BY DEF Closed, SameChans
<1>4. RingInv'
  BY DEF RingInv, SameChans, SameValues
<1> QED BY <1>2, <1>3, <1>4

\* The status of everybody but g is the same.
LEMMA OneStatus ==
  ASSUME NEW g \in Goroutines, \A h \in Goroutines : h # g => SpecStatus(h)' = SpecStatus(h)
  PROVE  Status' = [Status EXCEPT ![g] = SpecStatus(g)']
BY DEF Status

\* WokenEmptyInv holds after a step that fills no closed channel, if it holds of those
\* it wakes.
LEMMA EmptyKept ==
  ASSUME RefineInv,
         \A c \in Chans : ch[c].closed /\ ch[c].qcount = 0 => ch'[c].qcount = 0,
         \A h \in Goroutines : Woken(h)' /\ param'[h] = Nil =>
           \/ Woken(h) /\ param[h] = Nil /\ op'[h] = op[h]
           \/ op'[h].kind = "chan" /\ theCase(h)'.dir = "recv" => ch'[theCase(h)'.c].qcount = 0
  PROVE  WokenEmptyInv'
<1> SUFFICES ASSUME NEW h \in Goroutines, Woken(h)', param'[h] = Nil,
                    op'[h].kind = "chan", theCase(h)'.dir = "recv"
             PROVE  ch'[theCase(h)'.c].qcount = 0
  BY DEF WokenEmptyInv
<1>1. ChanTypeOK /\ CoreInv
  BY InvEquiv DEF RefineInv, TypeOK
<1>2. CASE Woken(h) /\ param[h] = Nil /\ op'[h] = op[h]
  <2>1. theCase(h)' = theCase(h)
    BY <1>2 DEF theCase
  <2>2. ch[theCase(h).c].qcount = 0
    BY <1>2, <2>1 DEF RefineInv, WokenEmptyInv
  <2>3. Indices(h) = {1}
    BY <1>1, <1>2, TheCaseFact
  <2>4. SawClosed(h)
    BY <1>1, <1>2 DEF CoreInv, WakeInv
  <2>5. theCase(h).c # Nil /\ ch[theCase(h).c].closed
    BY <2>3, <2>4 DEF SawClosed, theCase
  <2>6. theCase(h).c \in Chans
    BY <1>1, <1>2, <2>5, TheCaseFact
  <2> QED BY <2>1, <2>2, <2>5, <2>6
<1> QED BY <1>2

\* A step that the abstract channels do not see.
LEMMA StutterRefines ==
  ASSUME RefineInv, SameChans,
         \A h \in Goroutines : SpecStatus(h)' = SpecStatus(h),
         \A h \in Goroutines : Woken(h)' /\ param'[h] = Nil => Woken(h) /\ param[h] = Nil /\ op'[h] = op[h]
  PROVE  Refined
<1>1. RingInv' /\ Queues' = Queues /\ Closed' = Closed
  BY SameChansFact DEF RefineInv
<1>2. Status' = Status
  BY DEF Status
<1>3. WokenEmptyInv'
  <2>1. \A c \in Chans : ch[c].closed /\ ch[c].qcount = 0 => ch'[c].qcount = 0
    BY DEF SameChans, SameValues
  <2> QED BY <2>1, EmptyKept
<1> QED BY <1>1, <1>2, <1>3 DEF Refined, Abstract!specVars, Queues, Closed, Status

\* g alone moves, and its status is that of the abstract step.
Alone(g) ==
  /\ \A h \in Goroutines : h # g =>
       pc'[h] = pc[h] /\ op'[h] = op[h] /\ param'[h] = param[h] /\ res'[h] = res[h] /\ elem'[h] = elem[h]
  /\ wakes' = wakes

\* Then nothing is seen of the others.
LEMMA AloneFact ==
  ASSUME NEW g \in Goroutines, Alone(g)
  PROVE  /\ \A h \in Goroutines : Dequeued(h)' <=> Dequeued(h)
         /\ \A h \in Goroutines : h # g => SpecStatus(h)' = SpecStatus(h) /\ (Woken(h)' <=> Woken(h))
         /\ Status' = [Status EXCEPT ![g] = SpecStatus(g)']
<1>1. \A h \in Goroutines : Dequeued(h)' <=> Dequeued(h)
  BY DEF Alone, Dequeued
<1>2. ASSUME NEW h \in Goroutines, h # g
      PROVE  SpecStatus(h)' = SpecStatus(h) /\ (Woken(h)' <=> Woken(h))
  <2>1. pc'[h] = pc[h] /\ op'[h] = op[h] /\ param'[h] = param[h] /\ res'[h] = res[h] /\ elem'[h] = elem[h]
    BY <1>2 DEF Alone
  <2>2. Asleep(h)' <=> Asleep(h)
    BY <1>1, <2>1 DEF Asleep
  <2>3. Woken(h)' <=> Woken(h)
    BY <1>1, <2>1 DEF Woken
  <2> QED BY <2>1, <2>2, <2>3, ViewSame
<1>3. Status' = [Status EXCEPT ![g] = SpecStatus(g)']
  BY <1>2, OneStatus
<1> QED BY <1>1, <1>2, <1>3

\* A step of g alone on channels that hold the same.
LEMMA AloneRefines ==
  ASSUME RefineInv, SameChans, NEW g \in Goroutines, Alone(g),
         Woken(g)' /\ param'[g] = Nil => Woken(g) /\ param[g] = Nil /\ op'[g] = op[g]
  PROVE  /\ RingInv' /\ WokenEmptyInv' /\ Queues' = Queues /\ Closed' = Closed
         /\ Status' = [Status EXCEPT ![g] = SpecStatus(g)']
         /\ SpecStatus(g)' = SpecStatus(g) => Refined
<1>1. RingInv' /\ Queues' = Queues /\ Closed' = Closed
  BY SameChansFact DEF RefineInv
<1>2. ASSUME NEW h \in Goroutines, Woken(h)', param'[h] = Nil
      PROVE  Woken(h) /\ param[h] = Nil /\ op'[h] = op[h]
  BY <1>2, AloneFact DEF Alone
<1>3. WokenEmptyInv'
  <2>1. \A c \in Chans : ch[c].closed /\ ch[c].qcount = 0 => ch'[c].qcount = 0
    BY DEF SameChans, SameValues
  <2> QED BY <1>2, <2>1, EmptyKept
<1>4. ASSUME SpecStatus(g)' = SpecStatus(g)
      PROVE  Refined
  <2>1. \A h \in Goroutines : SpecStatus(h)' = SpecStatus(h)
    BY <1>4, AloneFact
  <2> QED BY <1>2, <2>1, StutterRefines
<1> QED BY <1>1, <1>3, <1>4, AloneFact

\* A goroutine that finishes has its result for the abstract channels.
LEMMA FinishView ==
  ASSUME ChanTypeOK, NEW g \in Goroutines, NEW i, NEW x, Finish(g, i, x), op'[g] = op[g]
  PROVE  /\ SpecStatus(g)' = Abstract!Done(op[g], i, x)
         /\ \A h \in Goroutines : h # g => pc'[h] = pc[h] /\ res'[h] = res[h]
         /\ pc'[g] = "done" /\ ~Asleep(g)' /\ ~(Woken(g))'
<1>1. /\ pc'[g] = "done" /\ res'[g] = <<i, x>>
      /\ \A h \in Goroutines : h # g => pc'[h] = pc[h] /\ res'[h] = res[h]
  BY DEF Finish, Goto, ChanTypeOK
<1>2. (ViewOf(g))'
  BY ViewFact
<1>3. SpecStatus(g)' = [phase |-> "done", op |-> op[g], res |-> <<i, x>>]
  BY <1>1, <1>2 DEF ViewOf
<1> QED BY <1>1, <1>3 DEF Abstract!Done, Asleep, Woken

\* An operation that takes effect alone.
LEMMA EffectFact ==
  ASSUME NEW g \in Goroutines, SpecStatus(g) = Abstract!Called(op[g]),
         Status' = [Status EXCEPT ![g] = SpecStatus(g)'],
         NEW i, NEW x, SpecStatus(g)' = Abstract!Done(op[g], i, x)
  PROVE  Abstract!Effect(g, i, x)
<1>1. Status[g].op = op[g]
  BY DEF Status, Abstract!Called
<1>2. Status' = [Status EXCEPT ![g] = Abstract!Done(@.op, i, x)]
  BY <1>1
<1> QED BY <1>2 DEF Abstract!Effect, Status

\* A goroutine about to act on a channel has called for the abstract channels.
LEMMA CalledFact ==
  ASSUME RefineInv, NEW g \in Goroutines, pc[g] \in {"fast", "fast2", "lock", "sellock", "loop"}
  PROVE  /\ SpecStatus(g) = Abstract!Called(op[g]) /\ Abstract!In(g, "called")
         /\ ChanTypeOK /\ CoreInv /\ ~Asleep(g) /\ param[g] = Nil
<1>1. SpecStatus(g) = Abstract!Called(op[g])
  BY PhaseFact DEF RefineInv
<1>2. Abstract!In(g, "called")
  BY <1>1 DEF Abstract!In, Abstract!Called
<1>3. ChanTypeOK /\ CoreInv
  BY InvEquiv DEF RefineInv, TypeOK
<1>4. param[g] = Nil
  BY LocalFact DEF RefineInv
<1> QED BY <1>1, <1>2, <1>3, <1>4 DEF Asleep

\* A non-blocking operation gives up.
LEMMA GiveUpRefines ==
  ASSUME RefineInv, SameChans, NEW g \in Goroutines,
         pc[g] \in {"fast", "fast2", "lock", "sellock", "loop"}, ~op[g].block,
         Finish(g, 0, "default"), UNCHANGED <<op, param, elem, wakes>>
  PROVE  Refined
<1>1. SpecStatus(g) = Abstract!Called(op[g]) /\ Abstract!In(g, "called") /\ ChanTypeOK
  BY CalledFact
<1>2. SpecStatus(g)' = Abstract!Done(op[g], 0, "default") /\ ~(Woken(g))'
  BY <1>1, FinishView
<1>3. Alone(g)
  BY <1>1, FinishView DEF Alone
<1>4. /\ RingInv' /\ WokenEmptyInv' /\ Queues' = Queues /\ Closed' = Closed
      /\ Status' = [Status EXCEPT ![g] = SpecStatus(g)']
  BY <1>2, <1>3, AloneRefines
<1>5. Abstract!Effect(g, 0, "default")
  BY <1>1, <1>2, <1>4, EffectFact
<1>6. ~Status[g].op.block
  BY <1>1 DEF Status, Abstract!Called
<1>7. Abstract!GiveUp(g)
  BY <1>4, <1>5, <1>6 DEF Abstract!GiveUp, Status, Queues, Closed
<1>8. Abstract!SpecNext
  BY <1>1, <1>7 DEF Abstract!SpecNext
<1> QED BY <1>4, <1>8 DEF Refined

\* An operation that cannot proceed waits.
LEMMA ParkRefines ==
  ASSUME RefineInv, SameChans, NEW g \in Goroutines,
         pc[g] \in {"fast", "lock", "sellock", "loop"}, op[g].block, op[g].kind # "close",
         ReadyAt(g) = {}, Goto(g, "parked"), UNCHANGED <<op, param, elem, wakes, res>>
  PROVE  Refined
<1>1. /\ SpecStatus(g) = Abstract!Called(op[g]) /\ Abstract!In(g, "called") /\ ChanTypeOK /\ CoreInv
      /\ ~Asleep(g) /\ param[g] = Nil
  BY CalledFact
<1>2. pc'[g] = "parked" /\ \A h \in Goroutines : h # g => pc'[h] = pc[h]
  BY <1>1 DEF Goto, ChanTypeOK
<1>3. Alone(g)
  BY <1>2 DEF Alone
<1>4. ~Dequeued(g) /\ ~(Dequeued(g))'
  <2>1. ~Dequeued(g)
    BY NotDequeued DEF RefineInv
  <2> QED BY <1>3, <2>1, AloneFact
<1>5. (Asleep(g))' /\ ~(Woken(g))'
  BY <1>2, <1>4 DEF Asleep, Woken
<1>6. SpecStatus(g)' = Abstract!Parked(op[g])
  <2>1. (ViewOf(g))' /\ (InCall(g))'
    BY <1>2, ViewFact DEF InCall
  <2> QED BY <1>1, <1>5, <2>1 DEF ViewOf
<1>7. /\ RingInv' /\ WokenEmptyInv' /\ Queues' = Queues /\ Closed' = Closed
      /\ Status' = [Status EXCEPT ![g] = SpecStatus(g)']
  BY <1>3, <1>5, AloneRefines
<1>8. Status[g].op = op[g]
  BY <1>1 DEF Status, Abstract!Called
<1>9. Status' = [Status EXCEPT ![g] = Abstract!Parked(@.op)]
  BY <1>6, <1>7, <1>8
<1>10. ASSUME NEW c \in Chans, NEW dir \in Dirs, Abstract!CasesOf(g, dir, c) # {}
       PROVE  ~Ready([dir |-> dir, c |-> c])
  <2>1. PICK i \in Indices(g) : op[g].cases[i] = [dir |-> dir, c |-> c]
    BY <1>1, <1>10, CasesOfFact
  <2> QED BY <2>1 DEF ReadyAt
<1>11. ASSUME NEW c \in Chans
       PROVE  /\ c \in Closed <=> ch[c].closed
              /\ Len(Queues[c]) = ch[c].qcount
              /\ Queues[c] # <<>> => ch[c].qcount > 0
              /\ c # Nil /\ ch[c].qcount \in Nat /\ Cap[c] \in Nat
  <2>1. ch[c] \in Hchan(c)
    BY <1>1 DEF ChanTypeOK
  <2>2. Queues[c] = Values(ch[c], c)
    BY DEF Queues, SpecQueue, Values
  <2>3. Queues[c] \in Seq(Value) /\ Len(Queues[c]) = ch[c].qcount /\ ch[c].qcount \in Nat /\ Cap[c] \in Nat
    BY <2>1, <2>2, ValuesFact
  <2>4. c # Nil
    BY ChanAssumption DEF Nil
  <2>5. c \in Closed <=> ch[c].closed
    BY DEF Closed
  <2> QED BY <2>3, <2>4, <2>5
<1>12. ASSUME NEW c \in Chans, Abstract!CasesOf(g, "send", c) # {}
       PROVE  ~Abstract!CanSend(g, c)
  <2>1. ~Ready([dir |-> "send", c |-> c])
    BY <1>10, <1>12 DEF Dirs
  <2>2. ~ch[c].closed /\ LiveIn(Queue(c, "recv")) = {} /\ ~(ch[c].qcount < Cap[c])
    BY <1>11, <2>1 DEF Ready, Waiting, Queue, Other
  <2>3. Abstract!Partners(g, "recv", c) = {}
    BY <1>1, <2>2, PartnersFact DEF Dirs, RefineInv
  <2>4. Abstract!CanSend(g, c) <=> c \in Closed \/ Len(Queues[c]) < Cap[c] \/ Abstract!Partners(g, "recv", c) # {}
    BY Zenon DEF Abstract!CanSend, Closed, Queues
  <2> QED BY <1>11, <2>2, <2>3, <2>4
<1>13. ASSUME NEW c \in Chans, Abstract!CasesOf(g, "recv", c) # {}
       PROVE  ~Abstract!CanRecv(g, c)
  <2>1. ~Ready([dir |-> "recv", c |-> c])
    BY <1>10, <1>13 DEF Dirs
  <2>2. ~ch[c].closed /\ LiveIn(Queue(c, "send")) = {} /\ ~(ch[c].qcount > 0)
    BY <1>11, <2>1 DEF Ready, Waiting, Queue, Other
  <2>3. Abstract!Partners(g, "send", c) = {}
    BY <1>1, <2>2, PartnersFact DEF Dirs, RefineInv
  <2>4. Abstract!CanRecv(g, c) <=> c \in Closed \/ Queues[c] # <<>> \/ Abstract!Partners(g, "send", c) # {}
    BY Zenon DEF Abstract!CanRecv, Closed, Queues
  <2> QED BY <1>11, <2>2, <2>3, <2>4
<1>14. Status[g].op.block /\ Status[g].op.kind # "close"
  BY <1>8
<1>15. Abstract!Park(g)
  BY <1>7, <1>9, <1>12, <1>13, <1>14 DEF Abstract!Park, Status, Queues, Closed
<1>16. Abstract!SpecNext
  BY <1>1, <1>15 DEF Abstract!SpecNext
<1> QED BY <1>7, <1>16 DEF Refined

-----------------------------------------------------------------------------
(* The six ways in which a case proceeds                                   *)

\* What the abstract channels see when the channel c of hs changes.
Changes(hs, c) ==
  /\ ch'[c] \in Hchan(c) /\ hs[c] \in Hchan(c) /\ ch'[c].closed = ch[c].closed
  /\ Queues[c] = Values(hs[c], c) /\ Ring(hs[c], c)
  /\ Closed' = Closed
  /\ Queues' = [Queues EXCEPT ![c] = Values(ch'[c], c)]
  /\ Ring(ch'[c], c) => RingInv'
  /\ \A d \in Chans : d # c => ch'[d].qcount = ch[d].qcount
  /\ hs[c].qcount = ch[c].qcount /\ hs[c].closed = ch[c].closed

\* They see that, stale sudogs apart.
LEMMA BecomesView ==
  ASSUME RefineInv, NEW hs, Stripped(hs), NEW c \in Chans,
         NEW qcount, NEW sendx, NEW recvx, NEW buf, NEW sendq, NEW recvq,
         Becomes(hs, c, qcount, sendx, recvx, buf, sendq, recvq)
  PROVE  Changes(hs, c)
<1>1. ASSUME NEW d \in Chans
      PROVE  /\ hs[d].qcount = ch[d].qcount /\ hs[d].closed = ch[d].closed
             /\ hs[d].sendx = ch[d].sendx /\ hs[d].recvx = ch[d].recvx /\ hs[d].buf = ch[d].buf
             /\ d # c => ch'[d] = hs[d]
  BY DEF Stripped, Becomes
<1>2. ch'[c] \in Hchan(c) /\ hs[c] \in Hchan(c) /\ ch'[c].closed = ch[c].closed
  BY <1>1 DEF Stripped, Becomes
<1>3. \A d \in Chans : SpecQueue(d) = Values(hs[d], d)
  BY <1>1 DEF SpecQueue, Values
<1>4. \A d \in Chans : SpecQueue(d)' = Values(ch'[d], d)
  BY DEF SpecQueue, Values
<1>5. Queues' = [Queues EXCEPT ![c] = Values(ch'[c], c)]
  <2>1. \A d \in Chans : d # c => SpecQueue(d)' = SpecQueue(d)
    BY <1>1, <1>3, <1>4
  <2> QED BY <1>4, <2>1 DEF Queues
<1>6. Queues[c] = Values(hs[c], c)
  BY <1>3 DEF Queues
<1>7. Closed' = Closed
  BY <1>1, <1>2 DEF Closed
<1>8. Ring(hs[c], c)
  BY <1>1 DEF RefineInv, RingInv, Ring
<1>9. ASSUME Ring(ch'[c], c)
      PROVE  RingInv'
  BY <1>1, <1>9 DEF RefineInv, RingInv, Ring
<1> QED BY <1>1, <1>2, <1>5, <1>6, <1>7, <1>8, <1>9 DEF Changes

\* The case of g that proceeds.
LEMMA CaseRefines ==
  ASSUME RefineInv, NEW g \in Goroutines,
         pc[g] \in {"lock", "sellock", "loop"} \/ (pc[g] = "awake" /\ param[g] = Nil),
         op[g].kind # "close", NEW i \in Indices(g), NEW c \in Chans, c = op[g].cases[i].c,
         \/ op[g].cases[i].dir = "send" /\ Abstract!Send(g, i, c)
         \/ op[g].cases[i].dir = "recv" /\ Abstract!Recv(g, i, c)
  PROVE  Abstract!SpecNext
<1>1. SpecStatus(g) = Abstract!Called(op[g]) /\ Abstract!In(g, "called")
  <2>1. SpecStatus(g) = Abstract!Called(op[g])
    BY PhaseFact DEF RefineInv
  <2> QED BY <2>1 DEF Abstract!In, Abstract!Called
<1>2. Status[g].op = op[g]
  BY <1>1 DEF Status, Abstract!Called
<1>3. i \in DOMAIN Status[g].op.cases /\ Status[g].op.cases[i] = op[g].cases[i] /\ Status[g].op.kind # "close"
  BY <1>2 DEF Indices
<1>4. Abstract!Proceeds(g)
  BY <1>3 DEF Abstract!Proceeds, Status
<1> QED BY <1>1, <1>4 DEF Abstract!SpecNext

\* The abstract partners, and what examining other cases left of the queue.
LEMMA StrippedPartners ==
  ASSUME RefineInv, NEW g \in Goroutines, ~Asleep(g), NEW hs, Stripped(hs), NEW c \in Chans, NEW dir \in Dirs
  PROVE  /\ LiveIn(hs[c][Field[dir]]) = {} => Abstract!Partners(g, dir, c) = {}
         /\ LiveIn(hs[c][Field[dir]]) # {} => hs[c][Field[dir]] = Queue(c, dir)
<1>1. SameQueue(Queue(c, dir), hs[c][Field[dir]])
  BY DEF Stripped, Queue, Field, Dirs
<1>2. Abstract!Partners(g, dir, c) = {} <=> LiveIn(Queue(c, dir)) = {}
  BY PartnersFact DEF RefineInv
<1> QED BY <1>1, <1>2, SameLive

\* An operation that finds what it needs in the channel: what remains is the effect on
\* the buffer.
LEMMA QuietRefines ==
  ASSUME RefineInv, NEW g \in Goroutines, pc[g] \in {"lock", "sellock", "loop"}, UNCHANGED op,
         NEW i, NEW x, Finish(g, i, x), NoWake,
         \A c \in Chans : ch[c].closed /\ ch[c].qcount = 0 => ch'[c].qcount = 0
  PROVE  Abstract!Effect(g, i, x) /\ WokenEmptyInv'
<1>1. SpecStatus(g) = Abstract!Called(op[g]) /\ ChanTypeOK
  BY CalledFact
<1>2. SpecStatus(g)' = Abstract!Done(op[g], i, x) /\ ~(Woken(g))'
  BY <1>1, FinishView
<1>3. Alone(g)
  BY <1>1, FinishView DEF Alone, NoWake
<1>4. Status' = [Status EXCEPT ![g] = SpecStatus(g)']
  BY <1>3, AloneFact
<1>5. WokenEmptyInv'
  <2>1. \A h \in Goroutines : Woken(h)' /\ param'[h] = Nil => Woken(h) /\ param[h] = Nil /\ op'[h] = op[h]
    BY <1>2, <1>3, AloneFact DEF Alone
  <2> QED BY <2>1, EmptyKept
<1> QED BY <1>1, <1>2, <1>4, <1>5, EffectFact

\* A panic on a closed channel, or a receive from one.
LEMMA ClosedRefines ==
  ASSUME RefineInv, NEW g \in Goroutines, pc[g] \in {"lock", "sellock", "loop"}, UNCHANGED op,
         op[g].kind # "close", NEW i \in Indices(g), NEW c \in Chans, c = op[g].cases[i].c,
         NEW hs, Stripped(hs),
         \/ op[g].cases[i].dir = "send" /\ SendPanics(g, i, c, hs)
         \/ op[g].cases[i].dir = "recv" /\ RecvClosed(g, i, c, hs)
  PROVE  Refined
<1>1. ch' = hs /\ hs[c].closed /\ NoWake
  BY DEF SendPanics, RecvClosed
<1>2. SameChans
  BY <1>1 DEF Stripped, SameChans, SameValues
<1>3. RingInv' /\ Queues' = Queues /\ Closed' = Closed
  BY <1>2, SameChansFact DEF RefineInv
<1>4. \A d \in Chans : ch[d].closed /\ ch[d].qcount = 0 => ch'[d].qcount = 0
  BY <1>2 DEF SameChans, SameValues
<1>5. c \in Closed
  BY <1>1 DEF Closed, Stripped
<1>6. CASE op[g].cases[i].dir = "send" /\ SendPanics(g, i, c, hs)
  <2>1. Abstract!Effect(g, i, "panic") /\ WokenEmptyInv'
    BY <1>1, <1>4, <1>6, QuietRefines DEF SendPanics
  <2>2. Abstract!Send(g, i, c)
    BY <1>3, <1>5, <2>1 DEF Abstract!Send, Closed, Queues
  <2> QED BY <1>3, <1>6, <2>1, <2>2, CaseRefines DEF Refined
<1>7. CASE op[g].cases[i].dir = "recv" /\ RecvClosed(g, i, c, hs)
  <2>1. Abstract!Effect(g, i, "closed") /\ WokenEmptyInv'
    BY <1>1, <1>4, <1>7, QuietRefines DEF RecvClosed
  <2>2. Queues[c] = <<>>
    <3>1. hs[c].qcount = 0 /\ hs[c] \in Hchan(c)
      BY <1>7 DEF RecvClosed, Stripped
    <3>2. Queues[c] = Values(hs[c], c)
      BY ZenonT(40) DEF Queues, SpecQueue, Values, Stripped
    <3> QED BY <3>1, <3>2, CountFact, ZenonT(40)
  <2>3. Abstract!Recv(g, i, c)
    BY <1>3, <1>5, <2>1, <2>2 DEF Abstract!Recv, Closed, Queues
  <2> QED BY <1>3, <1>7, <2>1, <2>3, CaseRefines DEF Refined
<1> QED BY <1>6, <1>7

\* A send finds a free slot.
LEMMA SendToBufferRefines ==
  ASSUME RefineInv, NEW g \in Goroutines, pc[g] \in {"lock", "sellock", "loop"}, UNCHANGED op,
         op[g].kind # "close", NEW i \in Indices(g), NEW c \in Chans, c = op[g].cases[i].c,
         op[g].cases[i].dir = "send", NEW hs, Stripped(hs), SendToBuffer(g, i, c, hs)
  PROVE  Refined
<1>1. /\ ~hs[c].closed /\ LiveIn(hs[c].recvq) = {} /\ hs[c].qcount < Cap[c]
      /\ Finish(g, i, "sent") /\ NoWake
  BY ZenonT(40) DEF SendToBuffer
<1>2. Becomes(hs, c, hs[c].qcount + 1, Advance(hs[c].sendx, c), hs[c].recvx,
              [hs[c].buf EXCEPT ![hs[c].sendx] = g], hs[c].sendq, <<>>)
  BY SendToBufferFact
<1>3. /\ ch'[c] \in Hchan(c) /\ hs[c] \in Hchan(c) /\ Queues[c] = Values(hs[c], c) /\ Ring(hs[c], c)
      /\ Closed' = Closed /\ Queues' = [Queues EXCEPT ![c] = Values(ch'[c], c)]
      /\ Ring(ch'[c], c) => RingInv'
      /\ \A d \in Chans : d # c => ch'[d].qcount = ch[d].qcount
      /\ hs[c].qcount = ch[c].qcount /\ hs[c].closed = ch[c].closed
  <2>1. Changes(hs, c)
    BY <1>2, BecomesView, ZenonT(40)
  <2> QED BY <2>1 DEF Changes
<1>4. Values(ch'[c], c) = Append(Values(hs[c], c), g) /\ Ring(ch'[c], c)
  <2>1. /\ ch'[c].qcount = hs[c].qcount + 1 /\ ch'[c].sendx = Advance(hs[c].sendx, c)
        /\ ch'[c].recvx = hs[c].recvx /\ ch'[c].buf = [hs[c].buf EXCEPT ![hs[c].sendx] = g]
    BY <1>2, ZenonT(40) DEF Becomes
  <2>2. g \in Value
    BY DEF Value
  <2> DEFINE h == hs[c]
             k == ch'[c]
  <2>3. Puts(h, k, g, c)
    BY <1>1, <1>3, <2>1, <2>2, ZenonT(40) DEF Puts
  <2> HIDE DEF h, k
  <2>4. \A x : Puts(h, k, x, c) => Values(k, c) = Append(Values(h, c), x) /\ Ring(k, c)
    BY PutFact, SMTT(40)
  <2>5. Values(k, c) = Append(Values(h, c), g) /\ Ring(k, c)
    BY <2>3, <2>4, ZenonT(40)
  <2> QED BY <2>5, ZenonT(40) DEF h, k
<1>5. Queues' = [Queues EXCEPT ![c] = Append(@, g)]
  BY <1>3, <1>4, ZenonT(40)
<1>6. Abstract!Effect(g, i, "sent") /\ WokenEmptyInv'
  <2>1. \A d \in Chans : ch[d].closed /\ ch[d].qcount = 0 => ch'[d].qcount = 0
    BY <1>1, <1>3
  <2> QED BY <1>1, <2>1, QuietRefines
<1>7. c \notin Closed
  BY <1>1 DEF Closed, Stripped
<1>8. Abstract!Partners(g, "recv", c) = {}
  <2>1. ~Asleep(g)
    BY CalledFact
  <2>2. LiveIn(hs[c][Field["recv"]]) = {}
    BY <1>1 DEF Field
  <2> QED BY <2>1, <2>2, StrippedPartners DEF Dirs
<1>9. Len(Queues[c]) < Cap[c]
  <2>1. Len(Queues[c]) = hs[c].qcount
    BY <1>3, CountFact, ZenonT(40)
  <2> QED BY <1>1, <2>1, ZenonT(40)
<1>10. Abstract!Send(g, i, c)
  BY <1>3, <1>5, <1>6, <1>7, <1>8, <1>9, ZenonT(40) DEF Abstract!Send, Closed, Queues
<1>11. Abstract!SpecNext
  BY <1>10, CaseRefines
<1> QED BY <1>3, <1>4, <1>6, <1>11, ZenonT(40) DEF Refined

\* A receive finds a value, and nobody waits to send.
LEMMA RecvFromBufferRefines ==
  ASSUME RefineInv, NEW g \in Goroutines, pc[g] \in {"lock", "sellock", "loop"}, UNCHANGED op,
         op[g].kind # "close", NEW i \in Indices(g), NEW c \in Chans, c = op[g].cases[i].c,
         op[g].cases[i].dir = "recv", NEW hs, Stripped(hs), RecvFromBuffer(g, i, c, hs)
  PROVE  Refined
<1>1. /\ LiveIn(hs[c].sendq) = {} /\ hs[c].qcount > 0
      /\ Finish(g, i, hs[c].buf[hs[c].recvx]) /\ NoWake
  BY ZenonT(40) DEF RecvFromBuffer
<1>2. Becomes(hs, c, hs[c].qcount - 1, hs[c].sendx, Advance(hs[c].recvx, c),
              [hs[c].buf EXCEPT ![hs[c].recvx] = Nobody], <<>>, hs[c].recvq)
  BY RecvFromBufferFact
<1>3. /\ ch'[c] \in Hchan(c) /\ hs[c] \in Hchan(c) /\ Queues[c] = Values(hs[c], c) /\ Ring(hs[c], c)
      /\ Closed' = Closed /\ Queues' = [Queues EXCEPT ![c] = Values(ch'[c], c)]
      /\ Ring(ch'[c], c) => RingInv'
      /\ \A d \in Chans : d # c => ch'[d].qcount = ch[d].qcount
      /\ hs[c].qcount = ch[c].qcount /\ hs[c].closed = ch[c].closed
  <2>1. Changes(hs, c)
    BY <1>2, BecomesView, ZenonT(40)
  <2> QED BY <2>1 DEF Changes
<1>4. /\ Values(ch'[c], c) = Tail(Values(hs[c], c)) /\ Ring(ch'[c], c)
      /\ Values(hs[c], c) # <<>> /\ Head(Values(hs[c], c)) = hs[c].buf[hs[c].recvx]
  <2>1. /\ ch'[c].qcount = hs[c].qcount - 1 /\ ch'[c].recvx = Advance(hs[c].recvx, c)
        /\ ch'[c].sendx = hs[c].sendx /\ ch'[c].buf = [hs[c].buf EXCEPT ![hs[c].recvx] = Nobody]
    BY <1>2, ZenonT(40) DEF Becomes
  <2>2. Nobody \in Value
    BY DEF Value
  <2> DEFINE h == hs[c]
             k == ch'[c]
  <2>3. Takes(h, k, Nobody, c)
    BY <1>1, <1>3, <2>1, <2>2, ZenonT(40) DEF Takes
  <2> HIDE DEF h, k
  <2>4. /\ Values(k, c) = Tail(Values(h, c)) /\ Ring(k, c)
        /\ Values(h, c) # <<>> /\ Head(Values(h, c)) = h.buf[h.recvx]
    BY <2>3, TakeFact, ZenonT(40)
  <2> QED BY <2>4, ZenonT(40) DEF h, k
<1>5. Queues' = [Queues EXCEPT ![c] = Tail(@)]
  BY <1>3, <1>4, ZenonT(40)
<1>6. Abstract!Effect(g, i, Head(Queues[c])) /\ WokenEmptyInv'
  <2>1. \A d \in Chans : ch[d].closed /\ ch[d].qcount = 0 => ch'[d].qcount = 0
    <3>1. hs[c].qcount # 0
      <4>1. hs[c].qcount \in Nat
        BY <1>3, ValuesFact
      <4>2. \A n \in Nat : n > 0 => n # 0
        OBVIOUS
      <4> QED BY <1>1, <4>1, <4>2, Zenon
    <3> QED BY <1>3, <3>1
  <2> QED BY <1>1, <1>3, <1>4, <2>1, QuietRefines, ZenonT(40)
<1>7. Abstract!Partners(g, "send", c) = {}
  <2>1. ~Asleep(g)
    BY CalledFact
  <2>2. LiveIn(hs[c][Field["send"]]) = {}
    BY <1>1, ZenonT(40) DEF Field
  <2> QED BY <2>1, <2>2, StrippedPartners DEF Dirs
<1>8. Queues[c] # <<>>
  BY <1>3, <1>4, ZenonT(40)
<1>9. Abstract!Recv(g, i, c)
  BY <1>3, <1>4, <1>5, <1>6, <1>7, <1>8, ZenonT(40) DEF Abstract!Recv, Closed, Queues
<1>10. Abstract!SpecNext
  BY <1>9, CaseRefines
<1> QED BY <1>3, <1>4, <1>6, <1>10, ZenonT(40) DEF Refined

\* g finishes, having dequeued the goroutine that waits in direction e.
LEMMA ClaimRefines ==
  ASSUME RefineInv, NEW g \in Goroutines, pc[g] \in {"lock", "sellock", "loop"}, UNCHANGED op,
         NEW i, NEW v, Finish(g, i, v),
         NEW c \in Chans, NEW e \in Dirs, LiveIn(Queue(c, e)) # {},
         NEW r, r = First(Queue(c, e)), NEW x, Claim(g, r, r.case, x),
         \A d \in Chans : ch'[d].qcount = ch[d].qcount
  PROVE  /\ r \in Sudog /\ r.g \in Abstract!Partners(g, e, c) /\ r.case \in Abstract!CasesOf(r.g, e, c)
         /\ Abstract!JointEffect(g, i, v, r.g, r.case, IF e = "send" THEN "sent" ELSE x)
         /\ WokenEmptyInv'
<1>1. SpecStatus(g) = Abstract!Called(op[g]) /\ ChanTypeOK /\ CoreInv /\ ~Asleep(g)
  BY CalledFact
<1>2. r \in ToSet(Queue(c, e)) /\ Live(r)
  <2>1. Queue(c, e) \in Seq(Sudog)
    BY <1>1, QueueType
  <2> QED BY <2>1, RestFact
<1> DEFINE w == r.g
<1>3. /\ r \in Sudog /\ w \in Goroutines /\ Asleep(w) /\ r.case \in Nat \ {0}
      /\ op[w].cases[r.case] = [dir |-> e, c |-> c]
  BY <1>1, <1>2, SudogFact, SudogCase
<1>4. w \in Abstract!Partners(g, e, c) /\ r.case \in Abstract!CasesOf(w, e, c)
  BY <1>1, <1>2, PartnersFact DEF RefineInv
<1>5. w # g /\ pc[w] = "parked" /\ ~Dequeued(w)
  BY <1>1, <1>3 DEF Asleep
<1>6. /\ param' = [param EXCEPT ![w] = r.case] /\ elem' = [elem EXCEPT ![w] = x]
      /\ wakes' = [wakes EXCEPT ![g] = {w}]
  BY DEF Claim
<1>7. /\ SpecStatus(g)' = Abstract!Done(op[g], i, v) /\ ~(Woken(g))'
      /\ \A h \in Goroutines : h # g => pc'[h] = pc[h] /\ res'[h] = res[h]
  BY <1>1, FinishView
<1> HIDE DEF w
<1>8. param'[w] = r.case /\ param'[w] # Nil /\ elem'[w] = x
  BY <1>1, <1>3, <1>6 DEF ChanTypeOK, Nil
<1>9. wakes[g] = {}
  BY <1>1 DEF CoreInv, PlaceInv
<1>10. \A h \in Goroutines : h # w => (Dequeued(h)' <=> Dequeued(h))
  <2>1. \A f \in Goroutines : wakes'[f] = IF f = g THEN {w} ELSE wakes[f]
    BY <1>1, <1>6 DEF ChanTypeOK
  <2> QED BY <1>9, <2>1 DEF Dequeued
<1>11. ASSUME NEW h \in Goroutines, h # g, h # w
       PROVE  SpecStatus(h)' = SpecStatus(h) /\ (Woken(h)' <=> Woken(h)) /\ param'[h] = param[h]
  <2>1. pc'[h] = pc[h] /\ op'[h] = op[h] /\ param'[h] = param[h] /\ res'[h] = res[h] /\ elem'[h] = elem[h]
    BY <1>1, <1>6, <1>7, <1>11 DEF ChanTypeOK
  <2>2. (Asleep(h)' <=> Asleep(h)) /\ (Woken(h)' <=> Woken(h))
    BY <1>10, <1>11, <2>1 DEF Asleep, Woken
  <2> QED BY <2>1, <2>2, ViewSame
<1>12. SpecStatus(w)' = Abstract!Done(op[w], r.case, IF e = "send" THEN "sent" ELSE x)
  <2>1. (ViewOf(w))' /\ (InCall(w))'
    BY <1>3, <1>5, <1>7, ViewFact DEF InCall
  <2>2. op'[w].cases[param'[w]].dir = e
    BY <1>3, <1>8
  <2> QED BY <1>8, <2>1, <2>2 DEF ViewOf
<1>13. SpecStatus(w) = Abstract!Parked(op[w])
  BY <1>3, PhaseFact DEF RefineInv
<1>14. Status[g].op = op[g] /\ Status[w].op = op[w]
  BY <1>1, <1>3, <1>13 DEF Status, Abstract!Called, Abstract!Parked
<1>15. Status' = [Status EXCEPT ![g] = SpecStatus(g)', ![w] = SpecStatus(w)']
  BY <1>3, <1>5, <1>11 DEF Status
<1>16. Status' = [Status EXCEPT ![g] = Abstract!Done(@.op, i, v),
                               ![w] = Abstract!Done(@.op, r.case, IF e = "send" THEN "sent" ELSE x)]
  BY <1>3, <1>5, <1>7, <1>12, <1>14, <1>15
<1>17. Abstract!JointEffect(g, i, v, w, r.case, IF e = "send" THEN "sent" ELSE x)
  BY <1>16 DEF Abstract!JointEffect, Status
<1>18. WokenEmptyInv'
  <2>1. \A h \in Goroutines : Woken(h)' /\ param'[h] = Nil => Woken(h) /\ param[h] = Nil /\ op'[h] = op[h]
    BY <1>7, <1>8, <1>11
  <2>2. \A d \in Chans : ch[d].closed /\ ch[d].qcount = 0 => ch'[d].qcount = 0
    OBVIOUS
  <2> QED BY <2>1, <2>2, EmptyKept
<1> QED BY <1>3, <1>4, <1>17, <1>18 DEF w

\* A send finds a receiver that waits.
LEMMA SendToReceiverRefines ==
  ASSUME RefineInv, NEW g \in Goroutines, pc[g] \in {"lock", "sellock", "loop"}, UNCHANGED op,
         op[g].kind # "close", NEW i \in Indices(g), NEW c \in Chans, c = op[g].cases[i].c,
         op[g].cases[i].dir = "send", NEW hs, Stripped(hs), SendToReceiver(g, i, c, hs)
  PROVE  Refined
<1> DEFINE r == First(Queue(c, "recv"))
<1>1. /\ ~hs[c].closed /\ LiveIn(hs[c].recvq) # {} /\ Finish(g, i, "sent")
      /\ Claim(g, First(hs[c].recvq), First(hs[c].recvq).case, g)
  BY ZenonT(40) DEF SendToReceiver
<1>2. hs[c].recvq = Queue(c, "recv") /\ Queue(c, "recv") = ch[c].recvq
  <2>1. SameQueue(ch[c].recvq, hs[c].recvq)
    BY DEF Stripped
  <2>2. hs[c].recvq = ch[c].recvq
    BY <1>1, <2>1, SameLive, ZenonT(40)
  <2> QED BY <2>2, QueueNames
<1>3. Changes(hs, c) /\ ch'[c].qcount = hs[c].qcount /\ ch'[c].sendx = hs[c].sendx
      /\ ch'[c].recvx = hs[c].recvx /\ ch'[c].buf = hs[c].buf
  <2>1. Becomes(hs, c, hs[c].qcount, hs[c].sendx, hs[c].recvx, hs[c].buf, hs[c].sendq, Rest(hs[c].recvq))
    BY SendToReceiverFact
  <2>2. Changes(hs, c)
    BY <2>1, BecomesView
  <2> QED BY <2>1, <2>2 DEF Becomes
<1>4. Values(ch'[c], c) = Values(hs[c], c) /\ (Ring(hs[c], c) => Ring(ch'[c], c))
  BY <1>3 DEF Values, Ring
<1>5. RingInv' /\ Closed' = Closed /\ Queues' = Queues /\ Queues[c] = Values(hs[c], c)
  <2>1. /\ RingInv' /\ Closed' = Closed /\ Queues[c] = Values(hs[c], c)
        /\ Queues' = [Queues EXCEPT ![c] = Values(hs[c], c)]
    BY <1>3, <1>4, ZenonT(40) DEF Changes
  <2>2. [Queues EXCEPT ![c] = Queues[c]] = Queues
    BY DEF Queues
  <2> QED BY <2>1, <2>2
<1>6. Queues[c] = <<>> /\ c \notin Closed
  <2>1. hs[c] \in Hchan(c) /\ hs[c].qcount = ch[c].qcount /\ hs[c].closed = ch[c].closed
    BY <1>3 DEF Changes
  <2>2. ch[c].recvq # <<>>
    BY <1>1, <1>2, LiveNonEmpty, ZenonT(40)
  <2>3. Shaped(c, ch[c])
    BY InvEquiv DEF RefineInv, AllShaped
  <2>4. hs[c].qcount = 0
    <3>1. ch[c].qcount \in Nat /\ Cap[c] \in Nat /\ ch[c].qcount <= Cap[c]
      BY <2>1, CountFact, ZenonT(40)
    <3>2. ~(Cap[c] > 0 /\ ch[c].qcount > 0)
      BY <2>2, <2>3, ZenonT(40) DEF Shaped
    <3>3. ch[c].qcount = 0
      BY <3>1, <3>2, CountCases, ZenonT(40)
    <3> QED BY <2>1, <3>3, ZenonT(40)
  <2>5. Values(hs[c], c) = <<>>
    BY <2>1, <2>4, CountFact, ZenonT(40)
  <2> QED BY <1>1, <1>5, <2>1, <2>5, ZenonT(40) DEF Closed
<1>7. /\ r.g \in Abstract!Partners(g, "recv", c) /\ r.case \in Abstract!CasesOf(r.g, "recv", c)
      /\ Abstract!JointEffect(g, i, "sent", r.g, r.case, g) /\ WokenEmptyInv'
  <2>1. LiveIn(Queue(c, "recv")) # {} /\ Claim(g, r, r.case, g)
    BY <1>1, <1>2
  <2>2. \A d \in Chans : ch'[d].qcount = ch[d].qcount
    BY <1>3 DEF Changes
  <2>3. "recv" \in Dirs /\ "recv" # "send"
    BY DEF Dirs
  <2> HIDE DEF r
  <2>4. r = First(Queue(c, "recv"))
    BY DEF r
  <2> QED BY <1>1, <2>1, <2>2, <2>3, <2>4, ClaimRefines, ZenonT(40)
<1> HIDE DEF r
<1>8. Abstract!Send(g, i, c)
  BY <1>5, <1>6, <1>7 DEF Abstract!Send, Closed, Queues
<1>9. Abstract!SpecNext
  BY <1>8, CaseRefines
<1> QED BY <1>5, <1>7, <1>9 DEF Refined

\* A receive finds a sender that waits: its value comes next after those in the full
\* buffer.
LEMMA RecvFromSenderRefines ==
  ASSUME RefineInv, NEW g \in Goroutines, pc[g] \in {"lock", "sellock", "loop"}, UNCHANGED op,
         op[g].kind # "close", NEW i \in Indices(g), NEW c \in Chans, c = op[g].cases[i].c,
         op[g].cases[i].dir = "recv", NEW hs, Stripped(hs), RecvFromSender(g, i, c, hs)
  PROVE  Refined
<1>1. LiveIn(hs[c].sendq) # {} /\ Claim(g, First(hs[c].sendq), First(hs[c].sendq).case, Nobody)
  BY ZenonT(40) DEF RecvFromSender
<1>2. hs[c].sendq = Queue(c, "send") /\ Queue(c, "send") = ch[c].sendq
  <2>1. SameQueue(ch[c].sendq, hs[c].sendq)
    BY DEF Stripped
  <2>2. hs[c].sendq = ch[c].sendq
    BY <1>1, <2>1, SameLive, ZenonT(40)
  <2> QED BY <2>2, QueueNames
<1> DEFINE s == First(Queue(c, "send"))
           full == Append(Queues[c], s.g)
<1>3. Changes(hs, c) /\ ch'[c].qcount = hs[c].qcount
  <2>1. IF Cap[c] = 0
          THEN Becomes(hs, c, hs[c].qcount, hs[c].sendx, hs[c].recvx, hs[c].buf,
                       Rest(hs[c].sendq), hs[c].recvq)
          ELSE Becomes(hs, c, hs[c].qcount, Advance(hs[c].recvx, c), Advance(hs[c].recvx, c),
                       [hs[c].buf EXCEPT ![hs[c].recvx] = First(hs[c].sendq).g],
                       Rest(hs[c].sendq), hs[c].recvq)
    BY RecvFromSenderFact
  <2>2. CASE Cap[c] = 0
    <3>1. Becomes(hs, c, hs[c].qcount, hs[c].sendx, hs[c].recvx, hs[c].buf,
                  Rest(hs[c].sendq), hs[c].recvq)
      BY <2>1, <2>2, ZenonT(40)
    <3>2. Changes(hs, c)
      BY <3>1, BecomesView
    <3> QED BY <3>1, <3>2 DEF Becomes
  <2>3. CASE Cap[c] # 0
    <3>1. Becomes(hs, c, hs[c].qcount, Advance(hs[c].recvx, c), Advance(hs[c].recvx, c),
                  [hs[c].buf EXCEPT ![hs[c].recvx] = First(hs[c].sendq).g],
                  Rest(hs[c].sendq), hs[c].recvq)
      BY <2>1, <2>3, ZenonT(40)
    <3>2. Changes(hs, c)
      BY <3>1, BecomesView, ZenonT(40)
    <3> QED BY <3>1, <3>2, ZenonT(40) DEF Becomes
  <2> QED BY <2>2, <2>3
<1>4. /\ ch'[c] \in Hchan(c) /\ hs[c] \in Hchan(c) /\ Queues[c] = Values(hs[c], c) /\ Ring(hs[c], c)
      /\ Closed' = Closed /\ Queues' = [Queues EXCEPT ![c] = Values(ch'[c], c)]
      /\ Ring(ch'[c], c) => RingInv'
      /\ \A d \in Chans : d # c => ch'[d].qcount = ch[d].qcount
      /\ hs[c].qcount = ch[c].qcount
  BY <1>3 DEF Changes
<1>5. hs[c].qcount = Cap[c] /\ Cap[c] \in Nat
  <2>1. ch[c].sendq # <<>>
    BY <1>1, <1>2, LiveNonEmpty, ZenonT(40)
  <2>2. Shaped(c, ch[c])
    BY InvEquiv DEF RefineInv, AllShaped
  <2>3. ~(hs[c].qcount < Cap[c])
    BY <1>4, <2>1, <2>2, ZenonT(40) DEF Shaped
  <2>4. Cap[c] \in Nat /\ hs[c].qcount \in Nat /\ hs[c].qcount <= Cap[c]
    BY <1>4, CountFact, ZenonT(40)
  <2> QED BY <2>3, <2>4, CountCases, ZenonT(40)
<1>6. s.g \in Goroutines
  <2>1. ChanTypeOK /\ CoreInv
    BY CalledFact
  <2>2. Queue(c, "send") \in Seq(Sudog) /\ "send" \in Dirs
    BY <2>1, QueueType DEF Dirs
  <2>3. s \in ToSet(Queue(c, "send"))
    BY <1>1, <1>2, <2>2, RestFact
  <2> QED BY <2>1, <2>2, <2>3, SudogFact
<1>7. /\ Finish(g, i, Head(full)) /\ Values(ch'[c], c) = Tail(full) /\ Ring(ch'[c], c)
  <2>1. CASE Cap[c] = 0
    <3>1. Values(hs[c], c) = <<>> /\ Values(ch'[c], c) = <<>>
      <4>1. hs[c].qcount = 0 /\ ch'[c].qcount = 0
        BY <1>3, <1>5, <2>1, ZenonT(40)
      <4> QED BY <1>4, <4>1, CountFact, ZenonT(40)
    <3>2. full = <<s.g>>
      <4>1. \A x : Append(<<>>, x) = <<x>>
        OBVIOUS
      <4>2. Queues[c] = <<>>
        BY <1>4, <3>1, ZenonT(40)
      <4> HIDE DEF s
      <4> QED BY <4>1, <4>2, ZenonT(40)
    <3>3. Head(full) = s.g /\ Tail(full) = <<>>
      <4>1. \A x : Head(<<x>>) = x /\ Tail(<<x>>) = <<>>
        OBVIOUS
      <4> HIDE DEF s, full
      <4> QED BY <3>2, <4>1
    <3>4. Finish(g, i, s.g)
      BY <1>2, <2>1 DEF RecvFromSender
    <3>5. Ring(ch'[c], c)
      BY <2>1, EmptyRing, ZenonT(40)
    <3> QED BY <3>1, <3>3, <3>4, <3>5, ZenonT(40)
  <2>2. CASE Cap[c] # 0
    <3> DEFINE h == hs[c]
               k == ch'[c]
    <3>1. Becomes(hs, c, h.qcount, Advance(h.recvx, c), Advance(h.recvx, c),
                  [h.buf EXCEPT ![h.recvx] = s.g], Rest(h.sendq), h.recvq)
      BY <1>2, <2>2, RecvFromSenderFact
    <3>2. Turns(h, k, s.g, c)
      <4>1. Cap[c] > 0
        BY <1>5, <2>2, PositiveNat, ZenonT(40)
      <4>2. s.g \in Value
        BY <1>6 DEF Value
      <4>3. /\ k.qcount = h.qcount /\ k.sendx = Advance(h.recvx, c) /\ k.recvx = Advance(h.recvx, c)
            /\ k.buf = [h.buf EXCEPT ![h.recvx] = s.g]
        BY <3>1, ZenonT(40) DEF Becomes
      <4> QED BY <1>4, <1>5, <4>1, <4>2, <4>3, ZenonT(40) DEF Turns
    <3>3. Finish(g, i, h.buf[h.recvx])
      BY <2>2, ZenonT(40) DEF RecvFromSender
    <3>4. full = Append(Values(h, c), s.g)
      BY <1>4
    <3> HIDE DEF h, k, s, full
    <3>5. /\ Values(k, c) = Tail(Append(Values(h, c), s.g)) /\ Ring(k, c)
          /\ Head(Append(Values(h, c), s.g)) = h.buf[h.recvx]
      BY <3>2, TurnFact, ZenonT(40)
    <3> QED BY <3>3, <3>4, <3>5 DEF k
  <2> QED BY <2>1, <2>2
<1>8. /\ s.g \in Abstract!Partners(g, "send", c) /\ s.case \in Abstract!CasesOf(s.g, "send", c)
      /\ Abstract!JointEffect(g, i, Head(full), s.g, s.case, "sent") /\ WokenEmptyInv'
  <2>1. LiveIn(Queue(c, "send")) # {} /\ Claim(g, s, s.case, Nobody) /\ Finish(g, i, Head(full))
    BY <1>1, <1>2, <1>7, ZenonT(40)
  <2>2. \A d \in Chans : ch'[d].qcount = ch[d].qcount
    BY <1>3, <1>4
  <2>3. "send" \in Dirs
    BY DEF Dirs
  <2>4. s = First(Queue(c, "send"))
    OBVIOUS
  <2> HIDE DEF s, full
  <2> QED BY <2>1, <2>2, <2>3, <2>4, ClaimRefines
<1>9. Queues' = [Queues EXCEPT ![c] = Tail(full)]
  BY <1>4, <1>7, ZenonT(40)
<1>10. full = Append(Queues[c], s.g)
  OBVIOUS
<1> HIDE DEF s, full
<1>11. Abstract!Recv(g, i, c)
  <2>1. \E h \in Abstract!Partners(g, "send", c) : \E j \in Abstract!CasesOf(h, "send", c) :
          /\ Queues' = [Queues EXCEPT ![c] = Tail(Append(Queues[c], h))]
          /\ Abstract!JointEffect(g, i, Head(Append(Queues[c], h)), h, j, "sent")
    BY <1>8, <1>9, <1>10, ZenonT(40)
  <2> QED BY <1>4, <2>1, Zenon DEF Abstract!Recv, Closed, Queues
<1>12. Abstract!SpecNext
  BY <1>11, CaseRefines
<1> QED BY <1>4, <1>7, <1>8, <1>12, ZenonT(40) DEF Refined

-----------------------------------------------------------------------------
(* Every action of chan.go and select.go                                   *)

\* The case that proceeds.
LEMMA ProceedRefines ==
  ASSUME RefineInv, NEW g \in Goroutines, pc[g] \in {"lock", "sellock", "loop"}, UNCHANGED op,
         op[g].kind # "close", NEW i \in Indices(g), op[g].cases[i].c # Nil,
         NEW hs, Stripped(hs), Proceed(g, i, hs)
  PROVE  Refined
<1>1. ChanTypeOK
  BY CalledFact
<1>2. op[g].cases[i] \in Case
  BY <1>1, IndicesFact
<1>3. PICK c \in Chans : c = op[g].cases[i].c
  BY <1>2 DEF Case
<1>4. \/ /\ op[g].cases[i].dir = "send"
         /\ SendPanics(g, i, c, hs) \/ SendToReceiver(g, i, c, hs) \/ SendToBuffer(g, i, c, hs)
      \/ /\ op[g].cases[i].dir = "recv"
         /\ RecvFromSender(g, i, c, hs) \/ RecvFromBuffer(g, i, c, hs) \/ RecvClosed(g, i, c, hs)
  BY <1>3 DEF Proceed
<1>5. CASE op[g].cases[i].dir = "send"
  <2>1. CASE SendPanics(g, i, c, hs)
    BY <1>3, <1>5, <2>1, ClosedRefines
  <2>2. CASE SendToReceiver(g, i, c, hs)
    BY <1>3, <1>5, <2>2, SendToReceiverRefines
  <2>3. CASE SendToBuffer(g, i, c, hs)
    BY <1>3, <1>5, <2>3, SendToBufferRefines
  <2> QED BY <1>4, <1>5, <2>1, <2>2, <2>3
<1>6. CASE op[g].cases[i].dir = "recv"
  <2>1. CASE RecvFromSender(g, i, c, hs)
    BY <1>3, <1>6, <2>1, RecvFromSenderRefines
  <2>2. CASE RecvFromBuffer(g, i, c, hs)
    BY <1>3, <1>6, <2>2, RecvFromBufferRefines
  <2>3. CASE RecvClosed(g, i, c, hs)
    BY <1>3, <1>6, <2>3, ClosedRefines
  <2> QED BY <1>4, <1>6, <2>1, <2>2, <2>3
<1> QED BY <1>4, <1>5, <1>6

\* A step that takes stale sudogs out, and no more,
LEMMA StrippedSame ==
  ASSUME NEW hs, Stripped(hs), ch' = hs
  PROVE  SameChans
BY DEF Stripped, SameChans, SameValues

\* or puts sudogs of g in, leaves what the channels hold.
LEMMA EnlistedSame ==
  ASSUME ChanTypeOK, NEW g \in Goroutines, NEW hs, Stripped(hs), ch' = Enqueued(g, op[g].cases, hs)
  PROVE  SameChans
<1> DEFINE qs == Enqueued(g, op[g].cases, hs)
<1>1. Enlists(g, op[g].cases, hs, qs)
  <2>1. op[g].cases \in Seq(Case)
    BY IndicesFact
  <2> QED BY <2>1, EnqueuedFact
<1>2. ch' = qs
  OBVIOUS
<1> HIDE DEF qs
<1> QED BY <1>1, <1>2 DEF Enlists, Stripped, SameChans, SameValues

\* chansend and chanrecv.
LEMMA ChanOpRefines ==
  ASSUME RefineInv, NEW g \in Goroutines, ChanOp(g)
  PROVE  Refined
<1> DEFINE hs == Examined({theCase(g)})
<1>1. pc[g] = "lock" /\ op[g].kind = "chan" /\ theCase(g).c # Nil /\ UNCHANGED op
  BY DEF ChanOp
<1>2. ChanTypeOK
  BY <1>1, CalledFact
<1>3. Indices(g) = {1} /\ theCase(g) = op[g].cases[1] /\ theCase(g) \in Case
  BY <1>1, <1>2, TheCaseFact DEF theCase
<1>4. CASE Proceed(g, 1, ch)
  <2>1. Stripped(ch)
    BY <1>2, SameFact
  <2> QED BY <1>1, <1>3, <1>4, <2>1, ProceedRefines
<1>5. CASE ~Ready(theCase(g)) /\ NoWake
  <2>1. Stripped(hs)
    BY <1>2, <1>3, <1>5, ExaminedFact
  <2>2. UNCHANGED <<op, param, elem, wakes>>
    BY <1>1, <1>5 DEF NoWake
  <2> HIDE DEF hs
  <2>3. CASE op[g].block /\ ch' = Enqueued(g, op[g].cases, hs) /\ Goto(g, "parked") /\ UNCHANGED res
    <3>1. SameChans
      BY <1>2, <2>1, <2>3, EnlistedSame
    <3>2. ReadyAt(g) = {}
      BY <1>3, <1>5 DEF ReadyAt
    <3> QED BY <1>1, <2>2, <2>3, <3>1, <3>2, ParkRefines
  <2>4. CASE ~op[g].block /\ ch' = hs /\ Finish(g, 0, "default")
    <3>1. SameChans
      BY <2>1, <2>4, StrippedSame
    <3> QED BY <1>1, <2>2, <2>4, <3>1, GiveUpRefines
  <2>5. \/ op[g].block /\ ch' = Enqueued(g, op[g].cases, hs) /\ Goto(g, "parked") /\ UNCHANGED res
        \/ ~op[g].block /\ ch' = hs /\ Finish(g, 0, "default")
        \/ Proceed(g, 1, ch)
    BY DEF ChanOp, hs
  <2> QED BY <1>4, <2>3, <2>4, <2>5
<1> QED BY <1>4, <1>5 DEF ChanOp

\* Pass 1 of selectgo that finds a case,
LEMMA SelectReadyRefines ==
  ASSUME RefineInv, NEW g \in Goroutines, SelectReady(g)
  PROVE  Refined
<1>1. pc[g] \in {"lock", "sellock", "loop"} /\ UNCHANGED op /\ op[g].kind # "close"
  BY DEF SelectReady, InPass1
<1>2. ChanTypeOK
  BY <1>1, CalledFact
<1>3. PICK i \in ReadyAt(g), before \in SUBSET (Indices(g) \ ReadyAt(g)) :
        Proceed(g, i, Examined(CasesAt(g, before)))
  BY DEF SelectReady
<1>4. i \in Indices(g) /\ op[g].cases[i].c # Nil
  BY <1>3, ZenonT(40) DEF ReadyAt, Ready
<1>5. Stripped(Examined(CasesAt(g, before)))
  BY <1>2, <1>3, CasesFact
<1> QED BY <1>1, <1>3, <1>4, <1>5, ProceedRefines

\* or none, with a default,
LEMMA SelectDefaultRefines ==
  ASSUME RefineInv, NEW g \in Goroutines, SelectDefault(g)
  PROVE  Refined
<1>1. /\ pc[g] \in {"sellock", "loop"} /\ UNCHANGED <<op, param, elem, wakes>> /\ ~op[g].block
      /\ Finish(g, 0, "default") /\ ReadyAt(g) = {}
      /\ ch' = Examined(CasesAt(g, Indices(g)))
  BY DEF SelectDefault, InPass1
<1>2. Stripped(Examined(CasesAt(g, Indices(g))))
  BY <1>1, CalledFact, CasesFact
<1>3. SameChans
  BY <1>1, <1>2, StrippedSame
<1> QED BY <1>1, <1>3, GiveUpRefines

\* or none at all.
LEMMA SelectParkRefines ==
  ASSUME RefineInv, NEW g \in Goroutines, SelectPark(g)
  PROVE  Refined
<1> DEFINE hs == Examined(CasesAt(g, Indices(g)))
<1>1. /\ pc[g] \in {"sellock", "loop"} /\ UNCHANGED <<op, param, elem, wakes, res>> /\ op[g].block
      /\ Goto(g, "parked") /\ ReadyAt(g) = {} /\ op[g].kind # "close"
      /\ ch' = Enqueued(g, op[g].cases, hs)
  BY DEF SelectPark, InPass1
<1>2. ChanTypeOK
  BY <1>1, CalledFact
<1>3. Stripped(hs)
  BY <1>1, <1>2, CasesFact
<1> HIDE DEF hs
<1>4. SameChans
  BY <1>1, <1>2, <1>3, EnlistedSame
<1> QED BY <1>1, <1>4, ParkRefines

\* A step that changes nothing the abstract channels are made of.
LEMMA SilentRefines ==
  ASSUME RefineInv, UNCHANGED <<ch, pc, op, param, elem, wakes, res>>
  PROVE  Refined
<1>1. SameChans
  BY DEF SameChans, SameValues
<1>2. \A h \in Goroutines : (Asleep(h)' <=> Asleep(h)) /\ (Woken(h)' <=> Woken(h))
  BY DEF Asleep, Woken, Dequeued
<1>3. \A h \in Goroutines : SpecStatus(h)' = SpecStatus(h)
  BY <1>2, ViewSame
<1> QED BY <1>1, <1>2, <1>3, StutterRefines

\* A step of g from one place of its operation to another.
LEMMA MoveRefines ==
  ASSUME RefineInv, SameChans, NEW g \in Goroutines, Alone(g), op'[g] = op[g],
         param[g] = Nil, param'[g] = Nil,
         pc[g] \in {"fast", "fast2", "lock", "sellock", "loop", "awake", "relock"},
         pc'[g] \in {"fast", "fast2", "lock", "sellock", "loop", "awake", "relock"},
         pc'[g] \in {"awake", "relock"} => pc[g] \in {"awake", "relock"}
  PROVE  Refined
<1>1. InCall(g) /\ (InCall(g))' /\ ~Asleep(g) /\ ~(Asleep(g))' /\ ((Woken(g))' => Woken(g))
  BY DEF InCall, Asleep, Woken
<1>2. SpecStatus(g)' = SpecStatus(g)
  BY <1>1, ViewFact DEF ViewOf
<1> QED BY <1>1, <1>2, AloneRefines

\* close takes effect.
LEMMA CloseTakes ==
  ASSUME RefineInv, NEW g \in Goroutines, pc[g] = "lock", op[g].kind = "close",
         Abstract!Close(g, theCase(g).c)
  PROVE  Abstract!SpecNext
<1>1. SpecStatus(g) = Abstract!Called(op[g]) /\ Abstract!In(g, "called")
  BY CalledFact
<1>2. Status[g].op = op[g]
  BY <1>1 DEF Status, Abstract!Called
<1>3. Status[g].op.kind = "close" /\ Status[g].op.cases[1].c = theCase(g).c
  BY <1>2 DEF theCase
<1>4. Abstract!Close(g, Status[g].op.cases[1].c)
  BY <1>3, Zenon DEF Abstract!Close
<1>5. Abstract!Proceeds(g)
  BY <1>3, <1>4, Zenon DEF Abstract!Proceeds, Status
<1> QED BY <1>1, <1>5 DEF Abstract!SpecNext

\* close panics on a channel that is closed, and on no channel.
LEMMA ClosePanics ==
  ASSUME RefineInv, SameChans, NEW g \in Goroutines, pc[g] = "lock", op[g].kind = "close", UNCHANGED op,
         Finish(g, 1, "panic"), NoWake, theCase(g).c \notin Chans \ Closed
  PROVE  Refined
<1>1. RingInv' /\ Queues' = Queues /\ Closed' = Closed
  BY SameChansFact DEF RefineInv
<1>2. Abstract!Effect(g, 1, "panic") /\ WokenEmptyInv'
  <2>1. \A c \in Chans : ch[c].closed /\ ch[c].qcount = 0 => ch'[c].qcount = 0
    BY DEF SameChans, SameValues
  <2> QED BY <2>1, QuietRefines
<1>3. Abstract!Close(g, theCase(g).c)
  BY <1>1, <1>2 DEF Abstract!Close, Closed, Queues
<1>4. Abstract!SpecNext
  BY <1>3, CloseTakes
<1> QED BY <1>1, <1>2, <1>4 DEF Refined

\* An operation on a nil channel.
LEMMA OnNilRefines ==
  ASSUME RefineInv, NEW g \in Goroutines, OnNil(g)
  PROVE  Refined
<1>1. /\ pc[g] \in {"fast", "lock"} /\ theCase(g).c = Nil /\ op[g].kind \in {"chan", "close"}
      /\ UNCHANGED <<ch, op, selectDone, param, elem, wakes>>
  BY DEF OnNil
<1>2. ChanTypeOK /\ SameChans
  BY <1>1, CalledFact DEF SameChans, SameValues
<1>3. pc[g] = "fast" => op[g].kind = "chan"
  BY <1>1, LocalFact DEF RefineInv, Placed
<1>4. Nil \notin Chans
  BY ChanAssumption DEF Nil
<1>5. ReadyAt(g) = {}
  <2>1. Indices(g) = {1} /\ op[g].cases[1].c = Nil
    BY <1>1, <1>2, TheCaseFact DEF theCase
  <2> QED BY <2>1 DEF ReadyAt, Ready
<1>6. CASE op[g].kind = "close" /\ Finish(g, 1, "panic")
  <2>1. pc[g] = "lock" /\ NoWake
    BY <1>1, <1>3, <1>6 DEF NoWake
  <2> QED BY <1>1, <1>2, <1>4, <1>6, <2>1, ClosePanics
<1>7. CASE op[g].kind = "chan" /\ ~op[g].block /\ Finish(g, 0, "default")
  BY <1>1, <1>2, <1>7, GiveUpRefines
<1>8. CASE op[g].kind = "chan" /\ op[g].block /\ Goto(g, "parked") /\ UNCHANGED res
  BY <1>1, <1>2, <1>5, <1>8, ParkRefines
<1> QED BY <1>6, <1>7, <1>8 DEF OnNil

\* The first read without the lock,
LEMMA FastRead1Refines ==
  ASSUME RefineInv, NEW g \in Goroutines, FastRead1(g)
  PROVE  Refined
<1>1. /\ pc[g] = "fast" /\ UNCHANGED <<ch, op, param, elem, wakes, res>>
      /\ Goto(g, "fast2") \/ Goto(g, "lock")
  BY DEF FastRead1
<1>2. ChanTypeOK /\ SameChans /\ param[g] = Nil
  BY <1>1, CalledFact DEF SameChans, SameValues
<1>3. pc'[g] \in {"fast2", "lock"} /\ Alone(g)
  BY <1>1, <1>2 DEF Goto, Alone, ChanTypeOK
<1> QED BY <1>1, <1>2, <1>3, MoveRefines

\* and the second.
LEMMA FastRead2Refines ==
  ASSUME RefineInv, NEW g \in Goroutines, FastRead2(g)
  PROVE  Refined
<1>1. /\ pc[g] = "fast2" /\ UNCHANGED <<ch, op, param, elem, wakes>>
      /\ Finish(g, 0, "default") \/ (Goto(g, "lock") /\ UNCHANGED res)
  BY DEF FastRead2
<1>2. ChanTypeOK /\ SameChans /\ param[g] = Nil
  BY <1>1, CalledFact DEF SameChans, SameValues
<1>3. ~op[g].block
  BY <1>1, LocalFact DEF RefineInv, Placed
<1>4. CASE Finish(g, 0, "default")
  BY <1>1, <1>2, <1>3, <1>4, GiveUpRefines
<1>5. CASE Goto(g, "lock") /\ UNCHANGED res
  <2>1. pc'[g] = "lock" /\ Alone(g)
    BY <1>1, <1>2, <1>5 DEF Goto, Alone, ChanTypeOK
  <2> QED BY <1>1, <1>2, <2>1, MoveRefines
<1> QED BY <1>1, <1>4, <1>5

\* A call.
LEMMA InvokeRefines ==
  ASSUME RefineInv, NEW g \in Goroutines, NEW o \in program, Invoke(g, o)
  PROVE  Refined
<1>1. /\ pc[g] = "idle" /\ op' = [op EXCEPT ![g] = o]
      /\ UNCHANGED <<ch, param, elem, wakes, res>>
      /\ Goto(g, "sellock") \/ Goto(g, "fast") \/ Goto(g, "lock")
  BY DEF Invoke
<1>2. ChanTypeOK /\ SameChans /\ param[g] = Nil /\ program \in Programs
  BY <1>1, InvEquiv, LocalFact DEF RefineInv, TypeOK, ProgramOK, SameChans, SameValues
<1>3. pc'[g] \in {"sellock", "fast", "lock"} /\ Alone(g) /\ op'[g] = o
  BY <1>1, <1>2 DEF Goto, Alone, ChanTypeOK
<1>4. (InCall(g))' /\ ~(Asleep(g))' /\ ~(Woken(g))' /\ param'[g] = Nil
  BY <1>1, <1>2, <1>3 DEF InCall, Asleep, Woken
<1>5. SpecStatus(g) = Abstract!Idle /\ SpecStatus(g)' = Abstract!Called(o)
  BY <1>1, <1>3, <1>4, ViewFact DEF ViewOf
<1>6. /\ RingInv' /\ WokenEmptyInv' /\ Queues' = Queues /\ Closed' = Closed
      /\ Status' = [Status EXCEPT ![g] = SpecStatus(g)']
  BY <1>2, <1>3, <1>4, AloneRefines
<1>7. Abstract!Call(g, o)
  BY <1>5, <1>6 DEF Abstract!Call, Status, Queues, Closed
<1>8. Abstract!In(g, "idle") /\ o \in UNION Programs
  BY <1>2, <1>5 DEF Abstract!In, Abstract!Idle
<1>9. Abstract!SpecNext
  BY <1>7, <1>8 DEF Abstract!SpecNext
<1> QED BY <1>6, <1>9 DEF Refined

\* An operation returns.
LEMMA ChanReturnRefines ==
  ASSUME RefineInv, NEW g \in Goroutines, ChanReturn(g)
  PROVE  Refined
<1>1. /\ pc[g] = "done" /\ Goto(g, "idle") /\ UNCHANGED <<ch, param, wakes>>
      /\ op' = [op EXCEPT ![g] = NoOp] /\ elem' = [elem EXCEPT ![g] = Nobody]
      /\ res' = [res EXCEPT ![g] = NoResult]
  BY DEF ChanReturn
<1>2. ChanTypeOK /\ SameChans
  BY <1>1, InvEquiv DEF RefineInv, TypeOK, SameChans, SameValues
<1>3. pc'[g] = "idle" /\ Alone(g)
  BY <1>1, <1>2 DEF Goto, Alone, ChanTypeOK
<1>4. ~(Woken(g))'
  BY <1>3 DEF Woken
<1>5. SpecStatus(g).phase = "done" /\ SpecStatus(g)' = Abstract!Idle
  BY <1>1, <1>3, ViewFact DEF ViewOf
<1>6. /\ RingInv' /\ WokenEmptyInv' /\ Queues' = Queues /\ Closed' = Closed
      /\ Status' = [Status EXCEPT ![g] = SpecStatus(g)']
  BY <1>2, <1>3, <1>4, AloneRefines
<1>7. Abstract!Return(g)
  BY <1>5, <1>6 DEF Abstract!Return, Status, Queues, Closed
<1>8. Abstract!In(g, "done")
  BY <1>5 DEF Abstract!In
<1>9. Abstract!SpecNext
  BY <1>7, <1>8 DEF Abstract!SpecNext
<1> QED BY <1>6, <1>9 DEF Refined

\* A goroutine that was dequeued becomes runnable, which the abstract channels have seen
\* when it was dequeued.
LEMMA GoreadyRefines ==
  ASSUME RefineInv, NEW g \in Goroutines, Goready(g)
  PROVE  Refined
<1>1. ChanTypeOK /\ CoreInv
  BY InvEquiv DEF RefineInv, TypeOK
<1>2. PICK h \in wakes[g] : wakes' = [wakes EXCEPT ![g] = @ \ {h}] /\ Goto(h, "awake")
  BY DEF Goready
<1>3. UNCHANGED <<ch, op, param, elem, res>>
  BY DEF Goready
<1>4. h \in Goroutines
  BY <1>1, <1>2 DEF ChanTypeOK
<1>5. pc[h] = "parked" /\ Dequeued(h)
  BY <1>1, <1>2, <1>4 DEF CoreInv, ReadyOnce, Dequeued
<1>6. /\ wakes'[g] = wakes[g] \ {h} /\ \A f \in Goroutines : f # g => wakes'[f] = wakes[f]
      /\ pc'[h] = "awake" /\ \A f \in Goroutines : f # h => pc'[f] = pc[f]
  BY <1>1, <1>2, <1>4 DEF ChanTypeOK, Goto
<1>7. \A f \in Goroutines : f # h => (Dequeued(f)' <=> Dequeued(f))
  BY <1>6 DEF Dequeued
<1>8. Woken(h) /\ ~Asleep(h) /\ ~(Asleep(h))' /\ InCall(h) /\ (InCall(h))'
  BY <1>5, <1>6 DEF Woken, Asleep, InCall
<1>9. SpecStatus(h)' = SpecStatus(h)
  BY <1>3, <1>4, <1>8, ViewFact DEF ViewOf
<1>10. ASSUME NEW f \in Goroutines, f # h
       PROVE  SpecStatus(f)' = SpecStatus(f) /\ (Woken(f)' <=> Woken(f))
  <2>1. pc'[f] = pc[f] /\ (Dequeued(f)' <=> Dequeued(f))
    BY <1>6, <1>7, <1>10
  <2>2. (Asleep(f)' <=> Asleep(f)) /\ (Woken(f)' <=> Woken(f))
    BY <2>1 DEF Asleep, Woken
  <2> QED BY <1>3, <2>1, <2>2, ViewSame
<1>11. SameChans
  BY <1>3 DEF SameChans, SameValues
<1> QED BY <1>3, <1>8, <1>9, <1>10, <1>11, StutterRefines

\* selectgo begins its relocking.
LEMMA SelectWakeRefines ==
  ASSUME RefineInv, NEW g \in Goroutines, SelectWake(g)
  PROVE  Refined
<1>1. pc[g] = "awake" /\ Goto(g, "relock") /\ UNCHANGED <<ch, op, param, elem, wakes, res>>
  BY DEF SelectWake
<1>2. ChanTypeOK /\ SameChans
  BY <1>1, InvEquiv DEF RefineInv, TypeOK, SameChans, SameValues
<1>3. pc'[g] = "relock" /\ Alone(g)
  BY <1>1, <1>2 DEF Goto, Alone, ChanTypeOK
<1>4. /\ InCall(g) /\ (InCall(g))' /\ ~Asleep(g) /\ ~(Asleep(g))' /\ Woken(g)
      /\ op'[g] = op[g] /\ param'[g] = param[g] /\ elem'[g] = elem[g]
  BY <1>1, <1>3 DEF InCall, Asleep, Woken
<1>5. SpecStatus(g)' = SpecStatus(g)
  BY <1>4, ViewFact DEF ViewOf
<1> QED BY <1>2, <1>3, <1>4, <1>5, AloneRefines

\* g has the result that its waker has left for it: the abstract channels have seen it.
LEMMA DeliveredRefines ==
  ASSUME RefineInv, SameChans, NEW g \in Goroutines, Alone(g), op'[g] = op[g], param[g] # Nil,
         pc[g] \in {"awake", "relock"},
         Finish(g, param[g], IF op[g].cases[param[g]].dir = "send" THEN "sent" ELSE elem[g])
  PROVE  Refined
<1>1. ChanTypeOK
  BY InvEquiv DEF RefineInv, TypeOK
<1> DEFINE x == IF op[g].cases[param[g]].dir = "send" THEN "sent" ELSE elem[g]
<1>2. Finish(g, param[g], x)
  OBVIOUS
<1>3. SpecStatus(g) = Abstract!Done(op[g], param[g], x)
  BY ViewFact DEF ViewOf, InCall
<1> HIDE DEF x
<1>4. SpecStatus(g)' = Abstract!Done(op[g], param[g], x) /\ ~(Woken(g))'
  BY <1>1, <1>2, FinishView
<1>5. SpecStatus(g)' = SpecStatus(g)
  BY <1>3, <1>4
<1> QED BY <1>4, <1>5, AloneRefines

\* chansend and chanrecv go on after their park.
LEMMA ChanWakeRefines ==
  ASSUME RefineInv, NEW g \in Goroutines, ChanWake(g)
  PROVE  Refined
<1>1. ChanTypeOK /\ CoreInv
  BY InvEquiv DEF RefineInv, TypeOK
<1>2. /\ pc[g] = "awake" /\ op[g].kind = "chan" /\ param' = [param EXCEPT ![g] = Nil]
      /\ UNCHANGED <<ch, op, selectDone, elem, wakes>>
  BY DEF ChanWake
<1>3. /\ Indices(g) = {1} /\ theCase(g) = op[g].cases[1] /\ theCase(g).dir \in Dirs
      /\ theCase(g).c # Nil => theCase(g).c \in Chans
  BY <1>1, <1>2, TheCaseFact DEF theCase
<1>4. SameChans
  BY <1>2 DEF SameChans, SameValues
<1>5. Woken(g) /\ (param[g] # Nil => param[g] = 1) /\ (param[g] = Nil => SawClosed(g))
  BY <1>1, <1>2, <1>3 DEF CoreInv, WakeInv, Woken
<1>6. param[g] = Nil => theCase(g).c \in Chans /\ ch[theCase(g).c].closed
  BY <1>3, <1>5 DEF SawClosed
<1> DEFINE x == IF param[g] = Nil
                  THEN IF theCase(g).dir = "send" THEN "panic" ELSE "closed"
                  ELSE IF theCase(g).dir = "send" THEN "sent" ELSE elem[g]
<1>7. Finish(g, 1, x)
  BY <1>6 DEF ChanWake
<1>8. /\ pc'[g] = "done" /\ ~(Woken(g))' /\ SpecStatus(g)' = Abstract!Done(op[g], 1, x)
      /\ \A h \in Goroutines : h # g => pc'[h] = pc[h] /\ res'[h] = res[h]
  <2> HIDE DEF x
  <2> QED BY <1>1, <1>2, <1>7, FinishView
<1>9. Alone(g)
  BY <1>1, <1>2, <1>8 DEF Alone, ChanTypeOK
<1>10. CASE param[g] # Nil
  <2>1. Finish(g, param[g], IF op[g].cases[param[g]].dir = "send" THEN "sent" ELSE elem[g])
    BY <1>3, <1>5, <1>7, <1>10
  <2> QED BY <1>2, <1>4, <1>9, <1>10, <2>1, DeliveredRefines
<1>11. CASE param[g] = Nil
  <2> DEFINE c == theCase(g).c
  <2>1. c \in Chans /\ c = op[g].cases[1].c /\ 1 \in Indices(g) /\ op[g].kind # "close" /\ c \in Closed
    BY <1>2, <1>3, <1>6, <1>11 DEF Closed
  <2>2. SpecStatus(g) = Abstract!Called(op[g])
    BY <1>2, <1>11, PhaseFact DEF RefineInv
  <2>3. /\ RingInv' /\ WokenEmptyInv' /\ Queues' = Queues /\ Closed' = Closed
        /\ Status' = [Status EXCEPT ![g] = SpecStatus(g)']
    BY <1>4, <1>8, <1>9, AloneRefines
  <2> HIDE DEF c
  <2>4. Abstract!Effect(g, 1, x)
    BY <1>8, <2>2, <2>3, EffectFact
  <2>5. CASE theCase(g).dir = "send"
    <3>1. x = "panic"
      BY <1>11, <2>5
    <3> HIDE DEF x
    <3>2. Abstract!Effect(g, 1, "panic")
      BY <2>4, <3>1 DEF Abstract!Effect
    <3>3. Abstract!Send(g, 1, c)
      BY <2>1, <2>3, <3>2 DEF Abstract!Send, Closed, Queues
    <3>4. op[g].cases[1].dir = "send"
      BY <1>3, <2>5
    <3>5. Abstract!SpecNext
      BY <1>2, <1>11, <2>1, <3>3, <3>4, CaseRefines
    <3> QED BY <2>3, <3>5 DEF Refined
  <2>6. CASE theCase(g).dir = "recv"
    <3>1. x = "closed"
      BY <1>11, <2>6
    <3> HIDE DEF x
    <3>2. Abstract!Effect(g, 1, "closed")
      BY <2>4, <3>1 DEF Abstract!Effect
    <3>3. ch[c].qcount = 0
      BY <1>2, <1>5, <1>11, <2>6 DEF RefineInv, WokenEmptyInv, c
    <3>4. Queues[c] = <<>>
      <4>1. ch[c] \in Hchan(c)
        BY <1>1, <2>1 DEF ChanTypeOK
      <4>2. Queues[c] = Values(ch[c], c)
        BY <2>1, ZenonT(40) DEF Queues, SpecQueue, Values
      <4> QED BY <2>1, <3>3, <4>1, <4>2, CountFact, ZenonT(40)
    <3>5. Abstract!Recv(g, 1, c)
      BY <2>1, <2>3, <3>2, <3>4 DEF Abstract!Recv, Closed, Queues
    <3>6. op[g].cases[1].dir = "recv"
      BY <1>3, <2>6
    <3>7. Abstract!SpecNext
      BY <1>2, <1>11, <2>1, <3>5, <3>6, CaseRefines
    <3> QED BY <2>3, <3>7 DEF Refined
  <2> QED BY <1>3, <2>5, <2>6 DEF Dirs
<1> QED BY <1>10, <1>11

\* Pass 3 of selectgo.
LEMMA SelectPass3Refines ==
  ASSUME RefineInv, NEW g \in Goroutines, SelectPass3(g)
  PROVE  Refined
<1>1. ChanTypeOK
  BY InvEquiv DEF RefineInv, TypeOK
<1>2. /\ pc[g] = "relock" /\ ch' = Removed(g) /\ param' = [param EXCEPT ![g] = Nil]
      /\ UNCHANGED <<op, elem, wakes>>
      /\ IF param[g] = Nil
           THEN Goto(g, "loop") /\ UNCHANGED res
           ELSE Finish(g, param[g], IF op[g].cases[param[g]].dir = "send" THEN "sent" ELSE elem[g])
  BY DEF SelectPass3
<1>3. SameChans
  <2> DEFINE qs == Removed(g)
  <2>1. \A c \in Chans : /\ qs[c].qcount = ch[c].qcount /\ qs[c].closed = ch[c].closed
                         /\ qs[c].sendx = ch[c].sendx /\ qs[c].recvx = ch[c].recvx /\ qs[c].buf = ch[c].buf
    BY <1>1, RemovedFact
  <2>2. ch' = qs
    BY <1>2
  <2> HIDE DEF qs
  <2> QED BY <2>1, <2>2 DEF SameChans, SameValues
<1>4. param'[g] = Nil /\ \A h \in Goroutines : h # g => param'[h] = param[h]
  BY <1>1, <1>2 DEF ChanTypeOK
<1>5. CASE param[g] = Nil
  <2>1. pc'[g] = "loop" /\ Alone(g)
    BY <1>1, <1>2, <1>4, <1>5 DEF Goto, Alone, ChanTypeOK
  <2> QED BY <1>2, <1>3, <1>4, <1>5, <2>1, MoveRefines
<1>6. CASE param[g] # Nil
  <2>1. Finish(g, param[g], IF op[g].cases[param[g]].dir = "send" THEN "sent" ELSE elem[g])
    BY <1>2, <1>6
  <2>2. \A h \in Goroutines : h # g => pc'[h] = pc[h] /\ res'[h] = res[h]
    <3>1. \A i, x : Finish(g, i, x) => \A h \in Goroutines : h # g => pc'[h] = pc[h] /\ res'[h] = res[h]
      BY <1>1 DEF Finish, Goto, ChanTypeOK
    <3> QED BY <2>1, <3>1
  <2>3. Alone(g)
    BY <1>2, <1>4, <2>2 DEF Alone
  <2> QED BY <1>2, <1>3, <1>6, <2>1, <2>3, DeliveredRefines
<1> QED BY <1>5, <1>6

\* closechan wakes exactly those that wait on the channel for the abstract channels.
LEMMA CloseWakes ==
  ASSUME RefineInv, NEW g \in Goroutines, ~Asleep(g), NEW c \in Chans
  PROVE  {s.g : s \in {s \in ToSet(ch[c].recvq) \cup ToSet(ch[c].sendq) : Live(s)}}
           = Abstract!Partners(g, "send", c) \cup Abstract!Partners(g, "recv", c)
<1> DEFINE W == {s.g : s \in {s \in ToSet(ch[c].recvq) \cup ToSet(ch[c].sendq) : Live(s)}}
<1>1. ChanTypeOK /\ CoreInv /\ c # Nil
  BY InvEquiv, ChanAssumption DEF RefineInv, TypeOK, Nil
<1>2. \A h : h \in W <=> \E dir \in Dirs : \E s \in ToSet(Queue(c, dir)) : Live(s) /\ s.g = h
  BY QueueNames DEF Dirs
<1>3. ASSUME NEW dir \in Dirs, NEW s \in ToSet(Queue(c, dir)), Live(s)
      PROVE  s.g \in Abstract!Partners(g, dir, c)
  BY <1>3, PartnersFact DEF RefineInv
<1>4. ASSUME NEW dir \in Dirs, NEW h \in Abstract!Partners(g, dir, c)
      PROVE  \E s \in ToSet(Queue(c, dir)) : Live(s) /\ s.g = h
  <2>1. h \in Goroutines /\ Asleep(h) /\ \E i \in Indices(h) : op[h].cases[i] = [dir |-> dir, c |-> c]
    BY PartnersFact DEF RefineInv
  <2>2. PICK i \in Indices(h) : op[h].cases[i] = [dir |-> dir, c |-> c]
    BY <2>1
  <2>3. Blocked(h, i)
    BY <1>1, <2>1, BlockedEquiv DEF CoreInv, AllBlocked
  <2> QED BY <1>1, <2>2, <2>3 DEF Blocked
<1> HIDE DEF W
<1>5. \A h : h \in W <=> h \in Abstract!Partners(g, "send", c) \/ h \in Abstract!Partners(g, "recv", c)
  BY <1>2, <1>3, <1>4 DEF Dirs
<1> QED BY <1>5 DEF W

\* closechan.
LEMMA CloseChanRefines ==
  ASSUME RefineInv, NEW g \in Goroutines, CloseChan(g)
  PROVE  Refined
<1> DEFINE c == theCase(g).c
           W == {s.g : s \in {s \in ToSet(ch[c].recvq) \cup ToSet(ch[c].sendq) : Live(s)}}
<1>1. pc[g] = "lock" /\ op[g].kind = "close" /\ c # Nil /\ UNCHANGED <<op, param, elem>>
  BY DEF CloseChan
<1>2. ChanTypeOK /\ CoreInv /\ ~Asleep(g) /\ SpecStatus(g) = Abstract!Called(op[g])
  BY <1>1, CalledFact
<1>3. c \in Chans
  BY <1>1, <1>2, TheCaseFact
<1>4. CASE ch[c].closed
  <2>1. Finish(g, 1, "panic") /\ UNCHANGED ch /\ NoWake
    BY <1>1, <1>4 DEF CloseChan, NoWake
  <2>2. SameChans
    BY <2>1 DEF SameChans, SameValues
  <2>3. theCase(g).c \notin Chans \ Closed
    BY <1>4 DEF Closed
  <2> QED BY <1>1, <2>1, <2>2, <2>3, ClosePanics
<1>5. CASE ~ch[c].closed
  <2>1. /\ ch' = [ch EXCEPT ![c].closed = TRUE, ![c].recvq = <<>>, ![c].sendq = <<>>]
        /\ wakes' = [wakes EXCEPT ![g] = W] /\ Finish(g, 1, "closed")
    BY <1>5 DEF CloseChan
  <2>2. W = Abstract!Partners(g, "send", c) \cup Abstract!Partners(g, "recv", c)
    BY <1>2, <1>3, CloseWakes
  <2> HIDE DEF W, c
  <2>3. /\ \A d \in Chans \ {c} : ch'[d] = ch[d]
        /\ ch'[c].closed /\ ch'[c].qcount = ch[c].qcount /\ ch'[c].sendx = ch[c].sendx
        /\ ch'[c].recvx = ch[c].recvx /\ ch'[c].buf = ch[c].buf
    BY <1>2, <1>3, <2>1, ClosedFact, ZenonT(40)
  <2>4. \A d \in Chans : SameValues(d)
    BY <2>3 DEF SameValues
  <2>5. Queues' = Queues /\ RingInv'
    <3>1. \A d \in Chans : SpecQueue(d)' = SpecQueue(d)
      BY <2>4 DEF SameValues, SpecQueue
    <3>2. RingInv'
      BY <2>4 DEF RefineInv, RingInv, SameValues
    <3> QED BY <3>1, <3>2 DEF Queues
  <2>6. Closed' = Closed \cup {c} /\ c \in Chans \ Closed
    BY <1>3, <1>5, <2>3 DEF Closed
  <2>7. /\ SpecStatus(g)' = Abstract!Done(op[g], 1, "closed") /\ ~(Woken(g))'
        /\ \A h \in Goroutines : h # g => pc'[h] = pc[h] /\ res'[h] = res[h]
    BY <1>1, <1>2, <2>1, FinishView
  <2>8. wakes[g] = {} /\ \A f \in Goroutines : wakes'[f] = IF f = g THEN W ELSE wakes[f]
    BY <1>1, <1>2, <2>1 DEF CoreInv, PlaceInv, ChanTypeOK
  <2>9. \A h \in Goroutines : Dequeued(h)' <=> Dequeued(h) \/ h \in W
    BY <2>8 DEF Dequeued
  <2>10. ASSUME NEW h \in W
         PROVE  /\ h \in Goroutines /\ Asleep(h) /\ h # g
                /\ SpecStatus(h) = Abstract!Parked(op[h]) /\ SpecStatus(h)' = Abstract!Called(op[h])
    <3>1. h \in Goroutines /\ Asleep(h)
      BY <1>2, <1>3, <2>2, PartnersFact DEF RefineInv, Dirs
    <3>2. h # g /\ pc[h] = "parked"
      BY <1>2, <3>1 DEF Asleep
    <3>3. SpecStatus(h) = Abstract!Parked(op[h])
      BY <3>1, PhaseFact DEF RefineInv
    <3>4. param[h] = Nil
      BY <1>2, <3>1 DEF CoreInv, WakeInv, Woken, Asleep
    <3>5. (InCall(h))' /\ ~(Asleep(h))'
      BY <2>7, <2>9, <3>1, <3>2 DEF InCall, Asleep
    <3>6. SpecStatus(h)' = Abstract!Called(op[h])
      BY <1>1, <3>1, <3>4, <3>5, ViewFact DEF ViewOf
    <3> QED BY <3>1, <3>2, <3>3, <3>6
  <2>11. ASSUME NEW h \in Goroutines, h # g, h \notin W
         PROVE  SpecStatus(h)' = SpecStatus(h) /\ (Woken(h)' <=> Woken(h))
    <3>1. (Asleep(h)' <=> Asleep(h)) /\ (Woken(h)' <=> Woken(h))
      BY <2>7, <2>9, <2>11 DEF Asleep, Woken
    <3> QED BY <1>1, <2>7, <2>11, <3>1, ViewSame
  <2>12. /\ Status[g].op = op[g]
         /\ \A h \in W : Status[h].op = op[h]
    BY <1>2, <2>10 DEF Status, Abstract!Called, Abstract!Parked
  <2>13. Status' = [h \in Goroutines |->
                      IF h = g THEN Abstract!Done(Status[g].op, 1, "closed")
                      ELSE IF h \in W THEN Abstract!Called(Status[h].op) ELSE Status[h]]
    <3>1. ASSUME NEW h \in Goroutines
          PROVE  SpecStatus(h)' = IF h = g THEN Abstract!Done(Status[g].op, 1, "closed")
                                  ELSE IF h \in W THEN Abstract!Called(Status[h].op) ELSE Status[h]
      <4>1. Status[h] = SpecStatus(h)
        BY DEF Status
      <4> QED BY <2>7, <2>10, <2>11, <2>12, <4>1
    <3> QED BY <3>1 DEF Status
  <2>14. Abstract!Close(g, c)
    BY <2>2, <2>5, <2>6, <2>13 DEF Abstract!Close, Status, Closed, Queues
  <2>15. Abstract!SpecNext
    BY <1>1, <2>14, CloseTakes DEF c
  <2>16. WokenEmptyInv'
    <3>1. \A d \in Chans : ch'[d].qcount = ch[d].qcount
      BY <2>4 DEF SameValues
    <3>2. ASSUME NEW h \in W, op[h].kind = "chan", theCase(h).dir = "recv"
          PROVE  ch'[theCase(h).c].qcount = 0
      <4>1. h \in Goroutines /\ Asleep(h)
        BY <2>10
      <4>2. PICK dir \in Dirs, i \in Indices(h) : op[h].cases[i] = [dir |-> dir, c |-> c]
        BY <1>2, <1>3, <2>2, PartnersFact DEF RefineInv, Dirs
      <4>3. Indices(h) = {1}
        BY <1>2, <3>2, <4>1, TheCaseFact
      <4>4. theCase(h).c = c /\ theCase(h) = op[h].cases[1]
        BY <4>2, <4>3 DEF theCase
      <4>5. Blocked(h, 1)
        BY <1>2, <4>1, <4>3, BlockedEquiv DEF CoreInv, AllBlocked
      <4>6. c # Nil
        BY <1>3, ChanAssumption DEF Nil
      <4>7. ch[c].qcount = 0
        BY <3>2, <4>4, <4>5, <4>6 DEF Blocked
      <4> QED BY <1>3, <3>1, <4>4, <4>7
    <3>3. ASSUME NEW h \in Goroutines, Woken(h)', param'[h] = Nil
          PROVE  \/ Woken(h) /\ param[h] = Nil /\ op'[h] = op[h]
                 \/ op'[h].kind = "chan" /\ theCase(h)'.dir = "recv" => ch'[theCase(h)'.c].qcount = 0
      <4>1. theCase(h)' = theCase(h) /\ op'[h] = op[h] /\ param'[h] = param[h]
        BY <1>1 DEF theCase
      <4>2. h # g
        BY <2>7, <3>3
      <4>3. CASE h \in W
        BY <3>2, <4>1, <4>3
      <4>4. CASE h \notin W
        BY <2>11, <3>3, <4>1, <4>2, <4>4
      <4> QED BY <4>3, <4>4
    <3> QED BY <3>1, <3>3, EmptyKept
  <2> QED BY <2>5, <2>15, <2>16 DEF Refined
<1> QED BY <1>4, <1>5

\* Initially the abstract channels are as they should be, with what RefineInv says,
LEMMA RefineInvInit == Init => RefineInv /\ Abstract!SpecInit
<1> SUFFICES ASSUME Init
             PROVE  RefineInv /\ Abstract!SpecInit
  OBVIOUS
<1>1. ChanInv
  BY ChanInvInit
<1>2. ChanTypeOK
  BY <1>1, InvEquiv DEF TypeOK
<1>3. /\ \A c \in Chans : /\ ch[c].qcount = 0 /\ ch[c].sendx = 0 /\ ch[c].recvx = 0
                          /\ ~ch[c].closed
      /\ \A g \in Goroutines : pc[g] = "idle"
  BY DEF Init, ChanInit, NewHchan
<1>4. RingInv
  <2>1. ASSUME NEW c \in Chans, Cap[c] > 0
        PROVE  0 = (0 + 0) % Cap[c]
    <3>1. Cap[c] \in Nat
      BY ChanAssumption
    <3> QED BY <2>1, <3>1
  <2> QED BY <1>3, <2>1 DEF RingInv
<1>5. WokenEmptyInv
  BY <1>3 DEF WokenEmptyInv, Woken
<1>6. \A c \in Chans : SpecQueue(c) = <<>>
  <2> SUFFICES ASSUME NEW c \in Chans
               PROVE  SpecQueue(c) = <<>>
    OBVIOUS
  <2>1. ch[c] \in Hchan(c) /\ ch[c].qcount = 0
    BY <1>2, <1>3 DEF ChanTypeOK
  <2>2. SpecQueue(c) = Values(ch[c], c)
    BY DEF SpecQueue, Values
  <2> QED BY <2>1, <2>2, ValuesFact
<1>7. \A g \in Goroutines : SpecStatus(g) = Abstract!Idle
  BY <1>3, ViewFact DEF ViewOf
<1>8. Abstract!SpecInit
  BY <1>3, <1>6, <1>7 DEF Abstract!SpecInit
<1> QED BY <1>1, <1>4, <1>5, <1>8 DEF RefineInv

\* and each step is one of theirs or none.
LEMMA RefineInvStep ==
  ASSUME RefineInv, [Next]_vars
  PROVE  RefineInv' /\ [Abstract!SpecNext]_Abstract!specVars
<1>1. ChanInv'
  BY ChanInvStep DEF RefineInv
<1>2. ASSUME NEW g \in Goroutines, ChanStep(g)
      PROVE  Refined
  BY <1>2, OnNilRefines, FastRead1Refines, FastRead2Refines, ChanOpRefines, ChanWakeRefines,
     CloseChanRefines, GoreadyRefines, ChanReturnRefines DEF ChanStep
<1>3. ASSUME NEW g \in Goroutines, SelLock(g) \/ SelParkCommit(g)
      PROVE  Refined
  BY <1>3, SilentRefines DEF SelLock, SelParkCommit
<1>4. ASSUME NEW g \in Goroutines, SelectStep(g)
      PROVE  Refined
  BY <1>3, <1>4, SelectReadyRefines, SelectDefaultRefines, SelectParkRefines, SelectWakeRefines,
     SelectPass3Refines DEF SelectStep
<1>5. ASSUME NEW g \in Goroutines, InvokeAny(g)
      PROVE  Refined
  BY <1>5, InvokeRefines DEF InvokeAny
<1>6. ASSUME UNCHANGED vars
      PROVE  Refined
  BY <1>6, SilentRefines DEF vars, chanVars
<1>7. Refined
  BY <1>2, <1>3, <1>4, <1>5, <1>6 DEF Next, Run, Commit
<1> QED BY <1>1, <1>7 DEF Refined, RefineInv

-----------------------------------------------------------------------------
(* The theorems                                                            *)

\* No lost rendezvous in chansend, chanrecv, selectgo and closechan: at all times, whoever
\* sleeps could not proceed with any of its cases, and is queued for each of them.
THEOREM ChanSleepersBlocked == Spec => []SleepersBlocked
<1>1. ChanInv => SleepersBlocked
  BY DEF ChanInv
<1> QED BY <1>1, ChanInvAlways, PTL

\* A sudog belongs at all times to a call that sleeps, or to a select that lost the race
\* on this channel and has not reached pass 3; it is in the queue once.
THEOREM ChanSudogsOwned == Spec => []SudogsOwned
<1>1. ChanInv => SudogsOwned
  BY DEF ChanInv
<1> QED BY <1>1, ChanInvAlways, PTL

\* The invariants at the top of chan.go, and the types: a channel with waiting receivers
\* holds no values, one with waiting senders has no free slot, and only a select waits on
\* both sides of one.
THEOREM ChanQueueShape == Spec => []QueueShape
<1>1. ChanInv => QueueShape
  BY DEF ChanInv
<1> QED BY <1>1, ChanInvAlways, PTL

\* goready is called once for each sleep; a select that goes round again finds a case, and
\* chansend never throws "spurious wakeup".
THEOREM ChanWokenForAReason == Spec => []WokenForAReason
<1>1. ChanInv => WokenForAReason
  BY DEF ChanInv
<1> QED BY <1>1, ChanInvAlways, PTL

\* The reads of chansend and chanrecv without the lock: a non-blocking operation gives up
\* only if at some moment of its call it could do nothing, the race of a send with the
\* close of an unbuffered channel apart.
THEOREM ChanDefaultJustified == Spec => []DefaultJustified
<1>1. ChanInv => DefaultJustified
  BY DEF ChanInv
<1> QED BY <1>1, ChanInvAlways, PTL

\* chan.go and select.go implement the channels of ChanSpec: whatever goroutines, channels
\* and programs there are, each step of chansend, chanrecv, closechan and selectgo is one
\* step of abstract FIFO channels or none, so that no value is lost, duplicated or
\* reordered, the two ends of a rendezvous agree, and nobody waits who could proceed.
THEOREM ChanImplementsSpec == Spec => ImplementsChanSpec
<1>1. RefineInv /\ [Next]_vars => RefineInv' /\ [Abstract!SpecNext]_Abstract!specVars
  BY RefineInvStep
<1>2. Init => RefineInv /\ Abstract!SpecInit
  BY RefineInvInit
<1> QED BY <1>1, <1>2, PTL DEF Spec, ImplementsChanSpec, Abstract!AbstractSpec
=============================================================================
