------------------------------ MODULE FDProofs ------------------------------
(***************************************************************************)
(* Theorems about the files of internal/poll and the network poller, for   *)
(* any number of goroutines, files, descriptors, timers and pollers, and   *)
(* any programs.                                                           *)
(***************************************************************************)
EXTENDS FDPrograms, SequenceTheorems, FiniteSetTheorems, TLAPS

\* A step that is slow on one machine is given time on every one.
USE SMTT(40), ZenonT(40)

-----------------------------------------------------------------------------
(* Counting.                                                               *)

One(b) == IF b THEN 1 ELSE 0

\* A set of goroutines that changes at g only.
LEMMA CountMoves ==
  ASSUME NEW g \in Goroutines, NEW S \in SUBSET Goroutines, NEW T \in SUBSET Goroutines,
         \A h \in Goroutines : h # g => (h \in S <=> h \in T)
  PROVE  /\ Cardinality(S) \in Nat /\ Cardinality(T) \in Nat
         /\ Cardinality(T) = Cardinality(S) + One(g \in T) - One(g \in S)
<1>1. /\ IsFiniteSet(S) /\ IsFiniteSet(T) /\ IsFiniteSet(S \ {g})
      /\ Cardinality(S) \in Nat /\ Cardinality(T) \in Nat
  <2>1. IsFiniteSet(S) /\ IsFiniteSet(T)
    BY FDAssumption, FS_Subset
  <2> QED BY <2>1, FS_RemoveElement, FS_CardinalityType
<1>2. S \ {g} = T \ {g}
  OBVIOUS
<1>3. /\ Cardinality(S \ {g}) = IF g \in S THEN Cardinality(S) - 1 ELSE Cardinality(S)
      /\ Cardinality(T \ {g}) = IF g \in T THEN Cardinality(T) - 1 ELSE Cardinality(T)
  BY <1>1, FS_RemoveElement
<1> QED BY <1>1, <1>2, <1>3 DEF One

\* As many pairs for each goroutine as f says.
Rows(f) == UNION {{g} \X (1 .. f[g]) : g \in Goroutines}

LEMMA RowsFinite ==
  ASSUME NEW f \in [Goroutines -> Nat]
  PROVE  IsFiniteSet(Rows(f)) /\ Cardinality(Rows(f)) \in Nat
<1> DEFINE row == [g \in Goroutines |-> {g} \X (1 .. f[g])]
           rows == {{g} \X (1 .. f[g]) : g \in Goroutines}
<1>1. row \in Surjection(Goroutines, rows)
  BY DEF Surjection
<1>2. IsFiniteSet(rows)
  BY <1>1, FS_Surjection, FDAssumption
<1>3. \A g \in Goroutines : IsFiniteSet({g} \X (1 .. f[g]))
  <2> TAKE g \in Goroutines
  <2>1. f[g] \in Int
    OBVIOUS
  <2>2. IsFiniteSet({g})
    BY FS_Singleton
  <2>3. IsFiniteSet(1 .. f[g])
    BY <2>1, FS_Interval
  <2> QED BY <2>2, <2>3, FS_Product
<1>4. \A T \in rows : IsFiniteSet(T)
  BY <1>3
<1>5. IsFiniteSet(UNION rows)
  BY <1>2, <1>4, FS_UNION
<1> QED BY <1>5, FS_CardinalityType DEF Rows

\* The sum of a function that changes at g only.
LEMMA RowsMove ==
  ASSUME NEW f \in [Goroutines -> Nat], NEW e \in [Goroutines -> Nat], NEW g \in Goroutines,
         \A h \in Goroutines : h # g => e[h] = f[h]
  PROVE  Cardinality(Rows(e)) = Cardinality(Rows(f)) + e[g] - f[g]
<1> DEFINE rest == Rows(f) \ ({g} \X (1 .. f[g]))
           part(n) == {g} \X (1 .. n)
<1>1. ASSUME NEW n \in Nat
      PROVE  IsFiniteSet(part(n)) /\ Cardinality(part(n)) = n
  <2>1. IsFiniteSet({g}) /\ Cardinality({g}) = 1
    BY FS_Singleton
  <2>2. n \in Int /\ 1 \in Int
    BY <1>1
  <2>3. IsFiniteSet(1 .. n) /\ Cardinality(1 .. n) = IF 1 > n THEN 0 ELSE n - 1 + 1
    BY <2>2, FS_Interval
  <2>4. Cardinality(1 .. n) = n
    BY <1>1, <2>3
  <2>5. /\ IsFiniteSet({g} \X (1 .. n))
        /\ Cardinality({g} \X (1 .. n)) = Cardinality({g}) * Cardinality(1 .. n)
    BY <2>1, <2>3, FS_Product
  <2>6. 1 * n = n
    BY <1>1
  <2> QED BY <2>1, <2>4, <2>5, <2>6
<1>2. IsFiniteSet(rest) /\ Cardinality(rest) \in Nat
  <2>1. IsFiniteSet(rest)
    BY RowsFinite, FS_Difference
  <2> QED BY <2>1, FS_CardinalityType
<1>3. ASSUME NEW n \in Nat
      PROVE  Cardinality(rest \cup part(n)) = Cardinality(rest) + n
  <2>1. rest \cap part(n) = {}
    BY DEF Rows
  <2>2. Cardinality(rest \cap part(n)) = 0
    BY <2>1, FS_EmptySet
  <2>3. Cardinality(rest \cup part(n)) = Cardinality(rest) + Cardinality(part(n)) - 0
    <3> HIDE DEF rest, part
    <3> QED BY <1>1, <1>2, <2>2, FS_Union
  <2> HIDE DEF rest, part
  <2> QED BY <1>1, <1>2, <2>3
<1>4. Rows(f) = rest \cup part(f[g])
  BY DEF Rows
<1>5. Rows(e) = rest \cup part(e[g])
  <2>1. ASSUME NEW x \in Rows(e)
        PROVE  x \in rest \cup part(e[g])
    <3>1. PICK h \in Goroutines : x \in {h} \X (1 .. e[h])
      BY DEF Rows
    <3>2. CASE h = g
      BY <3>1, <3>2
    <3>3. CASE h # g
      <4>1. e[h] = f[h] /\ x \in {h} \X (1 .. f[h])
        BY <3>1, <3>3
      <4> QED BY <3>3, <4>1 DEF Rows
    <3> QED BY <3>2, <3>3
  <2>2. ASSUME NEW x \in rest
        PROVE  x \in Rows(e)
    <3>1. PICK h \in Goroutines : x \in {h} \X (1 .. f[h])
      BY <2>2 DEF Rows
    <3>2. h # g
      BY <2>2, <3>1
    <3>3. e[h] = f[h]
      BY <3>2
    <3> QED BY <3>1, <3>3 DEF Rows
  <2>3. part(e[g]) \subseteq Rows(e)
    BY DEF Rows
  <2> QED BY <2>1, <2>2, <2>3
<1> HIDE DEF rest, part
<1>6. f[g] \in Nat /\ e[g] \in Nat
  OBVIOUS
<1>7. Cardinality(Rows(f)) = Cardinality(rest) + f[g]
  BY <1>3, <1>4, <1>6
<1>8. Cardinality(Rows(e)) = Cardinality(rest) + e[g]
  BY <1>3, <1>5, <1>6
<1> QED BY <1>2, <1>6, <1>7, <1>8

-----------------------------------------------------------------------------
(* The invariant of the files.                                             *)

OpenPc == {"open", "opening", "unpoll", "unpolled"}
SignalPc == {"signal", "signal-destroy"}
DestroyPc == {"signal-destroy", "destroy", "closefunc", "csignal"}
IOPc == LockedPc \cup {"rwlock", "rwsleep"} \cup SignalPc
FPc == {"idle", "incref", "close", "csema", "csleep"} \cup OpenPc \cup IOPc \cup ReferencePc \cup DestroyPc

WordType == [closed : BOOLEAN, locked : SUBSET Modes, refs : Nat, waits : [Modes -> Nat]]

\* The types; no method has panicked.
FDTypeOK ==
  /\ fdmu \in [Files -> WordType]
  /\ sysfd \in [Files -> {"none", "open", "closed"}]
  /\ ctx \in [Files -> PollDescs \cup {Nobody}]
  /\ blocking \in [Files -> BOOLEAN]
  /\ fpc \in [Goroutines -> FPc]
  /\ op \in [Goroutines -> Op \cup {NoOp}]
  /\ owed \in [Goroutines -> [Modes -> Nat]]
  /\ permits \in [Addrs -> Nat]
  /\ DOMAIN waiting = Addrs
  /\ program \in [calls : [Goroutines -> Seq(Op)], ready : Nat]

\* Each label belongs to calls of its kinds.
Fits(l, o) ==
  /\ IF l = "idle" THEN o = NoOp ELSE o \in Op
  /\ l \in OpenPc => o.kind = "open"
  /\ l \in IOPc => o.kind = "io"
  /\ l = "incref" => o.kind \in {"setdeadline", "misc"}
  /\ l \in {"close", "release"} => o.kind = "close"
  /\ l = "decref" => o.kind \in {"setdeadline", "misc", "close"}

KindInv == \A g \in Goroutines : Fits(fpc[g], op[g])

\* What a goroutine counts for in the word of f.
Uses(g, f) == fpc[g] \in ReferencePc /\ file(g) = f
Holds(g, f, m) == fpc[g] \in LockedPc /\ file(g) = f /\ ioMode(g) = m
Sleeps(g, f, m) == fpc[g] = "rwsleep" /\ file(g) = f /\ ioMode(g) = m
Signals(g, f, m) == fpc[g] \in SignalPc /\ file(g) = f /\ ioMode(g) = m
OwedBy(g, f, m) == IF fpc[g] = "release" /\ file(g) = f THEN owed[g][m] ELSE 0

Holders(f, m) == {g \in On(f, LockedPc) : ioMode(g) = m}
Signallers(f, m) == {g \in On(f, SignalPc) : ioMode(g) = m}

WordInv ==
  \A f \in Files :
    /\ fdmu[f].refs = Cardinality(On(f, ReferencePc))
    /\ \A m \in Modes :
         /\ Cardinality(Holders(f, m)) = One(m \in fdmu[f].locked)
         /\ fdmu[f].waits[m] + Wakeups(f, m) = Cardinality(LockWaiters(f, m))
    /\ fdmu[f].closed => fdmu[f].waits = [m \in Modes |-> 0]

FDInv == FDTypeOK /\ KindInv /\ WordInv

LEMMA WordInvIsTrue ==
  ASSUME FDInv
  PROVE  WordTellsTruth
<1>1. \A g \in Goroutines : fpc[g] # "panic"
  BY DEF FDInv, FDTypeOK, FPc, OpenPc, IOPc, SignalPc, LockedPc, ReferencePc, DestroyPc
<1> QED BY <1>1 DEF FDInv, WordInv, WordTellsTruth, Holders, One

-----------------------------------------------------------------------------
(* A step of one goroutine.                                                *)

\* Only g moves.
Moves(g) ==
  \A h \in Goroutines \ {g} : fpc'[h] = fpc[h] /\ op'[h] = op[h] /\ owed'[h] = owed[h]

\* The words and the permits change by as much as g counts for more or less.
Balanced(g) ==
  \A f \in Files :
    /\ fdmu'[f].refs = fdmu[f].refs + One(Uses(g, f)') - One(Uses(g, f))
    /\ fdmu'[f].closed => fdmu'[f].waits = [m \in Modes |-> 0]
    /\ \A m \in Modes :
         /\ One(m \in fdmu'[f].locked) =
              One(m \in fdmu[f].locked) + One(Holds(g, f, m)') - One(Holds(g, f, m))
         /\ fdmu'[f].waits[m] + permits'[<<f, m>>] + One(Signals(g, f, m)') + OwedBy(g, f, m)'
               - One(Sleeps(g, f, m)')
              = fdmu[f].waits[m] + permits[<<f, m>>] + One(Signals(g, f, m)) + OwedBy(g, f, m)
                  - One(Sleeps(g, f, m))

\* What the goroutines of D owe, if r says what each does.
Owing(D, r, m) == UNION {{g} \X (1 .. r[g][m]) : g \in D}
Debts(D, r, m) == [g \in Goroutines |-> IF g \in D THEN r[g][m] ELSE 0]

LEMMA OwedRows ==
  ASSUME NEW D \in SUBSET Goroutines, NEW r \in [Goroutines -> [Modes -> Nat]], NEW m \in Modes
  PROVE  /\ Debts(D, r, m) \in [Goroutines -> Nat]
         /\ Owing(D, r, m) = Rows(Debts(D, r, m))
<1> DEFINE e == Debts(D, r, m)
<1>1. e \in [Goroutines -> Nat]
  BY DEF Debts
<1>2. \A g \in D : e[g] = r[g][m]
  BY DEF Debts
<1>3. \A g \in Goroutines : g \notin D => 1 .. e[g] = {}
  BY DEF Debts
<1> HIDE DEF e
<1>4. Owing(D, r, m) \subseteq Rows(e)
  BY <1>2 DEF Rows, Owing
<1>5. Rows(e) \subseteq Owing(D, r, m)
  <2> SUFFICES ASSUME NEW g \in Goroutines, NEW x \in {g} \X (1 .. e[g])
               PROVE  x \in Owing(D, r, m)
    BY DEF Rows
  <2>1. g \in D
    BY <1>3
  <2> QED BY <1>2, <2>1 DEF Owing
<1> QED BY <1>1, <1>4, <1>5 DEF e

LEMMA CountsType ==
  ASSUME FDTypeOK, NEW f \in Files, NEW m \in Modes
  PROVE  /\ Cardinality(On(f, ReferencePc)) \in Nat /\ Cardinality(Holders(f, m)) \in Nat
         /\ Cardinality(LockWaiters(f, m)) \in Nat /\ Cardinality(Signallers(f, m)) \in Nat
         /\ Cardinality(Owed(f, m)) \in Nat
<1>1. \A S \in SUBSET Goroutines : Cardinality(S) \in Nat
  BY FDAssumption, FS_Subset, FS_CardinalityType
<1>2. /\ On(f, ReferencePc) \subseteq Goroutines /\ Holders(f, m) \subseteq Goroutines
      /\ LockWaiters(f, m) \subseteq Goroutines /\ Signallers(f, m) \subseteq Goroutines
      /\ On(f, {"release"}) \subseteq Goroutines
  BY DEF On, Holders, LockWaiters, Signallers
<1>3. Cardinality(Owed(f, m)) \in Nat
  <2> DEFINE D == On(f, {"release"})
             d == Debts(D, owed, m)
  <2>1. Owed(f, m) = Owing(D, owed, m)
    BY DEF Owed, Owing
  <2>2. owed \in [Goroutines -> [Modes -> Nat]] /\ D \in SUBSET Goroutines
    BY <1>2 DEF FDTypeOK
  <2> HIDE DEF D
  <2>3. d \in [Goroutines -> Nat] /\ Owed(f, m) = Rows(d)
    BY <2>1, <2>2, OwedRows
  <2> HIDE DEF d
  <2> QED BY <2>3, RowsFinite
<1> QED BY <1>1, <1>2, <1>3

\* The counts of a file change by what g counts for.
LEMMA CountsMove ==
  ASSUME FDTypeOK, FDTypeOK', NEW g \in Goroutines, Moves(g), NEW f \in Files, NEW m \in Modes
  PROVE  /\ Cardinality(On(f, ReferencePc))' =
               Cardinality(On(f, ReferencePc)) + One(Uses(g, f)') - One(Uses(g, f))
         /\ Cardinality(Holders(f, m))' =
               Cardinality(Holders(f, m)) + One(Holds(g, f, m)') - One(Holds(g, f, m))
         /\ Cardinality(LockWaiters(f, m))' =
               Cardinality(LockWaiters(f, m)) + One(Sleeps(g, f, m)') - One(Sleeps(g, f, m))
         /\ Cardinality(Signallers(f, m))' =
               Cardinality(Signallers(f, m)) + One(Signals(g, f, m)') - One(Signals(g, f, m))
         /\ Cardinality(Owed(f, m))' =
               Cardinality(Owed(f, m)) + OwedBy(g, f, m)' - OwedBy(g, f, m)
<1>1. Cardinality(On(f, ReferencePc))' =
        Cardinality(On(f, ReferencePc)) + One(Uses(g, f)') - One(Uses(g, f))
  <2> DEFINE S == {h \in Goroutines : Uses(h, f)}
             T == {h \in Goroutines : Uses(h, f)'}
  <2>1. On(f, ReferencePc) = S /\ On(f, ReferencePc)' = T
    BY DEF On, Uses, ReferencePc, LockedPc, file
  <2>2. \A h \in Goroutines : h # g => (h \in S <=> h \in T)
    BY DEF Moves, Uses, file, ioMode
  <2>3. (g \in S <=> Uses(g, f)) /\ (g \in T <=> Uses(g, f)')
    OBVIOUS
  <2>4. S \in SUBSET Goroutines /\ T \in SUBSET Goroutines
    OBVIOUS
  <2>5. One(g \in T) = One(Uses(g, f)') /\ One(g \in S) = One(Uses(g, f))
    BY <2>3 DEF One
  <2> HIDE DEF S, T
  <2>6. Cardinality(T) = Cardinality(S) + One(g \in T) - One(g \in S)
    BY <2>2, <2>4, CountMoves
  <2> QED BY <2>1, <2>5, <2>6
<1>2. Cardinality(Holders(f, m))' =
        Cardinality(Holders(f, m)) + One(Holds(g, f, m)') - One(Holds(g, f, m))
  <2> DEFINE S == {h \in Goroutines : Holds(h, f, m)}
             T == {h \in Goroutines : Holds(h, f, m)'}
  <2>1. Holders(f, m) = S /\ Holders(f, m)' = T
    BY DEF Holders, On, Holds, LockedPc, file, ioMode
  <2>2. \A h \in Goroutines : h # g => (h \in S <=> h \in T)
    BY DEF Moves, Holds, file, ioMode
  <2>3. (g \in S <=> Holds(g, f, m)) /\ (g \in T <=> Holds(g, f, m)')
    OBVIOUS
  <2>4. S \in SUBSET Goroutines /\ T \in SUBSET Goroutines
    OBVIOUS
  <2>5. One(g \in T) = One(Holds(g, f, m)') /\ One(g \in S) = One(Holds(g, f, m))
    BY <2>3 DEF One
  <2> HIDE DEF S, T
  <2>6. Cardinality(T) = Cardinality(S) + One(g \in T) - One(g \in S)
    BY <2>2, <2>4, CountMoves
  <2> QED BY <2>1, <2>5, <2>6
<1>3. Cardinality(LockWaiters(f, m))' =
        Cardinality(LockWaiters(f, m)) + One(Sleeps(g, f, m)') - One(Sleeps(g, f, m))
  <2> DEFINE S == {h \in Goroutines : Sleeps(h, f, m)}
             T == {h \in Goroutines : Sleeps(h, f, m)'}
  <2>1. LockWaiters(f, m) = S /\ LockWaiters(f, m)' = T
    BY DEF LockWaiters, On, Sleeps, file, ioMode
  <2>2. \A h \in Goroutines : h # g => (h \in S <=> h \in T)
    BY DEF Moves, Sleeps, file, ioMode
  <2>3. (g \in S <=> Sleeps(g, f, m)) /\ (g \in T <=> Sleeps(g, f, m)')
    OBVIOUS
  <2>4. S \in SUBSET Goroutines /\ T \in SUBSET Goroutines
    OBVIOUS
  <2>5. One(g \in T) = One(Sleeps(g, f, m)') /\ One(g \in S) = One(Sleeps(g, f, m))
    BY <2>3 DEF One
  <2> HIDE DEF S, T
  <2>6. Cardinality(T) = Cardinality(S) + One(g \in T) - One(g \in S)
    BY <2>2, <2>4, CountMoves
  <2> QED BY <2>1, <2>5, <2>6
<1>4. Cardinality(Signallers(f, m))' =
        Cardinality(Signallers(f, m)) + One(Signals(g, f, m)') - One(Signals(g, f, m))
  <2> DEFINE S == {h \in Goroutines : Signals(h, f, m)}
             T == {h \in Goroutines : Signals(h, f, m)'}
  <2>1. Signallers(f, m) = S /\ Signallers(f, m)' = T
    BY DEF Signallers, On, Signals, SignalPc, file, ioMode
  <2>2. \A h \in Goroutines : h # g => (h \in S <=> h \in T)
    BY DEF Moves, Signals, file, ioMode
  <2>3. (g \in S <=> Signals(g, f, m)) /\ (g \in T <=> Signals(g, f, m)')
    OBVIOUS
  <2>4. S \in SUBSET Goroutines /\ T \in SUBSET Goroutines
    OBVIOUS
  <2>5. One(g \in T) = One(Signals(g, f, m)') /\ One(g \in S) = One(Signals(g, f, m))
    BY <2>3 DEF One
  <2> HIDE DEF S, T
  <2>6. Cardinality(T) = Cardinality(S) + One(g \in T) - One(g \in S)
    BY <2>2, <2>4, CountMoves
  <2> QED BY <2>1, <2>5, <2>6
<1>5. Cardinality(Owed(f, m))' = Cardinality(Owed(f, m)) + OwedBy(g, f, m)' - OwedBy(g, f, m)
  <2> DEFINE D == {h \in Goroutines : fpc[h] = "release" /\ file(h) = f}
             E == {h \in Goroutines : fpc'[h] = "release" /\ file(h)' = f}
             d == Debts(D, owed, m)
             e == Debts(E, owed', m)
  <2>1. d \in [Goroutines -> Nat] /\ Owed(f, m) = Rows(d)
    <3>1. Owed(f, m) = Owing(D, owed, m)
      BY DEF Owed, Owing, On
    <3>2. owed \in [Goroutines -> [Modes -> Nat]] /\ D \in SUBSET Goroutines
      BY DEF FDTypeOK
    <3> HIDE DEF D
    <3> QED BY <3>1, <3>2, OwedRows
  <2>2. e \in [Goroutines -> Nat] /\ Owed(f, m)' = Rows(e)
    <3>1. Owed(f, m)' = Owing(E, owed', m)
      BY DEF Owed, Owing, On
    <3>2. owed' \in [Goroutines -> [Modes -> Nat]] /\ E \in SUBSET Goroutines
      BY DEF FDTypeOK
    <3> HIDE DEF E
    <3> QED BY <3>1, <3>2, OwedRows
  <2>3. \A h \in Goroutines : h # g => e[h] = d[h]
    BY DEF Moves, Debts, file
  <2>4. d[g] = OwedBy(g, f, m) /\ e[g] = OwedBy(g, f, m)'
    BY DEF OwedBy, Debts
  <2> HIDE DEF d, e
  <2>5. Cardinality(Rows(e)) = Cardinality(Rows(d)) + e[g] - d[g]
    BY <2>1, <2>2, <2>3, RowsMove
  <2> QED BY <2>1, <2>2, <2>4, <2>5
<1> QED BY <1>1, <1>2, <1>3, <1>4, <1>5

\* So the word stays true.
LEMMA WordMoves ==
  ASSUME FDTypeOK, FDTypeOK', WordInv, NEW g \in Goroutines, Moves(g), Balanced(g)
  PROVE  WordInv'
<1> SUFFICES ASSUME NEW f \in Files
             PROVE  /\ fdmu'[f].refs = Cardinality(On(f, ReferencePc))'
                    /\ \A m \in Modes :
                         /\ Cardinality(Holders(f, m))' = One(m \in fdmu'[f].locked)
                         /\ fdmu'[f].waits[m] + Wakeups(f, m)' = Cardinality(LockWaiters(f, m))'
                    /\ fdmu'[f].closed => fdmu'[f].waits = [m \in Modes |-> 0]
  BY DEF WordInv
<1>1. fdmu'[f].closed => fdmu'[f].waits = [m \in Modes |-> 0]
  BY DEF Balanced
<1>2. fdmu'[f].refs = Cardinality(On(f, ReferencePc))'
  <2>1. PICK m \in Modes : TRUE
    BY DEF Modes
  <2>2. fdmu[f].refs = Cardinality(On(f, ReferencePc))
    BY DEF WordInv
  <2>3. fdmu'[f].refs = fdmu[f].refs + One(Uses(g, f)') - One(Uses(g, f))
    BY DEF Balanced
  <2>4. Cardinality(On(f, ReferencePc))' =
          Cardinality(On(f, ReferencePc)) + One(Uses(g, f)') - One(Uses(g, f))
    BY <2>1, CountsMove
  <2> QED BY <2>2, <2>3, <2>4
<1>3. ASSUME NEW m \in Modes
      PROVE  /\ Cardinality(Holders(f, m))' = One(m \in fdmu'[f].locked)
             /\ fdmu'[f].waits[m] + Wakeups(f, m)' = Cardinality(LockWaiters(f, m))'
  <2>1. Cardinality(Holders(f, m))' = One(m \in fdmu'[f].locked)
    <3>1. Cardinality(Holders(f, m)) = One(m \in fdmu[f].locked)
      BY DEF WordInv
    <3>2. One(m \in fdmu'[f].locked) = One(m \in fdmu[f].locked) + One(Holds(g, f, m)') - One(Holds(g, f, m))
      BY DEF Balanced
    <3>3. Cardinality(Holders(f, m))' = Cardinality(Holders(f, m)) + One(Holds(g, f, m)') - One(Holds(g, f, m))
      BY CountsMove
    <3> QED BY <3>1, <3>2, <3>3
  <2>2. <<f, m>> \in Addrs
    BY FDAssumption
  <2>3. /\ Wakeups(f, m) = permits[<<f, m>>] + Cardinality(Signallers(f, m)) + Cardinality(Owed(f, m))
        /\ Wakeups(f, m)' = permits'[<<f, m>>] + Cardinality(Signallers(f, m))' + Cardinality(Owed(f, m))'
    BY DEF Wakeups, Signallers, SignalPc
  <2>4. fdmu[f].waits[m] + Wakeups(f, m) = Cardinality(LockWaiters(f, m))
    BY DEF WordInv
  <2>5. /\ Cardinality(LockWaiters(f, m))' =
              Cardinality(LockWaiters(f, m)) + One(Sleeps(g, f, m)') - One(Sleeps(g, f, m))
        /\ Cardinality(Signallers(f, m))' =
              Cardinality(Signallers(f, m)) + One(Signals(g, f, m)') - One(Signals(g, f, m))
        /\ Cardinality(Owed(f, m))' = Cardinality(Owed(f, m)) + OwedBy(g, f, m)' - OwedBy(g, f, m)
    BY CountsMove
  <2>6. fdmu'[f].waits[m] + permits'[<<f, m>>] + One(Signals(g, f, m)') + OwedBy(g, f, m)'
               - One(Sleeps(g, f, m)')
          = fdmu[f].waits[m] + permits[<<f, m>>] + One(Signals(g, f, m)) + OwedBy(g, f, m)
              - One(Sleeps(g, f, m))
    BY DEF Balanced
  <2>7. /\ fdmu[f].waits[m] \in Int /\ fdmu'[f].waits[m] \in Int
        /\ permits[<<f, m>>] \in Int /\ permits'[<<f, m>>] \in Int
        /\ OwedBy(g, f, m) \in Int /\ OwedBy(g, f, m)' \in Int
    BY <2>2 DEF FDTypeOK, WordType, OwedBy
  <2>8. /\ One(Signals(g, f, m)) \in Int /\ One(Signals(g, f, m)') \in Int
        /\ One(Sleeps(g, f, m)) \in Int /\ One(Sleeps(g, f, m)') \in Int
    BY DEF One
  <2>9. /\ Cardinality(LockWaiters(f, m)) \in Int /\ Cardinality(Signallers(f, m)) \in Int
        /\ Cardinality(Owed(f, m)) \in Int
    BY CountsType
  <2>10. fdmu'[f].waits[m] + Wakeups(f, m)' = Cardinality(LockWaiters(f, m))'
    BY <2>3, <2>4, <2>5, <2>6, <2>7, <2>8, <2>9
  <2> QED BY <2>1, <2>10
<1> QED BY <1>1, <1>2, <1>3

-----------------------------------------------------------------------------
(* What the methods of fdMutex make of a word.                             *)

LEMMA WordOps ==
  ASSUME NEW w \in WordType, NEW m \in Modes
  PROVE  /\ incref(w) = [closed |-> w.closed, locked |-> w.locked, refs |-> w.refs + 1, waits |-> w.waits]
         /\ increfAndClose(w) =
              [closed |-> TRUE, locked |-> w.locked, refs |-> w.refs + 1, waits |-> [n \in Modes |-> 0]]
         /\ rwlock(w, m) =
              [closed |-> w.closed, locked |-> w.locked \cup {m}, refs |-> w.refs + 1, waits |-> w.waits]
         /\ rwwait(w, m) = [closed |-> w.closed, locked |-> w.locked, refs |-> w.refs,
                            waits |-> [w.waits EXCEPT ![m] = @ + 1]]
         /\ decref(w) = [closed |-> w.closed, locked |-> w.locked, refs |-> w.refs - 1, waits |-> w.waits]
         /\ rwunlock(w, m) =
              [closed |-> w.closed, locked |-> w.locked \ {m}, refs |-> w.refs - 1,
               waits |-> [w.waits EXCEPT ![m] = IF @ > 0 THEN @ - 1 ELSE 0]]
<1>1. PICK c \in BOOLEAN, k \in SUBSET Modes, n \in Nat, ws \in [Modes -> Nat] :
        w = [closed |-> c, locked |-> k, refs |-> n, waits |-> ws]
  BY DEF WordType
<1>2. w.closed = c /\ w.locked = k /\ w.refs = n /\ w.waits = ws
  BY <1>1
<1>3. incref(w) = [closed |-> c, locked |-> k, refs |-> n + 1, waits |-> ws]
  BY <1>1 DEF incref
<1>4. increfAndClose(w) = [closed |-> TRUE, locked |-> k, refs |-> n + 1, waits |-> [i \in Modes |-> 0]]
  <2>1. increfAndClose(w) =
          [[[w EXCEPT !.closed = TRUE] EXCEPT !.refs = @ + 1] EXCEPT !.waits = [i \in Modes |-> 0]]
    BY DEF increfAndClose
  <2>2. [w EXCEPT !.closed = TRUE] = [closed |-> TRUE, locked |-> k, refs |-> n, waits |-> ws]
    <3> DEFINE u == [w EXCEPT !.closed = TRUE]
    <3>1. u \in WordType
      BY DEF WordType
    <3>2. u.closed /\ u.locked = k /\ u.refs = n /\ u.waits = ws
      BY <1>2 DEF WordType
    <3> HIDE DEF u
    <3>3. u = [closed |-> u.closed, locked |-> u.locked, refs |-> u.refs, waits |-> u.waits]
      BY <3>1 DEF WordType
    <3>4. u.closed = TRUE
      BY <3>1, <3>2 DEF WordType
    <3>5. u = [closed |-> TRUE, locked |-> k, refs |-> n, waits |-> ws]
      BY <3>2, <3>3, <3>4
    <3> QED BY <3>5 DEF u
  <2> QED BY <2>1, <2>2
<1>5. rwlock(w, m) = [closed |-> c, locked |-> k \cup {m}, refs |-> n + 1, waits |-> ws]
  <2>1. rwlock(w, m) = [[w EXCEPT !.locked = @ \cup {m}] EXCEPT !.refs = @ + 1]
    BY DEF rwlock
  <2>2. [w EXCEPT !.locked = @ \cup {m}] = [closed |-> c, locked |-> k \cup {m}, refs |-> n, waits |-> ws]
    BY <1>1
  <2> QED BY <2>1, <2>2
<1>6. rwwait(w, m) = [closed |-> c, locked |-> k, refs |-> n, waits |-> [ws EXCEPT ![m] = @ + 1]]
  BY <1>1 DEF rwwait
<1>7. decref(w) = [closed |-> c, locked |-> k, refs |-> n - 1, waits |-> ws]
  BY <1>1 DEF decref
<1>8. rwunlock(w, m) = [closed |-> c, locked |-> k \ {m}, refs |-> n - 1,
                       waits |-> [ws EXCEPT ![m] = IF @ > 0 THEN @ - 1 ELSE 0]]
  <2>1. rwunlock(w, m) =
          [[[w EXCEPT !.locked = @ \ {m}] EXCEPT !.refs = @ - 1]
             EXCEPT !.waits[m] = IF @ > 0 THEN @ - 1 ELSE 0]
    BY DEF rwunlock
  <2>2. [w EXCEPT !.locked = @ \ {m}] = [closed |-> c, locked |-> k \ {m}, refs |-> n, waits |-> ws]
    BY <1>1
  <2>3. [[closed |-> c, locked |-> k \ {m}, refs |-> n, waits |-> ws] EXCEPT !.refs = @ - 1]
          = [closed |-> c, locked |-> k \ {m}, refs |-> n - 1, waits |-> ws]
    <3>1. PICK r : r = k \ {m}
      OBVIOUS
    <3>2. [[closed |-> c, locked |-> r, refs |-> n, waits |-> ws] EXCEPT !.refs = @ - 1]
            = [closed |-> c, locked |-> r, refs |-> n - 1, waits |-> ws]
      OBVIOUS
    <3> QED BY <3>1, <3>2
  <2>4. [[closed |-> c, locked |-> k \ {m}, refs |-> n - 1, waits |-> ws]
            EXCEPT !.waits[m] = IF @ > 0 THEN @ - 1 ELSE 0]
          = [closed |-> c, locked |-> k \ {m}, refs |-> n - 1,
             waits |-> [ws EXCEPT ![m] = IF @ > 0 THEN @ - 1 ELSE 0]]
    OBVIOUS
  <2> QED BY <2>1, <2>2, <2>3, <2>4
<1> QED BY <1>2, <1>3, <1>4, <1>5, <1>6, <1>7, <1>8

\* A word is never as large as the goroutines are many, if g is not among them.
LEMMA Room ==
  ASSUME FDTypeOK, WordInv, NEW g \in Goroutines, NEW f \in Files, NEW m \in Modes
  PROVE  /\ fpc[g] \notin ReferencePc => ~Wraps(fdmu[f].refs)
         /\ fpc[g] # "rwsleep" => ~Wraps(fdmu[f].waits[m])
<1>1. IsFiniteSet(Goroutines) /\ Cardinality(Goroutines) \in Nat
  BY FDAssumption, FS_CardinalityType
<1>2. ASSUME NEW S \in SUBSET Goroutines, g \notin S
      PROVE  Cardinality(S) \in Nat /\ Cardinality(S) < Cardinality(Goroutines)
  <2>1. S # Goroutines
    BY <1>2
  <2> QED BY <1>1, <2>1, FS_Subset, FS_CardinalityType
<1>3. ASSUME NEW n \in Nat, n < Cardinality(Goroutines)
      PROVE  ~Wraps(n)
  <2>1. CountLimit \in Nat /\ n + 1 \in Nat /\ 0 < n + 1 /\ n + 1 < CountLimit
    BY <1>1, <1>3, FDAssumption
  <2>2. (n + 1) % CountLimit = n + 1
    BY <2>1
  <2> QED BY <2>1, <2>2 DEF Wraps
<1>4. ASSUME fpc[g] \notin ReferencePc
      PROVE  ~Wraps(fdmu[f].refs)
  <2>1. g \notin On(f, ReferencePc) /\ On(f, ReferencePc) \in SUBSET Goroutines
    BY <1>4 DEF On
  <2>2. fdmu[f].refs = Cardinality(On(f, ReferencePc))
    BY DEF WordInv
  <2> QED BY <1>2, <1>3, <2>1, <2>2
<1>5. ASSUME fpc[g] # "rwsleep"
      PROVE  ~Wraps(fdmu[f].waits[m])
  <2>1. g \notin LockWaiters(f, m) /\ LockWaiters(f, m) \in SUBSET Goroutines
    BY <1>5 DEF LockWaiters, On
  <2>2. fdmu[f].waits[m] + Wakeups(f, m) = Cardinality(LockWaiters(f, m))
    BY DEF WordInv
  <2>3. fdmu[f].waits[m] \in Nat /\ <<f, m>> \in Addrs
    BY FDAssumption DEF FDTypeOK, WordType
  <2>4. Wakeups(f, m) \in Nat
    <3>1. permits[<<f, m>>] \in Nat
      BY <2>3 DEF FDTypeOK
    <3>2. Wakeups(f, m) = permits[<<f, m>>] + Cardinality(Signallers(f, m)) + Cardinality(Owed(f, m))
      BY DEF Wakeups, Signallers, SignalPc
    <3> QED BY <3>1, <3>2, CountsType
  <2>5. fdmu[f].waits[m] < Cardinality(Goroutines)
    BY <1>1, <1>2, <2>1, <2>2, <2>3, <2>4
  <2> QED BY <1>3, <2>3, <2>5
<1> QED BY <1>4, <1>5

\* Who holds a lock finds it set, and who holds a reference finds it counted.
LEMMA Held ==
  ASSUME FDTypeOK, WordInv, NEW g \in Goroutines, NEW f \in Files, file(g) = f
  PROVE  /\ fpc[g] \in ReferencePc => fdmu[f].refs > 0
         /\ \A m \in Modes : fpc[g] \in LockedPc /\ ioMode(g) = m => m \in fdmu[f].locked
<1>1. ASSUME NEW S \in SUBSET Goroutines, g \in S
      PROVE  Cardinality(S) \in Nat /\ Cardinality(S) > 0
  BY <1>1, FDAssumption, FS_Subset, FS_CardinalityType, FS_EmptySet
<1>2. ASSUME fpc[g] \in ReferencePc
      PROVE  fdmu[f].refs > 0
  <2>1. g \in On(f, ReferencePc) /\ On(f, ReferencePc) \in SUBSET Goroutines
    BY <1>2 DEF On
  <2> QED BY <1>1, <2>1 DEF WordInv
<1>3. ASSUME NEW m \in Modes, fpc[g] \in LockedPc, ioMode(g) = m
      PROVE  m \in fdmu[f].locked
  <2>1. g \in Holders(f, m) /\ Holders(f, m) \in SUBSET Goroutines
    BY <1>3 DEF Holders, On
  <2> QED BY <1>1, <2>1 DEF WordInv, One
<1> QED BY <1>2, <1>3

-----------------------------------------------------------------------------
(* The steps of a call.                                                    *)

\* g goes on at l, or its call is over.
Goes(g, l) ==
  /\ fpc' = [fpc EXCEPT ![g] = l]
  /\ op' = IF l = "idle" THEN [op EXCEPT ![g] = NoOp] ELSE op

LEMMA GoesFact ==
  ASSUME NEW g \in Goroutines, NEW l, l # "idle"
  PROVE  (FGoto(g, l) => Goes(g, l)) /\ (Done(g) => Goes(g, "idle"))
  BY DEF FGoto, Done, Goes

LEMMA GoesTypes ==
  ASSUME FDTypeOK, KindInv, NEW g \in Goroutines, fpc[g] # "idle", NEW l \in FPc, Goes(g, l),
         l = "idle" \/ Fits(l, op[g])
  PROVE  /\ fpc' \in [Goroutines -> FPc] /\ op' \in [Goroutines -> Op \cup {NoOp}]
         /\ KindInv' /\ fpc'[g] = l
         /\ op[g] \in Op /\ file(g) \in Files /\ ioMode(g) \in Modes
         /\ l # "idle" => op'[g] = op[g]
         /\ \A h \in Goroutines \ {g} : fpc'[h] = fpc[h] /\ op'[h] = op[h]
<1>1. /\ fpc' \in [Goroutines -> FPc] /\ fpc'[g] = l
      /\ op' \in [Goroutines -> Op \cup {NoOp}]
      /\ l # "idle" => op'[g] = op[g]
      /\ l = "idle" => op'[g] = NoOp
      /\ \A h \in Goroutines \ {g} : fpc'[h] = fpc[h] /\ op'[h] = op[h]
  BY DEF FDTypeOK, Goes
<1>2. op[g] \in Op
  BY DEF KindInv, Fits
<1>3. file(g) \in Files
  BY <1>2 DEF file, Op
<1>4. ioMode(g) \in Modes
  BY DEF ioMode, FirstMode, Modes
<1>5. Fits("idle", NoOp)
  BY DEF Fits, OpenPc, IOPc, LockedPc, SignalPc
<1>6. KindInv'
  BY <1>1, <1>5 DEF KindInv
<1> QED BY <1>1, <1>2, <1>3, <1>4, <1>6

\* The word of its file becomes v, and all its counts agree with the new label.
Local(g, l, v) ==
  LET f == file(g)  n == ioMode(g) IN
  /\ v \in WordType /\ fdmu' = [fdmu EXCEPT ![f] = v]
  /\ v.refs = fdmu[f].refs + One(l \in ReferencePc) - One(fpc[g] \in ReferencePc)
  /\ v.closed => v.waits = [m \in Modes |-> 0]
  /\ \A m \in Modes :
       /\ One(m \in v.locked) =
            One(m \in fdmu[f].locked) + One(l \in LockedPc /\ m = n) - One(fpc[g] \in LockedPc /\ m = n)
       /\ v.waits[m] + permits'[<<f, m>>] + One(l \in SignalPc /\ m = n)
             + (IF l = "release" THEN owed'[g][m] ELSE 0) - One(l = "rwsleep" /\ m = n)
            = fdmu[f].waits[m] + permits[<<f, m>>] + One(fpc[g] \in SignalPc /\ m = n)
                + (IF fpc[g] = "release" THEN owed[g][m] ELSE 0) - One(fpc[g] = "rwsleep" /\ m = n)
  /\ \A e \in Files \ {f}, m \in Modes : permits'[<<e, m>>] = permits[<<e, m>>]
  /\ \A h \in Goroutines \ {g} : owed'[h] = owed[h]

LEMMA LocalBalanced ==
  ASSUME FDTypeOK, KindInv, WordInv, NEW g \in Goroutines, fpc[g] # "idle", NEW l \in FPc, Goes(g, l),
         l = "idle" \/ Fits(l, op[g]), NEW v, Local(g, l, v)
  PROVE  Balanced(g) /\ Moves(g)
<1>1. /\ fpc'[g] = l /\ file(g) \in Files /\ ioMode(g) \in Modes
      /\ l # "idle" => op'[g] = op[g]
      /\ \A h \in Goroutines \ {g} : fpc'[h] = fpc[h] /\ op'[h] = op[h]
  BY GoesTypes
<1>2. Moves(g)
  BY <1>1 DEF Moves, Local
<1>3. l # "idle" => file(g)' = file(g) /\ ioMode(g)' = ioMode(g)
  BY <1>1 DEF file, ioMode
<1>4. "idle" \notin ReferencePc \cup LockedPc \cup SignalPc \cup {"rwsleep", "release"}
  BY DEF ReferencePc, LockedPc, SignalPc
<1>5. ASSUME NEW f \in Files, f # file(g)
      PROVE  /\ fdmu'[f] = fdmu[f] /\ ~Uses(g, f) /\ ~Uses(g, f)'
             /\ \A m \in Modes :
                  /\ ~Holds(g, f, m) /\ ~Holds(g, f, m)' /\ ~Signals(g, f, m) /\ ~Signals(g, f, m)'
                  /\ ~Sleeps(g, f, m) /\ ~Sleeps(g, f, m)'
                  /\ OwedBy(g, f, m) = 0 /\ OwedBy(g, f, m)' = 0
                  /\ permits'[<<f, m>>] = permits[<<f, m>>]
  <2>1. fdmu'[f] = fdmu[f] /\ \A m \in Modes : permits'[<<f, m>>] = permits[<<f, m>>]
    BY <1>5 DEF Local, FDTypeOK
  <2>2. l # "idle" => file(g)' # f
    BY <1>3, <1>5
  <2> QED BY <1>1, <1>4, <1>5, <2>1, <2>2 DEF Uses, Holds, Signals, Sleeps, OwedBy
<1>6. /\ Uses(g, file(g)) <=> fpc[g] \in ReferencePc
      /\ \A m \in Modes :
           /\ Holds(g, file(g), m) <=> fpc[g] \in LockedPc /\ m = ioMode(g)
           /\ Signals(g, file(g), m) <=> fpc[g] \in SignalPc /\ m = ioMode(g)
           /\ Sleeps(g, file(g), m) <=> fpc[g] = "rwsleep" /\ m = ioMode(g)
           /\ OwedBy(g, file(g), m) = IF fpc[g] = "release" THEN owed[g][m] ELSE 0
  BY DEF Uses, Holds, Signals, Sleeps, OwedBy
<1> DEFINE f == file(g)
           n == ioMode(g)
<1>7. PICK e \in Files, k \in Modes : e = file(g) /\ k = ioMode(g)
  BY <1>1
<1>8. /\ Uses(g, e)' <=> l \in ReferencePc
      /\ \A m \in Modes :
           /\ Holds(g, e, m)' <=> l \in LockedPc /\ m = k
           /\ Signals(g, e, m)' <=> l \in SignalPc /\ m = k
           /\ Sleeps(g, e, m)' <=> l = "rwsleep" /\ m = k
           /\ OwedBy(g, e, m)' = IF l = "release" THEN owed'[g][m] ELSE 0
  BY <1>1, <1>3, <1>4, <1>7 DEF Uses, Holds, Signals, Sleeps, OwedBy
<1>9. /\ fdmu'[e] = v
      /\ v.refs = fdmu[e].refs + One(l \in ReferencePc) - One(fpc[g] \in ReferencePc)
      /\ v.closed => v.waits = [m \in Modes |-> 0]
      /\ \A m \in Modes :
           /\ One(m \in v.locked) =
                One(m \in fdmu[e].locked) + One(l \in LockedPc /\ m = k) - One(fpc[g] \in LockedPc /\ m = k)
           /\ v.waits[m] + permits'[<<e, m>>] + One(l \in SignalPc /\ m = k)
                 + (IF l = "release" THEN owed'[g][m] ELSE 0) - One(l = "rwsleep" /\ m = k)
                = fdmu[e].waits[m] + permits[<<e, m>>] + One(fpc[g] \in SignalPc /\ m = k)
                    + (IF fpc[g] = "release" THEN owed[g][m] ELSE 0) - One(fpc[g] = "rwsleep" /\ m = k)
  BY <1>7 DEF Local, FDTypeOK
<1>10. ASSUME NEW d \in Files
       PROVE  /\ fdmu'[d].refs = fdmu[d].refs + One(Uses(g, d)') - One(Uses(g, d))
              /\ fdmu'[d].closed => fdmu'[d].waits = [m \in Modes |-> 0]
              /\ \A m \in Modes :
                   /\ One(m \in fdmu'[d].locked) =
                        One(m \in fdmu[d].locked) + One(Holds(g, d, m)') - One(Holds(g, d, m))
                   /\ fdmu'[d].waits[m] + permits'[<<d, m>>] + One(Signals(g, d, m)') + OwedBy(g, d, m)'
                         - One(Sleeps(g, d, m)')
                        = fdmu[d].waits[m] + permits[<<d, m>>] + One(Signals(g, d, m)) + OwedBy(g, d, m)
                            - One(Sleeps(g, d, m))
  <2>1. CASE d = e
    BY <1>6, <1>7, <1>8, <1>9, <2>1 DEF One
  <2>2. CASE d # e
    <3>1. fdmu[d].closed => fdmu[d].waits = [m \in Modes |-> 0]
      BY DEF WordInv
    <3>2. fdmu[d].refs \in Int /\ \A m \in Modes : fdmu[d].waits[m] \in Int /\ permits[<<d, m>>] \in Int
      BY FDAssumption DEF FDTypeOK, WordType
    <3> QED BY <1>5, <1>7, <2>2, <3>1, <3>2 DEF One
  <2> QED BY <2>1, <2>2
<1> QED BY <1>2, <1>10 DEF Balanced

\* The types that a step of a call need not know.
Rest ==
  /\ sysfd \in [Files -> {"none", "open", "closed"}]
  /\ ctx \in [Files -> PollDescs \cup {Nobody}]
  /\ blocking \in [Files -> BOOLEAN]
  /\ owed \in [Goroutines -> [Modes -> Nat]]
  /\ permits \in [Addrs -> Nat]
  /\ DOMAIN waiting = Addrs
  /\ program \in [calls : [Goroutines -> Seq(Op)], ready : Nat]

LEMMA StepKeeps ==
  ASSUME FDInv, NEW g \in Goroutines, fpc[g] # "idle", NEW l \in FPc, Goes(g, l),
         l = "idle" \/ Fits(l, op[g]), NEW v, Local(g, l, v), Rest'
  PROVE  FDInv'
<1>1. FDTypeOK /\ KindInv /\ WordInv
  BY DEF FDInv
<1>2. /\ fpc' \in [Goroutines -> FPc] /\ op' \in [Goroutines -> Op \cup {NoOp}]
      /\ KindInv'
  BY <1>1, GoesTypes
<1>3. fdmu' \in [Files -> WordType]
  BY <1>1 DEF FDTypeOK, Local
<1>4. FDTypeOK'
  BY <1>2, <1>3 DEF FDTypeOK, Rest
<1>5. Balanced(g) /\ Moves(g)
  BY <1>1, LocalBalanced
<1>6. WordInv'
  BY <1>1, <1>4, <1>5, WordMoves
<1> QED BY <1>2, <1>4, <1>6 DEF FDInv

\* A step from one of these to another does not touch the word.
FreePc ==
  OpenPc \cup {"idle", "incref", "close", "rwlock", "csema", "csleep", "destroy", "closefunc", "csignal"}

LEMMA QuietKeeps ==
  ASSUME FDInv, NEW g \in Goroutines, fpc[g] # "idle", NEW l \in FPc, Goes(g, l),
         l = "idle" \/ Fits(l, op[g]), Rest', fdmu' = fdmu, owed' = owed,
         \A f \in Files, m \in Modes : permits'[<<f, m>>] = permits[<<f, m>>],
         \/ fpc[g] \in FreePc /\ l \in FreePc
         \/ fpc[g] \in LockedPc /\ l \in LockedPc
         \/ fpc[g] = "release" /\ l = "decref" /\ \A m \in Modes : owed[g][m] = 0
  PROVE  FDInv'
<1> DEFINE f == file(g)  n == ioMode(g)
<1>1. FDTypeOK /\ KindInv /\ WordInv
  BY DEF FDInv
<1>2. f \in Files /\ n \in Modes
  BY <1>1, GoesTypes
<1>3. /\ fdmu[f] \in WordType /\ fdmu \in [Files -> WordType]
      /\ fdmu[f].refs \in Int /\ fdmu[f].closed \in BOOLEAN
      /\ \A m \in Modes : fdmu[f].waits[m] \in Int /\ permits[<<f, m>>] \in Int
  BY <1>1, <1>2, FDAssumption DEF FDTypeOK, WordType
<1>4. fdmu[f].closed => fdmu[f].waits = [m \in Modes |-> 0]
  BY <1>1, <1>2 DEF WordInv
<1>5. fdmu' = [fdmu EXCEPT ![f] = fdmu[f]]
  BY <1>2, <1>3
<1>6. /\ fpc[g] \in ReferencePc <=> l \in ReferencePc
      /\ fpc[g] \in LockedPc <=> l \in LockedPc
      /\ fpc[g] \notin SignalPc /\ l \notin SignalPc
      /\ fpc[g] # "rwsleep" /\ l # "rwsleep"
      /\ l # "release"
      /\ fpc[g] = "release" => \A m \in Modes : owed[g][m] = 0
  BY DEF FreePc, LockedPc, ReferencePc, OpenPc, SignalPc
<1>7. Local(g, l, fdmu[f])
  <2>1. \A m \in Modes :
          /\ fdmu[f].waits[m] + permits'[<<f, m>>] + One(l \in SignalPc /\ m = n)
                + (IF l = "release" THEN owed'[g][m] ELSE 0) - One(l = "rwsleep" /\ m = n)
               = fdmu[f].waits[m] + permits[<<f, m>>] + One(fpc[g] \in SignalPc /\ m = n)
                   + (IF fpc[g] = "release" THEN owed[g][m] ELSE 0) - One(fpc[g] = "rwsleep" /\ m = n)
    BY <1>2, <1>3, <1>6 DEF One
  <2>2. /\ fdmu[f].refs = fdmu[f].refs + One(l \in ReferencePc) - One(fpc[g] \in ReferencePc)
        /\ \A m \in Modes : One(m \in fdmu[f].locked) =
              One(m \in fdmu[f].locked) + One(l \in LockedPc /\ m = n) - One(fpc[g] \in LockedPc /\ m = n)
    BY <1>2, <1>3, <1>6 DEF One
  <2>3. /\ \A e \in Files \ {f}, m \in Modes : permits'[<<e, m>>] = permits[<<e, m>>]
        /\ \A h \in Goroutines \ {g} : owed'[h] = owed[h]
    OBVIOUS
  <2> QED BY <1>3, <1>4, <1>5, <2>1, <2>2, <2>3 DEF Local
<1> QED BY <1>7, StepKeeps

\* The types follow from those of what has changed.
LEMMA RestKeeps ==
  ASSUME FDInv, program' = program,
         owed' = owed, semaphoreVars' = semaphoreVars, fileVars' = fileVars
  PROVE  Rest' /\ \A f \in Files, m \in Modes : permits'[<<f, m>>] = permits[<<f, m>>]
  BY DEF FDInv, FDTypeOK, Rest, semaphoreVars, fileVars

-----------------------------------------------------------------------------
(* The types of the poller.                                                *)

TimerType == [f : SUBSET Modes, armed : BOOLEAN, seq : Nat]
SemType == {"nil", "ready", "wait"} \cup Goroutines

\* Where each actor is in its call.
ControlOK ==
  /\ DOMAIN npc = Actors /\ npd \in [Actors -> PollDescs]
  /\ todo \in [Actors -> SUBSET Modes]
  /\ when \in [Actors -> Int]
  /\ DOMAIN result = Goroutines

PollTypeOK ==
  /\ ControlOK
  /\ pdFile \in [PollDescs -> Files \cup {Nobody}]
  /\ closing \in [PollDescs -> BOOLEAN]
  /\ seq \in [PollDescs -> Nat]
  /\ sem \in [PollDescs -> [Modes -> SemType]]
  /\ deadline \in [PollDescs -> [Modes -> Int]]
  /\ timer \in [PollDescs -> [Modes -> TimerType]]
  /\ pdLock \in [PollDescs -> Actors \cup {Nobody}]
  /\ freeDescs \subseteq PollDescs
  /\ readable \in [Files -> SUBSET Modes]
  /\ registered \in [Files -> PollDescs \cup {Nobody}]
  /\ DOMAIN events = Pollers
  /\ woken \in [Actors -> SUBSET Goroutines]

LEMMA ModeFact ==
  /\ \A S : FirstMode(S) \in Modes
  /\ \A S \in SUBSET Modes : S # {} => FirstMode(S) \in S
  /\ \A a : mode(a) \in Modes
BY DEF FirstMode, Modes, mode

\* What a step stores in a descriptor.
LEMMA DescSets ==
  ASSUME PollTypeOK, NEW p \in PollDescs, NEW m \in Modes, NEW s \in SemType, SetSem(p, m, s)
  PROVE  sem' \in [PollDescs -> [Modes -> SemType]]
BY DEF SetSem, PollTypeOK

\* Where the actors are.
LEMMA ControlTypes ==
  ASSUME PollTypeOK
  PROVE  /\ \A a \in Actors : \A l : NGoto(a, l) => ControlOK'
         /\ \A g \in Goroutines : \A r : PollReturn(g, r) => ControlOK'
<1>1. ASSUME NEW a \in Actors, NEW l, NGoto(a, l)
      PROVE  ControlOK'
  BY <1>1 DEF NGoto, PollTypeOK, ControlOK
<1>2. ASSUME NEW g \in Goroutines, NEW r, PollReturn(g, r)
      PROVE  ControlOK'
  BY <1>2 DEF PollReturn, PollTypeOK, ControlOK, Actors
<1> QED BY <1>1, <1>2

LEMMA PollCallTypes ==
  ASSUME PollTypeOK
  PROVE  /\ \A g \in Goroutines : \A e : \A p \in PollDescs, ms \in SUBSET Modes, d \in Int :
              CallPoll(g, e, p, ms, d) => PollTypeOK'
         /\ \A g \in Goroutines : \A rs : Returned(g, rs) => PollTypeOK'
         /\ \A g \in Goroutines : PollOpen(g) => PollTypeOK'
<1>1. ASSUME NEW g \in Goroutines, NEW e, NEW p \in PollDescs, NEW ms \in SUBSET Modes, NEW d \in Int, CallPoll(g, e, p, ms, d) PROVE PollTypeOK'
  <2>1. ControlOK'
    BY <1>1 DEF CallPoll, Actors, PollTypeOK, ControlOK
  <2>2. UNCHANGED <<pdFile, closing, seq, sem, deadline, timer, pdLock, freeDescs, readable, registered, epoll, events, woken>>
    BY <1>1 DEF CallPoll, descVars, kernelVars, callVars
  <2> QED BY <2>1, <2>2 DEF PollTypeOK
<1>2. ASSUME NEW g \in Goroutines, NEW rs, Returned(g, rs) PROVE PollTypeOK'
  <2>1. ControlOK'
    BY <1>2 DEF Returned, PollTypeOK, ControlOK
  <2>2. UNCHANGED <<pdFile, closing, seq, sem, deadline, timer, pdLock, freeDescs, readable, registered, epoll, events, woken>>
    BY <1>2 DEF Returned, descVars, kernelVars, callVars
  <2> QED BY <2>1, <2>2 DEF PollTypeOK
<1>3. ASSUME NEW g \in Goroutines, PollOpen(g) PROVE PollTypeOK'
  <2>1. ControlOK'
    BY <1>3 DEF PollOpen, PollTypeOK, ControlOK
  <2>2. freeDescs' \subseteq PollDescs
    BY <1>3 DEF PollOpen, PollTypeOK
  <2>3. UNCHANGED <<pdFile, closing, seq, sem, deadline, timer, pdLock, readable, registered, epoll, events, woken>>
    BY <1>3 DEF PollOpen, descVars, kernelVars, callVars
  <2> QED BY <2>1, <2>2, <2>3 DEF PollTypeOK
<1> QED BY <1>1, <1>2, <1>3

LEMMA PollWaitTypes ==
  ASSUME PollTypeOK
  PROVE  /\ \A g \in Goroutines : PollReset(g) => PollTypeOK'
         /\ \A g \in Goroutines : PollResetStore(g) => PollTypeOK'
         /\ \A g \in Goroutines : PollWait(g) => PollTypeOK'
         /\ \A g \in Goroutines : NetpollBlock(g) => PollTypeOK'
         /\ \A g \in Goroutines : NetpollRecheck(g) => PollTypeOK'
         /\ \A g \in Goroutines : NetpollBlockCommit(g) => PollTypeOK'
         /\ \A g \in Goroutines : NetpollResume(g) => PollTypeOK'
<1>1. ASSUME NEW g \in Goroutines, PollReset(g) PROVE PollTypeOK'
  <2>1. ControlOK'
    BY <1>1, ControlTypes DEF PollReset, Actors
  <2>2. UNCHANGED <<pdFile, closing, seq, sem, deadline, timer, pdLock, freeDescs, readable, registered, epoll, events, woken>>
    BY <1>1 DEF PollReset, descVars, kernelVars, callVars
  <2> QED BY <2>1, <2>2 DEF PollTypeOK
<1>2. ASSUME NEW g \in Goroutines, PollResetStore(g) PROVE PollTypeOK'
  <2>1. ControlOK'
    BY <1>2, ControlTypes DEF PollResetStore
  <2>2. sem' \in [PollDescs -> [Modes -> SemType]]
    BY <1>2, ModeFact DEF PollResetStore, SetSem, SemType, PollTypeOK
  <2>3. UNCHANGED <<pdFile, closing, seq, deadline, timer, pdLock, freeDescs, readable, registered, epoll, events, woken>>
    BY <1>2 DEF PollResetStore, descVars, kernelVars, callVars
  <2> QED BY <2>1, <2>2, <2>3 DEF PollTypeOK
<1>3. ASSUME NEW g \in Goroutines, PollWait(g) PROVE PollTypeOK'
  <2>1. ControlOK'
    BY <1>3, ControlTypes DEF PollWait, Actors
  <2>2. UNCHANGED <<pdFile, closing, seq, sem, deadline, timer, pdLock, freeDescs, readable, registered, epoll, events, woken>>
    BY <1>3 DEF PollWait, descVars, kernelVars, callVars
  <2> QED BY <2>1, <2>2 DEF PollTypeOK
<1>4. ASSUME NEW g \in Goroutines, NetpollBlock(g) PROVE PollTypeOK'
  <2>1. ControlOK'
    BY <1>4, ControlTypes DEF NetpollBlock, Actors
  <2>2. sem' \in [PollDescs -> [Modes -> SemType]]
    <3>1. npd[g] \in PollDescs /\ mode(g) \in Modes
      BY ModeFact DEF PollTypeOK, ControlOK, Actors
    <3>2. sem' = sem \/ \E s \in {"nil", "wait"} : SetSem(npd[g], mode(g), s)
      BY <1>4 DEF NetpollBlock
    <3> QED BY <3>1, <3>2, DescSets DEF PollTypeOK, SemType
  <2>3. UNCHANGED <<pdFile, closing, seq, deadline, timer, pdLock, freeDescs, readable, registered, epoll, events, woken>>
    BY <1>4 DEF NetpollBlock, descVars, kernelVars, callVars
  <2> QED BY <2>1, <2>2, <2>3 DEF PollTypeOK
<1>5. ASSUME NEW g \in Goroutines, NetpollRecheck(g) PROVE PollTypeOK'
  <2>1. ControlOK'
    BY <1>5, ControlTypes DEF NetpollRecheck, Actors
  <2>2. UNCHANGED <<pdFile, closing, seq, sem, deadline, timer, pdLock, freeDescs, readable, registered, epoll, events, woken>>
    BY <1>5 DEF NetpollRecheck, descVars, kernelVars, callVars
  <2> QED BY <2>1, <2>2 DEF PollTypeOK
<1>6. ASSUME NEW g \in Goroutines, NetpollBlockCommit(g) PROVE PollTypeOK'
  <2>1. ControlOK'
    BY <1>6, ControlTypes DEF NetpollBlockCommit, Actors
  <2>2. sem' \in [PollDescs -> [Modes -> SemType]]
    <3>1. npd[g] \in PollDescs /\ mode(g) \in Modes
      BY ModeFact DEF PollTypeOK, ControlOK, Actors
    <3>2. sem' = sem \/ SetSem(npd[g], mode(g), g)
      BY <1>6 DEF NetpollBlockCommit
    <3> QED BY <3>1, <3>2, DescSets DEF PollTypeOK, SemType
  <2>3. UNCHANGED <<pdFile, closing, seq, deadline, timer, pdLock, freeDescs, readable, registered, epoll, events, woken>>
    BY <1>6 DEF NetpollBlockCommit, descVars, kernelVars, callVars
  <2> QED BY <2>1, <2>2, <2>3 DEF PollTypeOK
<1>7. ASSUME NEW g \in Goroutines, NetpollResume(g) PROVE PollTypeOK'
  <2>1. ControlOK'
    BY <1>7, ControlTypes DEF NetpollResume, Actors
  <2>2. sem' \in [PollDescs -> [Modes -> SemType]]
    BY <1>7, ModeFact DEF NetpollResume, SetSem, SemType, PollTypeOK
  <2>3. UNCHANGED <<pdFile, closing, seq, deadline, timer, pdLock, freeDescs, readable, registered, epoll, events, woken>>
    BY <1>7 DEF NetpollResume, descVars, kernelVars, callVars
  <2> QED BY <2>1, <2>2, <2>3 DEF PollTypeOK
<1> QED BY <1>1, <1>2, <1>3, <1>4, <1>5, <1>6, <1>7

LEMMA TimersForType ==
  ASSUME NEW dl \in [Modes -> Int], NEW s \in Nat
  PROVE  TimersFor(dl, s) \in [Modes -> TimerType]
<1>1. /\ NoTimer \in TimerType
      /\ \A m \in Modes : [f |-> {m}, armed |-> TRUE, seq |-> s] \in TimerType
      /\ [f |-> Modes, armed |-> TRUE, seq |-> s] \in TimerType
  BY DEF NoTimer, TimerType
<1> QED BY <1>1 DEF TimersFor

LEMMA PollEndTypes ==
  ASSUME PollTypeOK
  PROVE  /\ \A a \in Actors : Unblock(a) \/ NetpollGoready(a) => PollTypeOK'
         /\ \A g \in Goroutines : PollSetDeadline(g) \/ PollUnblock(g) => PollTypeOK'
         /\ \A t \in TimerProcs : TimerFires(t) \/ DeadlineImpl(t) \/ Expire(t) => PollTypeOK'
<1>1. ASSUME NEW a \in Actors, Unblock(a) PROVE PollTypeOK'
  <2>1. ControlOK'
    BY <1>1 DEF Unblock, PollTypeOK, ControlOK
  <2>2. sem' \in [PollDescs -> [Modes -> SemType]]
    BY <1>1 DEF Unblock, NetpollUnblock, SetSem, Unblocked, SemType, PollTypeOK
  <2>3. woken' \in [Actors -> SUBSET Goroutines]
    BY <1>1 DEF Unblock, NetpollUnblock, Waiter, PollTypeOK
  <2>4. timer' \in [PollDescs -> [Modes -> TimerType]]
    BY <1>1, TimersForType DEF Unblock, TimerType, NoTimer, PollTypeOK
  <2>5. pdLock' \in [PollDescs -> Actors \cup {Nobody}]
    BY <1>1 DEF Unblock, PollTypeOK
  <2>6. UNCHANGED <<pdFile, closing, seq, deadline, freeDescs, readable, registered, epoll, events>>
    BY <1>1 DEF Unblock, descVars, kernelVars, callVars
  <2> QED BY <2>1, <2>2, <2>3, <2>4, <2>5, <2>6 DEF PollTypeOK
<1>2. ASSUME NEW a \in Actors, NetpollGoready(a) PROVE PollTypeOK'
  <2>1. ControlOK'
    BY <1>2 DEF NetpollGoready, PollTypeOK, ControlOK
  <2>2. woken' \in [Actors -> SUBSET Goroutines]
    BY <1>2 DEF NetpollGoready, PollTypeOK
  <2>3. UNCHANGED <<pdFile, closing, seq, sem, deadline, timer, pdLock, freeDescs, readable, registered, epoll, events>>
    BY <1>2 DEF NetpollGoready, descVars, kernelVars, callVars
  <2> QED BY <2>1, <2>2, <2>3 DEF PollTypeOK
<1>3. ASSUME NEW g \in Goroutines, PollSetDeadline(g) PROVE PollTypeOK'
  <2>1. ControlOK'
    <3>1. g \in Actors
      BY DEF Actors
    <3>2. CASE \E r : PollReturn(g, r)
      BY <3>2, ControlTypes
    <3>3. CASE npc' = [npc EXCEPT ![g] = "unblock"] /\ UNCHANGED <<npd, when, result>>
      <4>1. PICK past \in SUBSET Modes : todo' = [todo EXCEPT ![g] = past]
        BY <1>3, <3>3 DEF PollSetDeadline, PollReturn
      <4> QED BY <3>1, <3>3, <4>1 DEF PollTypeOK, ControlOK
    <3> QED BY <1>3, <3>2, <3>3 DEF PollSetDeadline
  <2>2. seq' \in [PollDescs -> Nat]
    BY <1>3 DEF PollSetDeadline, PollTypeOK
  <2>3. deadline' \in [PollDescs -> [Modes -> Int]]
    <3>1. npd[g] \in PollDescs /\ when[g] \in Int /\ deadline[npd[g]] \in [Modes -> Int]
      BY DEF PollTypeOK, ControlOK, Actors
    <3>2. [m \in Modes |-> IF m \in todo[g] THEN when[g] ELSE deadline[npd[g]][m]] \in [Modes -> Int]
      BY <3>1
    <3>3. deadline' = deadline \/ \E dl \in [Modes -> Int] : deadline' = [deadline EXCEPT ![npd[g]] = dl]
      BY <1>3, <3>2 DEF PollSetDeadline
    <3> QED BY <3>1, <3>3 DEF PollTypeOK
  <2>4. timer' \in [PollDescs -> [Modes -> TimerType]]
    <3>1. /\ npd[g] \in PollDescs /\ when[g] \in Int /\ deadline[npd[g]] \in [Modes -> Int]
          /\ seq[npd[g]] + 1 \in Nat
      BY DEF PollTypeOK, ControlOK, Actors
    <3>2. [m \in Modes |-> IF m \in todo[g] THEN when[g] ELSE deadline[npd[g]][m]] \in [Modes -> Int]
      BY <3>1
    <3>3. timer' = timer \/ \E x \in [Modes -> TimerType] : timer' = [timer EXCEPT ![npd[g]] = x]
      BY <1>3, <3>1, <3>2, TimersForType DEF PollSetDeadline
    <3> QED BY <3>1, <3>3 DEF PollTypeOK
  <2>5. pdLock' \in [PollDescs -> Actors \cup {Nobody}]
    BY <1>3 DEF PollSetDeadline, Actors, PollTypeOK
  <2>6. UNCHANGED <<pdFile, closing, sem, freeDescs, readable, registered, epoll, events, woken>>
    BY <1>3 DEF PollSetDeadline, descVars, kernelVars, callVars
  <2> QED BY <2>1, <2>2, <2>3, <2>4, <2>5, <2>6 DEF PollTypeOK
<1>4. ASSUME NEW g \in Goroutines, PollUnblock(g) PROVE PollTypeOK'
  <2>1. ControlOK'
    BY <1>4, ControlTypes DEF PollUnblock, Actors
  <2>2. closing' \in [PollDescs -> BOOLEAN]
    BY <1>4 DEF PollUnblock, PollTypeOK
  <2>3. seq' \in [PollDescs -> Nat]
    BY <1>4 DEF PollUnblock, PollTypeOK
  <2>4. pdLock' \in [PollDescs -> Actors \cup {Nobody}]
    BY <1>4 DEF PollUnblock, Actors, PollTypeOK
  <2>5. UNCHANGED <<pdFile, sem, deadline, timer, freeDescs, readable, registered, epoll, events, woken>>
    BY <1>4 DEF PollUnblock, descVars, kernelVars, callVars
  <2> QED BY <2>1, <2>2, <2>3, <2>4, <2>5 DEF PollTypeOK
<1>5. ASSUME NEW t \in TimerProcs, TimerFires(t) PROVE PollTypeOK'
  <2>1. ControlOK'
    <3>1. t \in Actors
      BY DEF Actors
    <3>2. PICK p \in PollDescs, m \in Modes :
            /\ npc' = [npc EXCEPT ![t] = "deadline"] /\ npd' = [npd EXCEPT ![t] = p]
            /\ todo' = [todo EXCEPT ![t] = timer[p][m].f] /\ when' = [when EXCEPT ![t] = timer[p][m].seq]
            /\ result' = result
      BY <1>5 DEF TimerFires
    <3>3. timer[p][m].f \in SUBSET Modes /\ timer[p][m].seq \in Int
      BY DEF PollTypeOK, TimerType
    <3> QED BY <3>1, <3>2, <3>3 DEF PollTypeOK, ControlOK
  <2>2. timer' \in [PollDescs -> [Modes -> TimerType]]
    <3>1. PICK p \in PollDescs, m \in Modes : timer' = [timer EXCEPT ![p][m].armed = FALSE]
      BY <1>5 DEF TimerFires
    <3>2. timer[p][m] \in TimerType
      BY DEF PollTypeOK
    <3>3. [timer[p][m] EXCEPT !.armed = FALSE] \in TimerType
      BY <3>2 DEF TimerType
    <3>4. timer' = [timer EXCEPT ![p][m] = [timer[p][m] EXCEPT !.armed = FALSE]]
      BY <3>1
    <3>5. PICK x \in TimerType : x = [timer[p][m] EXCEPT !.armed = FALSE]
      BY <3>3
    <3>6. timer' = [timer EXCEPT ![p][m] = x]
      BY <3>4, <3>5
    <3> QED BY <3>6 DEF PollTypeOK
  <2>3. UNCHANGED <<pdFile, closing, seq, sem, deadline, pdLock, freeDescs, readable, registered, epoll, events, woken>>
    BY <1>5 DEF TimerFires, descVars, kernelVars, callVars
  <2> QED BY <2>1, <2>2, <2>3 DEF PollTypeOK
<1>6. ASSUME NEW t \in TimerProcs, DeadlineImpl(t) PROVE PollTypeOK'
  <2>1. ControlOK'
    <3>1. t \in Actors
      BY DEF Actors
    <3>2. CASE \E l : NGoto(t, l)
      BY <3>1, <3>2, ControlTypes
    <3>3. CASE /\ npc' = [npc EXCEPT ![t] = "idle"] /\ todo' = [todo EXCEPT ![t] = {}]
               /\ when' = [when EXCEPT ![t] = 0] /\ UNCHANGED <<npd, result>>
      BY <3>1, <3>3 DEF PollTypeOK, ControlOK
    <3> QED BY <1>6, <3>2, <3>3 DEF DeadlineImpl
  <2>2. pdLock' \in [PollDescs -> Actors \cup {Nobody}]
    BY <1>6 DEF DeadlineImpl, Actors, PollTypeOK
  <2>3. UNCHANGED <<pdFile, closing, seq, sem, deadline, timer, freeDescs, readable, registered, epoll, events, woken>>
    BY <1>6 DEF DeadlineImpl, descVars, kernelVars, callVars
  <2> QED BY <2>1, <2>2, <2>3 DEF PollTypeOK
<1>7. ASSUME NEW t \in TimerProcs, Expire(t) PROVE PollTypeOK'
  <2>1. ControlOK'
    BY <1>7, ControlTypes DEF Expire, Actors
  <2>2. deadline' \in [PollDescs -> [Modes -> Int]]
    <3>1. npd[t] \in PollDescs /\ mode(t) \in Modes
      BY ModeFact DEF PollTypeOK, ControlOK, Actors
    <3>2. deadline' = deadline \/ deadline' = [deadline EXCEPT ![npd[t]][mode(t)] = -1]
      BY <1>7 DEF Expire
    <3>3. PICK i \in Int : i = -1
      OBVIOUS
    <3>4. CASE deadline' = [deadline EXCEPT ![npd[t]][mode(t)] = i]
      BY <3>1, <3>4 DEF PollTypeOK
    <3> QED BY <3>2, <3>3, <3>4 DEF PollTypeOK
  <2>3. timer' \in [PollDescs -> [Modes -> TimerType]]
    <3>1. npd[t] \in PollDescs
      BY DEF PollTypeOK, ControlOK, Actors
    <3>2. PICK p \in PollDescs : p = npd[t]
      BY <3>1
    <3>3. ASSUME NEW n \in Modes PROVE [timer[p][n] EXCEPT !.f = @ \ {mode(t)}] \in TimerType
      <4>1. PICK y \in TimerType : y = timer[p][n]
        BY DEF PollTypeOK
      <4>2. PICK z \in SUBSET Modes : z = y.f \ {mode(t)}
        BY DEF TimerType
      <4>3. [y EXCEPT !.f = z] \in TimerType
        BY DEF TimerType
      <4> QED BY <4>1, <4>2, <4>3
    <3> DEFINE x == [n \in Modes |-> [timer[npd[t]][n] EXCEPT !.f = @ \ {mode(t)}]]
    <3>4. timer' = timer \/ timer' = [timer EXCEPT ![npd[t]] = x]
      BY <1>7 DEF Expire
    <3>5. x \in [Modes -> TimerType]
      BY <3>2, <3>3
    <3> HIDE DEF x
    <3> QED BY <3>1, <3>4, <3>5 DEF PollTypeOK
  <2>4. UNCHANGED <<pdFile, closing, seq, sem, pdLock, freeDescs, readable, registered, epoll, events, woken>>
    BY <1>7 DEF Expire, descVars, kernelVars, callVars
  <2> QED BY <2>1, <2>2, <2>3, <2>4 DEF PollTypeOK
<1> QED BY <1>1, <1>2, <1>3, <1>4, <1>5, <1>6, <1>7

LEMMA PollLifeTypes ==
  ASSUME PollTypeOK
  PROVE  /\ \A g \in Goroutines, f \in Files \cup {Nobody} : PollOpenReset(g, f) => PollTypeOK'
         /\ \A g \in Goroutines : PollOpenRegister(g) \/ PollClose(g) \/ PollFree(g) => PollTypeOK'
         /\ \A f \in Files, m \in Modes : BecomesReady(f, m) \/ Consume(f, m) => PollTypeOK'
         /\ \A n \in Pollers : EpollWait(n) \/ NetpollReady(n) => PollTypeOK'
<1>1. ASSUME NEW g \in Goroutines, NEW f \in Files \cup {Nobody}, PollOpenReset(g, f) PROVE PollTypeOK'
  <2>1. ControlOK'
    BY <1>1, ControlTypes DEF PollOpenReset, Actors
  <2>2. pdFile' \in [PollDescs -> Files \cup {Nobody}]
    BY <1>1 DEF PollOpenReset, PollTypeOK
  <2>3. closing' \in [PollDescs -> BOOLEAN]
    BY <1>1 DEF PollOpenReset, PollTypeOK
  <2>4. seq' \in [PollDescs -> Nat]
    BY <1>1 DEF PollOpenReset, PollTypeOK
  <2>5. sem' \in [PollDescs -> [Modes -> SemType]]
    <3>1. npd[g] \in PollDescs
      BY DEF PollTypeOK, ControlOK, Actors
    <3>2. [m \in Modes |-> "nil"] \in [Modes -> SemType]
      BY DEF SemType
    <3>3. sem' = sem \/ \E x \in [Modes -> SemType] : sem' = [sem EXCEPT ![npd[g]] = x]
      BY <1>1, <3>2 DEF PollOpenReset
    <3> QED BY <3>1, <3>3 DEF PollTypeOK
  <2>6. deadline' \in [PollDescs -> [Modes -> Int]]
    <3>1. npd[g] \in PollDescs
      BY DEF PollTypeOK, ControlOK, Actors
    <3>2. [m \in Modes |-> 0] \in [Modes -> Int]
      OBVIOUS
    <3>3. deadline' = deadline \/ \E x \in [Modes -> Int] : deadline' = [deadline EXCEPT ![npd[g]] = x]
      BY <1>1, <3>2 DEF PollOpenReset
    <3> QED BY <3>1, <3>3 DEF PollTypeOK
  <2>7. UNCHANGED <<timer, pdLock, freeDescs, readable, registered, epoll, events, woken>>
    BY <1>1 DEF PollOpenReset, descVars, kernelVars, callVars
  <2> QED BY <2>1, <2>2, <2>3, <2>4, <2>5, <2>6, <2>7 DEF PollTypeOK
<1>2. ASSUME NEW g \in Goroutines, PollOpenRegister(g) PROVE PollTypeOK'
  <2>1. ControlOK'
    BY <1>2, ControlTypes DEF PollOpenRegister, Actors
  <2>2. registered' \in [Files -> PollDescs \cup {Nobody}]
    <3>1. npd[g] \in PollDescs
      BY DEF PollTypeOK, ControlOK, Actors
    <3>2. registered' = registered \/ \E f : registered' = [registered EXCEPT ![f] = npd[g]]
      BY <1>2 DEF PollOpenRegister
    <3> QED BY <3>1, <3>2 DEF PollTypeOK
  <2>3. UNCHANGED <<pdFile, closing, seq, sem, deadline, timer, pdLock, freeDescs, readable, events, woken>>
    BY <1>2 DEF PollOpenRegister, descVars, kernelVars, callVars
  <2> QED BY <2>1, <2>2, <2>3 DEF PollTypeOK
<1>3. ASSUME NEW g \in Goroutines, PollClose(g) PROVE PollTypeOK'
  <2>1. ControlOK'
    BY <1>3, ControlTypes DEF PollClose, Actors
  <2>2. registered' \in [Files -> PollDescs \cup {Nobody}]
    BY <1>3 DEF PollClose, Actors, PollTypeOK
  <2>3. UNCHANGED <<pdFile, closing, seq, sem, deadline, timer, pdLock, freeDescs, readable, events, woken>>
    BY <1>3 DEF PollClose, descVars, kernelVars, callVars
  <2> QED BY <2>1, <2>2, <2>3 DEF PollTypeOK
<1>4. ASSUME NEW g \in Goroutines, PollFree(g) PROVE PollTypeOK'
  <2>1. ControlOK'
    BY <1>4, ControlTypes DEF PollFree, Actors
  <2>2. pdFile' \in [PollDescs -> Files \cup {Nobody}]
    BY <1>4 DEF PollFree, Actors, PollTypeOK
  <2>3. freeDescs' \subseteq PollDescs
    <3>1. npd[g] \in PollDescs
      BY DEF PollTypeOK, ControlOK, Actors
    <3>2. freeDescs' = freeDescs \cup {npd[g]}
      BY <1>4 DEF PollFree
    <3> QED BY <3>1, <3>2 DEF PollTypeOK
  <2>4. UNCHANGED <<closing, seq, sem, deadline, timer, pdLock, readable, registered, epoll, events, woken>>
    BY <1>4 DEF PollFree, descVars, kernelVars, callVars
  <2> QED BY <2>1, <2>2, <2>3, <2>4 DEF PollTypeOK
<1>5. ASSUME NEW f \in Files, NEW m \in Modes, BecomesReady(f, m) PROVE PollTypeOK'
  <2>1. ControlOK'
    BY <1>5 DEF BecomesReady, callVars, PollTypeOK, ControlOK
  <2>2. readable' \in [Files -> SUBSET Modes]
    BY <1>5 DEF BecomesReady, PollTypeOK
  <2>3. UNCHANGED <<pdFile, closing, seq, sem, deadline, timer, pdLock, freeDescs, registered, events, woken>>
    BY <1>5 DEF BecomesReady, descVars, kernelVars, callVars
  <2> QED BY <2>1, <2>2, <2>3 DEF PollTypeOK
<1>6. ASSUME NEW f \in Files, NEW m \in Modes, Consume(f, m) PROVE PollTypeOK'
  <2>1. ControlOK'
    BY <1>6 DEF Consume, callVars, PollTypeOK, ControlOK
  <2>2. readable' \in [Files -> SUBSET Modes]
    BY <1>6 DEF Consume, PollTypeOK
  <2>3. UNCHANGED <<pdFile, closing, seq, sem, deadline, timer, pdLock, freeDescs, registered, epoll, events, woken>>
    BY <1>6 DEF Consume, descVars, kernelVars, callVars
  <2> QED BY <2>1, <2>2, <2>3 DEF PollTypeOK
<1>7. ASSUME NEW n \in Pollers, EpollWait(n) PROVE PollTypeOK'
  <2>1. ControlOK'
    BY <1>7, ControlTypes DEF EpollWait, Actors
  <2>2. DOMAIN events' = Pollers
    BY <1>7 DEF EpollWait, PollTypeOK
  <2>3. UNCHANGED <<pdFile, closing, seq, sem, deadline, timer, pdLock, freeDescs, readable, registered, woken>>
    BY <1>7 DEF EpollWait, descVars, kernelVars, callVars
  <2> QED BY <2>1, <2>2, <2>3 DEF PollTypeOK
<1>8. ASSUME NEW n \in Pollers, NetpollReady(n) PROVE PollTypeOK'
  <2>1. ControlOK'
    BY <1>8, ControlTypes DEF NetpollReady, Actors
  <2>2. sem' \in [PollDescs -> [Modes -> SemType]]
    <3>1. PICK p, m : sem' = [sem EXCEPT ![p][m] = Unblocked(sem[p][m], TRUE)]
      BY <1>8 DEF NetpollReady, NetpollUnblock, SetSem
    <3>2. \A s : Unblocked(s, TRUE) = "ready"
      BY DEF Unblocked
    <3>3. sem' = [sem EXCEPT ![p] = [sem[p] EXCEPT ![m] = "ready"]]
      BY <3>1, <3>2
    <3>4. p \in PollDescs => [sem[p] EXCEPT ![m] = "ready"] \in [Modes -> SemType]
      BY DEF PollTypeOK, SemType
    <3> QED BY <3>3, <3>4 DEF PollTypeOK
  <2>3. woken' \in [Actors -> SUBSET Goroutines]
    BY <1>8 DEF NetpollReady, NetpollUnblock, Waiter, PollTypeOK
  <2>4. DOMAIN events' = Pollers
    BY <1>8 DEF NetpollReady, PollTypeOK
  <2>5. UNCHANGED <<pdFile, closing, seq, deadline, timer, pdLock, freeDescs, readable, registered, epoll>>
    BY <1>8 DEF NetpollReady, descVars, kernelVars, callVars
  <2> QED BY <2>1, <2>2, <2>3, <2>4, <2>5 DEF PollTypeOK
<1> QED BY <1>1, <1>2, <1>3, <1>4, <1>5, <1>6, <1>7, <1>8

-----------------------------------------------------------------------------
(* The calls keep the words true.                                          *)

LEMMA OpenKeeps ==
  ASSUME FDInv, PollTypeOK, NEW g \in Goroutines, Open(g), program' = program
  PROVE  FDInv'
<1>1. fpc[g] = "open" /\ fdmu' = fdmu /\ owed' = owed
  BY DEF Open
<1>2. \E l \in {"opening"} : Goes(g, l)
  BY GoesFact DEF Open
<1>3. Rest' /\ \A f \in Files, m \in Modes : permits'[<<f, m>>] = permits[<<f, m>>]
  BY RestKeeps DEF Open, semaphoreVars, fileVars
<1>4. Fits(fpc[g], op[g])
  BY DEF FDInv, KindInv
<1>5. CASE Goes(g, "opening")
  <2>1. Fits("opening", op[g])
    BY <1>1, <1>4 DEF Fits, OpenPc, IOPc, LockedPc, ReferencePc, SignalPc, DestroyPc
  <2> QED BY <1>1, <1>3, <1>5, <2>1, QuietKeeps DEF FPc, FreePc, OpenPc, IOPc, LockedPc, ReferencePc, SignalPc, DestroyPc
<1> QED BY <1>2, <1>5

LEMMA OpenedKeeps ==
  ASSUME FDInv, PollTypeOK, NEW g \in Goroutines, Opened(g), program' = program
  PROVE  FDInv'
<1>1. fpc[g] = "opening" /\ fdmu' = fdmu /\ owed' = owed
  BY DEF Opened
<1>2. \E l \in {"idle"} : Goes(g, l)
  BY GoesFact DEF Opened
<1>3. Rest' /\ \A f \in Files, m \in Modes : permits'[<<f, m>>] = permits[<<f, m>>]
  <2>1. npd[g] \in PollDescs
    BY DEF PollTypeOK, ControlOK, Actors
  <2>2. Rest'
    BY <2>1 DEF Opened, FDInv, FDTypeOK, Rest, semaphoreVars
  <2> QED BY <2>2 DEF Opened, semaphoreVars
<1>4. Fits(fpc[g], op[g])
  BY DEF FDInv, KindInv
<1>5. CASE Goes(g, "idle")
  BY <1>1, <1>3, <1>5, QuietKeeps DEF FPc, FreePc, OpenPc, IOPc, LockedPc, ReferencePc, SignalPc, DestroyPc
<1> QED BY <1>2, <1>5

LEMMA OpenFailsKeeps ==
  ASSUME FDInv, PollTypeOK, NEW g \in Goroutines, OpenFails(g), program' = program
  PROVE  FDInv'
<1>1. fpc[g] = "opening" /\ fdmu' = fdmu /\ owed' = owed
  BY DEF OpenFails
<1>2. \E l \in {"unpoll"} : Goes(g, l)
  BY GoesFact DEF OpenFails
<1>3. Rest' /\ \A f \in Files, m \in Modes : permits'[<<f, m>>] = permits[<<f, m>>]
  BY RestKeeps DEF OpenFails, semaphoreVars, fileVars
<1>4. Fits(fpc[g], op[g])
  BY DEF FDInv, KindInv
<1>5. CASE Goes(g, "unpoll")
  <2>1. Fits("unpoll", op[g])
    BY <1>1, <1>4 DEF Fits, OpenPc, IOPc, LockedPc, ReferencePc, SignalPc, DestroyPc
  <2> QED BY <1>1, <1>3, <1>5, <2>1, QuietKeeps DEF FPc, FreePc, OpenPc, IOPc, LockedPc, ReferencePc, SignalPc, DestroyPc
<1> QED BY <1>2, <1>5

LEMMA OpenUnpollKeeps ==
  ASSUME FDInv, PollTypeOK, NEW g \in Goroutines, OpenUnpoll(g), program' = program
  PROVE  FDInv'
<1>1. fpc[g] = "unpoll" /\ fdmu' = fdmu /\ owed' = owed
  BY DEF OpenUnpoll
<1>2. \E l \in {"unpolled"} : Goes(g, l)
  BY GoesFact DEF OpenUnpoll
<1>3. Rest' /\ \A f \in Files, m \in Modes : permits'[<<f, m>>] = permits[<<f, m>>]
  BY RestKeeps DEF OpenUnpoll, semaphoreVars, fileVars
<1>4. Fits(fpc[g], op[g])
  BY DEF FDInv, KindInv
<1>5. CASE Goes(g, "unpolled")
  <2>1. Fits("unpolled", op[g])
    BY <1>1, <1>4 DEF Fits, OpenPc, IOPc, LockedPc, ReferencePc, SignalPc, DestroyPc
  <2> QED BY <1>1, <1>3, <1>5, <2>1, QuietKeeps DEF FPc, FreePc, OpenPc, IOPc, LockedPc, ReferencePc, SignalPc, DestroyPc
<1> QED BY <1>2, <1>5

LEMMA OpenedBlockingKeeps ==
  ASSUME FDInv, PollTypeOK, NEW g \in Goroutines, OpenedBlocking(g), program' = program
  PROVE  FDInv'
<1>1. fpc[g] = "unpolled" /\ fdmu' = fdmu /\ owed' = owed
  BY DEF OpenedBlocking
<1>2. \E l \in {"idle"} : Goes(g, l)
  BY GoesFact DEF OpenedBlocking
<1>3. Rest' /\ \A f \in Files, m \in Modes : permits'[<<f, m>>] = permits[<<f, m>>]
  BY DEF OpenedBlocking, FDInv, FDTypeOK, Rest, semaphoreVars
<1>4. Fits(fpc[g], op[g])
  BY DEF FDInv, KindInv
<1>5. CASE Goes(g, "idle")
  BY <1>1, <1>3, <1>5, QuietKeeps DEF FPc, FreePc, OpenPc, IOPc, LockedPc, ReferencePc, SignalPc, DestroyPc
<1> QED BY <1>2, <1>5

LEMMA PrepareKeeps ==
  ASSUME FDInv, PollTypeOK, NEW g \in Goroutines, Prepare(g), program' = program
  PROVE  FDInv'
<1>1. fpc[g] = "prepare" /\ fdmu' = fdmu /\ owed' = owed
  BY DEF Prepare
<1>2. \E l \in {"prepared", "syscall"} : Goes(g, l)
  BY GoesFact DEF Prepare
<1>3. Rest' /\ \A f \in Files, m \in Modes : permits'[<<f, m>>] = permits[<<f, m>>]
  BY RestKeeps DEF Prepare, semaphoreVars, fileVars
<1>4. Fits(fpc[g], op[g])
  BY DEF FDInv, KindInv
<1>5. CASE Goes(g, "prepared")
  <2>1. Fits("prepared", op[g])
    BY <1>1, <1>4 DEF Fits, OpenPc, IOPc, LockedPc, ReferencePc, SignalPc, DestroyPc
  <2> QED BY <1>1, <1>3, <1>5, <2>1, QuietKeeps DEF FPc, FreePc, OpenPc, IOPc, LockedPc, ReferencePc, SignalPc, DestroyPc
<1>6. CASE Goes(g, "syscall")
  <2>1. Fits("syscall", op[g])
    BY <1>1, <1>4 DEF Fits, OpenPc, IOPc, LockedPc, ReferencePc, SignalPc, DestroyPc
  <2> QED BY <1>1, <1>3, <1>6, <2>1, QuietKeeps DEF FPc, FreePc, OpenPc, IOPc, LockedPc, ReferencePc, SignalPc, DestroyPc
<1> QED BY <1>2, <1>5, <1>6

LEMMA PreparedKeeps ==
  ASSUME FDInv, PollTypeOK, NEW g \in Goroutines, Prepared(g), program' = program
  PROVE  FDInv'
<1>1. fpc[g] = "prepared" /\ fdmu' = fdmu /\ owed' = owed
  BY DEF Prepared
<1>2. \E l \in {"syscall", "rwunlock"} : Goes(g, l)
  BY GoesFact DEF Prepared
<1>3. Rest' /\ \A f \in Files, m \in Modes : permits'[<<f, m>>] = permits[<<f, m>>]
  BY RestKeeps DEF Prepared, semaphoreVars, fileVars
<1>4. Fits(fpc[g], op[g])
  BY DEF FDInv, KindInv
<1>5. CASE Goes(g, "syscall")
  <2>1. Fits("syscall", op[g])
    BY <1>1, <1>4 DEF Fits, OpenPc, IOPc, LockedPc, ReferencePc, SignalPc, DestroyPc
  <2> QED BY <1>1, <1>3, <1>5, <2>1, QuietKeeps DEF FPc, FreePc, OpenPc, IOPc, LockedPc, ReferencePc, SignalPc, DestroyPc
<1>6. CASE Goes(g, "rwunlock")
  <2>1. Fits("rwunlock", op[g])
    BY <1>1, <1>4 DEF Fits, OpenPc, IOPc, LockedPc, ReferencePc, SignalPc, DestroyPc
  <2> QED BY <1>1, <1>3, <1>6, <2>1, QuietKeeps DEF FPc, FreePc, OpenPc, IOPc, LockedPc, ReferencePc, SignalPc, DestroyPc
<1> QED BY <1>2, <1>5, <1>6

LEMMA SyscallKeeps ==
  ASSUME FDInv, PollTypeOK, NEW g \in Goroutines, Syscall(g), program' = program
  PROVE  FDInv'
<1>1. fpc[g] = "syscall" /\ fdmu' = fdmu /\ owed' = owed
  BY DEF Syscall
<1>2. \E l \in {"rwunlock", "syscall", "prepared"} : Goes(g, l)
  BY GoesFact DEF Syscall
<1>3. Rest' /\ \A f \in Files, m \in Modes : permits'[<<f, m>>] = permits[<<f, m>>]
  BY RestKeeps DEF Syscall, semaphoreVars, fileVars
<1>4. Fits(fpc[g], op[g])
  BY DEF FDInv, KindInv
<1>5. CASE Goes(g, "rwunlock")
  <2>1. Fits("rwunlock", op[g])
    BY <1>1, <1>4 DEF Fits, OpenPc, IOPc, LockedPc, ReferencePc, SignalPc, DestroyPc
  <2> QED BY <1>1, <1>3, <1>5, <2>1, QuietKeeps DEF FPc, FreePc, OpenPc, IOPc, LockedPc, ReferencePc, SignalPc, DestroyPc
<1>6. CASE Goes(g, "syscall")
  <2>1. Fits("syscall", op[g])
    BY <1>1, <1>4 DEF Fits, OpenPc, IOPc, LockedPc, ReferencePc, SignalPc, DestroyPc
  <2> QED BY <1>1, <1>3, <1>6, <2>1, QuietKeeps DEF FPc, FreePc, OpenPc, IOPc, LockedPc, ReferencePc, SignalPc, DestroyPc
<1>7. CASE Goes(g, "prepared")
  <2>1. Fits("prepared", op[g])
    BY <1>1, <1>4 DEF Fits, OpenPc, IOPc, LockedPc, ReferencePc, SignalPc, DestroyPc
  <2> QED BY <1>1, <1>3, <1>7, <2>1, QuietKeeps DEF FPc, FreePc, OpenPc, IOPc, LockedPc, ReferencePc, SignalPc, DestroyPc
<1> QED BY <1>2, <1>5, <1>6, <1>7

LEMMA CloseWaitKeeps ==
  ASSUME FDInv, PollTypeOK, NEW g \in Goroutines, CloseWait(g), program' = program
  PROVE  FDInv'
<1>1. fpc[g] = "csema" /\ fdmu' = fdmu /\ owed' = owed
  BY DEF CloseWait
<1>2. \E l \in {"csleep"} : Goes(g, l)
  BY GoesFact DEF CloseWait
<1>3. Rest' /\ \A f \in Files, m \in Modes : permits'[<<f, m>>] = permits[<<f, m>>]
  BY FDAssumption DEF CloseWait, Semacquire, FDInv, FDTypeOK, Rest, fileVars
<1>4. Fits(fpc[g], op[g])
  BY DEF FDInv, KindInv
<1>5. CASE Goes(g, "csleep")
  <2>1. Fits("csleep", op[g])
    BY <1>1, <1>4 DEF Fits, OpenPc, IOPc, LockedPc, ReferencePc, SignalPc, DestroyPc
  <2> QED BY <1>1, <1>3, <1>5, <2>1, QuietKeeps DEF FPc, FreePc, OpenPc, IOPc, LockedPc, ReferencePc, SignalPc, DestroyPc
<1> QED BY <1>2, <1>5

LEMMA CloseReturnKeeps ==
  ASSUME FDInv, PollTypeOK, NEW g \in Goroutines, CloseReturn(g), program' = program
  PROVE  FDInv'
<1>1. fpc[g] = "csleep" /\ fdmu' = fdmu /\ owed' = owed
  BY DEF CloseReturn
<1>2. \E l \in {"idle"} : Goes(g, l)
  BY GoesFact DEF CloseReturn
<1>3. Rest' /\ \A f \in Files, m \in Modes : permits'[<<f, m>>] = permits[<<f, m>>]
  <2>1. DOMAIN waiting' = Addrs /\ UNCHANGED <<fileVars, owed, program>>
    BY DEF CloseReturn, Acquired, FDInv, FDTypeOK
  <2>2. PICK a : a = <<file(g), "c">> /\ permits[a] > 0 /\ permits' = [permits EXCEPT ![a] = @ - 1]
    BY DEF CloseReturn, Acquired
  <2>3. permits' \in [Addrs -> Nat]
    <3>1. permits \in [Addrs -> Nat]
      BY DEF FDInv, FDTypeOK
    <3>2. a \in Addrs => permits[a] - 1 \in Nat
      BY <2>2, <3>1
    <3> QED BY <2>2, <3>1, <3>2
  <2>4. \A f \in Files, m \in Modes : permits'[<<f, m>>] = permits[<<f, m>>]
    BY <2>2 DEF FDInv, FDTypeOK, Modes
  <2> QED BY <2>1, <2>3, <2>4 DEF FDInv, FDTypeOK, Rest, fileVars
<1>4. Fits(fpc[g], op[g])
  BY DEF FDInv, KindInv
<1>5. CASE Goes(g, "idle")
  BY <1>1, <1>3, <1>5, QuietKeeps DEF FPc, FreePc, OpenPc, IOPc, LockedPc, ReferencePc, SignalPc, DestroyPc
<1> QED BY <1>2, <1>5

LEMMA DestroyKeeps ==
  ASSUME FDInv, PollTypeOK, NEW g \in Goroutines, Destroy(g), program' = program
  PROVE  FDInv'
<1>1. fpc[g] = "destroy" /\ fdmu' = fdmu /\ owed' = owed
  BY DEF Destroy
<1>2. \E l \in {"closefunc"} : Goes(g, l)
  BY GoesFact DEF Destroy
<1>3. Rest' /\ \A f \in Files, m \in Modes : permits'[<<f, m>>] = permits[<<f, m>>]
  BY RestKeeps DEF Destroy, semaphoreVars, fileVars
<1>4. Fits(fpc[g], op[g])
  BY DEF FDInv, KindInv
<1>5. CASE Goes(g, "closefunc")
  <2>1. Fits("closefunc", op[g])
    BY <1>1, <1>4 DEF Fits, OpenPc, IOPc, LockedPc, ReferencePc, SignalPc, DestroyPc
  <2> QED BY <1>1, <1>3, <1>5, <2>1, QuietKeeps DEF FPc, FreePc, OpenPc, IOPc, LockedPc, ReferencePc, SignalPc, DestroyPc
<1> QED BY <1>2, <1>5

LEMMA CloseFuncKeeps ==
  ASSUME FDInv, PollTypeOK, NEW g \in Goroutines, CloseFunc(g), program' = program
  PROVE  FDInv'
<1>1. fpc[g] = "closefunc" /\ fdmu' = fdmu /\ owed' = owed
  BY DEF CloseFunc
<1>2. \E l \in {"csignal"} : Goes(g, l)
  BY GoesFact DEF CloseFunc
<1>3. Rest' /\ \A f \in Files, m \in Modes : permits'[<<f, m>>] = permits[<<f, m>>]
  BY DEF CloseFunc, FDInv, FDTypeOK, Rest, semaphoreVars
<1>4. Fits(fpc[g], op[g])
  BY DEF FDInv, KindInv
<1>5. CASE Goes(g, "csignal")
  <2>1. Fits("csignal", op[g])
    BY <1>1, <1>4 DEF Fits, OpenPc, IOPc, LockedPc, ReferencePc, SignalPc, DestroyPc
  <2> QED BY <1>1, <1>3, <1>5, <2>1, QuietKeeps DEF FPc, FreePc, OpenPc, IOPc, LockedPc, ReferencePc, SignalPc, DestroyPc
<1> QED BY <1>2, <1>5

LEMMA CloseSignalKeeps ==
  ASSUME FDInv, PollTypeOK, NEW g \in Goroutines, CloseSignal(g), program' = program
  PROVE  FDInv'
<1>1. fpc[g] = "csignal" /\ fdmu' = fdmu /\ owed' = owed
  BY DEF CloseSignal
<1>2. \E l \in {"csema", "idle"} : Goes(g, l)
  BY GoesFact DEF CloseSignal
<1>3. Rest' /\ \A f \in Files, m \in Modes : permits'[<<f, m>>] = permits[<<f, m>>]
  <2>1. waiting' = waiting /\ UNCHANGED <<fileVars, owed, program>>
    BY DEF CloseSignal, Semrelease
  <2>2. PICK a : a = <<file(g), "c">> /\ permits' = [permits EXCEPT ![a] = @ + 1]
    BY DEF CloseSignal, Semrelease
  <2>3. permits' \in [Addrs -> Nat]
    <3>1. permits \in [Addrs -> Nat]
      BY DEF FDInv, FDTypeOK
    <3>2. a \in Addrs => permits[a] + 1 \in Nat
      BY <2>2, <3>1
    <3> QED BY <2>2, <3>1, <3>2
  <2>4. \A f \in Files, m \in Modes : permits'[<<f, m>>] = permits[<<f, m>>]
    BY <2>2 DEF FDInv, FDTypeOK, Modes
  <2> QED BY <2>1, <2>3, <2>4 DEF FDInv, FDTypeOK, Rest, fileVars
<1>4. Fits(fpc[g], op[g])
  BY DEF FDInv, KindInv
<1>5. CASE Goes(g, "csema")
  <2>1. Fits("csema", op[g])
    BY <1>1, <1>4 DEF Fits, OpenPc, IOPc, LockedPc, ReferencePc, SignalPc, DestroyPc
  <2> QED BY <1>1, <1>3, <1>5, <2>1, QuietKeeps DEF FPc, FreePc, OpenPc, IOPc, LockedPc, ReferencePc, SignalPc, DestroyPc
<1>6. CASE Goes(g, "idle")
  BY <1>1, <1>3, <1>6, QuietKeeps DEF FPc, FreePc, OpenPc, IOPc, LockedPc, ReferencePc, SignalPc, DestroyPc
<1> QED BY <1>2, <1>5, <1>6

\* Where a call is at work.
LEMMA Here ==
  ASSUME FDInv, NEW g \in Goroutines, fpc[g] # "idle"
  PROVE  \E f \in Files, n \in Modes :
           /\ f = file(g) /\ n = ioMode(g) /\ fdmu[f] = word(g)
           /\ fdmu[f] \in WordType /\ fdmu[f].closed \in BOOLEAN /\ fdmu[f].locked \in SUBSET Modes
           /\ fdmu[f].refs \in Nat /\ fdmu[f].waits \in [Modes -> Nat]
           /\ \A m \in Modes : <<f, m>> \in Addrs /\ permits[<<f, m>>] \in Nat
           /\ fdmu[f].closed => fdmu[f].waits = [m \in Modes |-> 0]
           /\ fpc[g] \in ReferencePc => fdmu[f].refs > 0
           /\ fpc[g] \in LockedPc => n \in fdmu[f].locked
           /\ fpc[g] \notin ReferencePc => ~Wraps(fdmu[f].refs)
           /\ fpc[g] # "rwsleep" => ~Wraps(fdmu[f].waits[n])
<1>1. FDTypeOK /\ KindInv /\ WordInv
  BY DEF FDInv
<1>2. op[g] \in Op
  BY <1>1 DEF KindInv, Fits
<1>3. PICK f \in Files, n \in Modes : f = file(g) /\ n = ioMode(g)
  BY <1>2, ModeFact DEF file, ioMode, Op
<1>4. fdmu[f] \in WordType /\ fdmu[f] = word(g)
  BY <1>1, <1>3 DEF FDTypeOK, word
<1>5. \A m \in Modes : <<f, m>> \in Addrs /\ permits[<<f, m>>] \in Nat
  BY <1>1, FDAssumption DEF FDTypeOK
<1>6. fdmu[f].closed => fdmu[f].waits = [m \in Modes |-> 0]
  BY <1>1 DEF WordInv
<1>7. /\ fpc[g] \in ReferencePc => fdmu[f].refs > 0
      /\ fpc[g] \in LockedPc => n \in fdmu[f].locked
      /\ fpc[g] \notin ReferencePc => ~Wraps(fdmu[f].refs)
      /\ fpc[g] # "rwsleep" => ~Wraps(fdmu[f].waits[n])
  BY <1>1, <1>3, Held, Room
<1>8. /\ fdmu[f].closed \in BOOLEAN /\ fdmu[f].locked \in SUBSET Modes
      /\ fdmu[f].refs \in Nat /\ fdmu[f].waits \in [Modes -> Nat]
  BY <1>4 DEF WordType
<1> QED BY <1>3, <1>4, <1>5, <1>6, <1>7, <1>8

LEMMA CloseEvictKeeps ==
  ASSUME FDInv, PollTypeOK, NEW g \in Goroutines, CloseEvict(g), program' = program
  PROVE  FDInv'
<1>1. fpc[g] = "release" /\ fdmu' = fdmu /\ owed' = owed /\ Owes(g) = {}
  BY DEF CloseEvict
<1>2. Goes(g, "decref")
  BY GoesFact DEF CloseEvict
<1>3. Rest' /\ \A f \in Files, m \in Modes : permits'[<<f, m>>] = permits[<<f, m>>]
  BY RestKeeps DEF CloseEvict, semaphoreVars, fileVars
<1>4. Fits("decref", op[g])
  BY <1>1 DEF FDInv, KindInv, Fits, OpenPc, IOPc, LockedPc, SignalPc
<1>5. \A m \in Modes : owed[g][m] = 0
  BY <1>1 DEF Owes, FDInv, FDTypeOK
<1> QED BY <1>1, <1>2, <1>3, <1>4, <1>5, QuietKeeps DEF FPc, ReferencePc

LEMMA RwLockKeeps ==
  ASSUME FDInv, PollTypeOK, NEW g \in Goroutines, RwLock(g), program' = program
  PROVE  FDInv'
<1>1. fpc[g] = "rwlock" /\ fpc[g] # "idle"
  BY DEF RwLock
<1>2. PICK f \in Files, n \in Modes :
        /\ f = file(g) /\ n = ioMode(g) /\ fdmu[f] = word(g)
        /\ fdmu[f] \in WordType /\ fdmu[f].closed \in BOOLEAN /\ fdmu[f].locked \in SUBSET Modes
        /\ fdmu[f].refs \in Nat /\ fdmu[f].waits \in [Modes -> Nat]
        /\ \A m \in Modes : <<f, m>> \in Addrs /\ permits[<<f, m>>] \in Nat
        /\ ~Wraps(fdmu[f].refs) /\ ~Wraps(fdmu[f].waits[n])
        /\ fdmu[f].closed => fdmu[f].waits = [m \in Modes |-> 0]
  BY <1>1, Here DEF ReferencePc, LockedPc
<1>3. owed' = owed /\ UNCHANGED fileVars
  BY DEF RwLock
<1>4. Fits("prepare", op[g]) /\ Fits("rwsleep", op[g])
  BY <1>1 DEF FDInv, KindInv, Fits, OpenPc, IOPc, LockedPc, SignalPc
<1>5. CASE Done(g) /\ UNCHANGED <<fdmu, semaphoreVars>>
  <2>1. Rest' /\ \A e \in Files, m \in Modes : permits'[<<e, m>>] = permits[<<e, m>>]
    BY <1>3, <1>5, RestKeeps
  <2>2. Goes(g, "idle")
    BY <1>5, GoesFact
  <2> QED BY <1>1, <1>3, <1>5, <2>1, <2>2, QuietKeeps DEF FPc, FreePc
<1>6. CASE ~fdmu[f].closed /\ n \notin fdmu[f].locked /\ FGoto(g, "prepare")
             /\ fdmu' = [fdmu EXCEPT ![f] = rwlock(fdmu[f], n)] /\ UNCHANGED semaphoreVars
  <2>1. Rest' /\ permits' = permits
    BY <1>3, <1>6, RestKeeps DEF semaphoreVars
  <2>2. Goes(g, "prepare") /\ "prepare" \in FPc
    BY <1>6, GoesFact DEF FPc, ReferencePc, LockedPc
  <2>3. PICK v : v = rwlock(fdmu[f], n)
    OBVIOUS
  <2>4. v \in WordType /\ v.closed = fdmu[f].closed /\ v.locked = fdmu[f].locked \cup {n}
        /\ v.refs = fdmu[f].refs + 1 /\ v.waits = fdmu[f].waits
    BY <1>2, <2>3, WordOps DEF WordType
  <2>5. Local(g, "prepare", v)
    BY <1>1, <1>2, <1>3, <1>6, <2>1, <2>3, <2>4 DEF Local, One, ReferencePc, LockedPc, SignalPc
  <2> QED BY <1>1, <1>4, <2>1, <2>2, <2>5, StepKeeps
<1>7. CASE ~fdmu[f].closed /\ n \in fdmu[f].locked /\ FGoto(g, "rwsleep")
             /\ fdmu' = [fdmu EXCEPT ![f] = rwwait(fdmu[f], n)] /\ Semacquire(g, <<f, n>>)
  <2>1. Rest' /\ permits' = permits
    BY <1>2, <1>3, <1>7 DEF Semacquire, Rest, FDInv, FDTypeOK, fileVars
  <2>2. Goes(g, "rwsleep") /\ "rwsleep" \in FPc
    BY <1>7, GoesFact DEF FPc, IOPc
  <2>3. PICK v : v = rwwait(fdmu[f], n)
    OBVIOUS
  <2>4. v \in WordType /\ v.closed = fdmu[f].closed /\ v.locked = fdmu[f].locked
        /\ v.refs = fdmu[f].refs /\ v.waits = [fdmu[f].waits EXCEPT ![n] = @ + 1]
    <3>1. PICK ws \in [Modes -> Nat] : ws = [fdmu[f].waits EXCEPT ![n] = @ + 1]
      <4>1. PICK W \in [Modes -> Nat] : W = fdmu[f].waits
        BY <1>2
      <4>2. [W EXCEPT ![n] = W[n] + 1] \in [Modes -> Nat]
        BY <1>2
      <4> QED BY <4>1, <4>2
    <3>2. v = [closed |-> fdmu[f].closed, locked |-> fdmu[f].locked, refs |-> fdmu[f].refs, waits |-> ws]
      BY <1>2, <2>3, <3>1, WordOps
    <3> QED BY <1>2, <3>1, <3>2 DEF WordType
  <2>5. Local(g, "rwsleep", v)
    BY <1>1, <1>2, <1>3, <1>7, <2>1, <2>3, <2>4 DEF Local, One, ReferencePc, LockedPc, SignalPc
  <2> QED BY <1>1, <1>4, <2>1, <2>2, <2>5, StepKeeps
<1> QED BY <1>2, <1>5, <1>6, <1>7 DEF RwLock, SetWord

LEMMA RwLockWakeKeeps ==
  ASSUME FDInv, PollTypeOK, NEW g \in Goroutines, RwLockWake(g), program' = program
  PROVE  FDInv'
<1>1. fpc[g] = "rwsleep" /\ fpc[g] # "idle"
  BY DEF RwLockWake
<1>2. PICK f \in Files, n \in Modes :
        /\ f = file(g) /\ n = ioMode(g)
        /\ fdmu[f] \in WordType /\ fdmu[f].closed \in BOOLEAN /\ fdmu[f].locked \in SUBSET Modes
        /\ fdmu[f].refs \in Nat /\ fdmu[f].waits \in [Modes -> Nat]
        /\ \A m \in Modes : <<f, m>> \in Addrs /\ permits[<<f, m>>] \in Nat
        /\ fdmu[f].closed => fdmu[f].waits = [m \in Modes |-> 0]
  BY <1>1, Here
<1>3. owed' = owed /\ UNCHANGED fileVars /\ fdmu' = fdmu
  BY DEF RwLockWake
<1>4. permits[<<f, n>>] > 0 /\ permits' = [permits EXCEPT ![<<f, n>>] = @ - 1] /\ DOMAIN waiting' = Addrs
  BY <1>2 DEF RwLockWake, Acquired, FDInv, FDTypeOK
<1>5. permits \in [Addrs -> Nat] /\ permits' \in [Addrs -> Nat]
  BY <1>2, <1>4 DEF FDInv, FDTypeOK
<1>6. Rest'
  BY <1>3, <1>4, <1>5 DEF Rest, FDInv, FDTypeOK, fileVars
<1>7. Goes(g, "rwlock") /\ "rwlock" \in FPc
  BY GoesFact DEF RwLockWake, FPc, IOPc
<1>8. Fits("rwlock", op[g])
  BY <1>1 DEF FDInv, KindInv, Fits, OpenPc, IOPc, LockedPc, SignalPc
<1>9. fdmu' = [fdmu EXCEPT ![f] = fdmu[f]]
  BY <1>3 DEF FDInv, FDTypeOK
<1>10. \A e \in Files \ {f}, m \in Modes : permits'[<<e, m>>] = permits[<<e, m>>]
  BY <1>4, <1>5, FDAssumption
<1>11. \A m \in Modes : permits'[<<f, m>>] = IF m = n THEN permits[<<f, m>>] - 1 ELSE permits[<<f, m>>]
  BY <1>2, <1>4, <1>5
<1>12. Local(g, "rwlock", fdmu[f])
  <2>1. /\ fdmu[f].refs = fdmu[f].refs + One("rwlock" \in ReferencePc) - One(fpc[g] \in ReferencePc)
        /\ \A m \in Modes : One(m \in fdmu[f].locked) =
             One(m \in fdmu[f].locked) + One("rwlock" \in LockedPc /\ m = n) - One(fpc[g] \in LockedPc /\ m = n)
    BY <1>1, <1>2 DEF One, ReferencePc, LockedPc
  <2>2. \A m \in Modes :
          fdmu[f].waits[m] + permits'[<<f, m>>] + One("rwlock" \in SignalPc /\ m = n)
              + (IF "rwlock" = "release" THEN owed'[g][m] ELSE 0) - One("rwlock" = "rwsleep" /\ m = n)
            = fdmu[f].waits[m] + permits[<<f, m>>] + One(fpc[g] \in SignalPc /\ m = n)
                + (IF fpc[g] = "release" THEN owed[g][m] ELSE 0) - One(fpc[g] = "rwsleep" /\ m = n)
    BY <1>1, <1>2, <1>11 DEF One, SignalPc
  <2>3. \A h \in Goroutines \ {g} : owed'[h] = owed[h]
    BY <1>3
  <2> QED BY <1>2, <1>9, <1>10, <2>1, <2>2, <2>3 DEF Local
<1> QED BY <1>1, <1>6, <1>7, <1>8, <1>12, StepKeeps

LEMMA AfterUseGoes ==
  ASSUME NEW g \in Goroutines, NEW w, AfterUse(g, w)
  PROVE  \E l \in {"destroy", "csema", "idle"} : Goes(g, l)
BY GoesFact DEF AfterUse

LEMMA FitsAnyCall ==
  ASSUME FDInv, NEW g \in Goroutines, fpc[g] # "idle", NEW l \in {"destroy", "csema", "idle"}
  PROVE  /\ l = "idle" \/ Fits(l, op[g])
         /\ l \in FPc /\ l \notin ReferencePc /\ l \notin LockedPc /\ l \notin SignalPc
         /\ l # "release" /\ l # "rwsleep"
BY DEF FDInv, KindInv, Fits, FPc, OpenPc, IOPc, ReferencePc, LockedPc, SignalPc, DestroyPc

LEMMA RwUnlockKeeps ==
  ASSUME FDInv, PollTypeOK, NEW g \in Goroutines, RwUnlock(g), program' = program
  PROVE  FDInv'
<1>1. fpc[g] = "rwunlock" /\ fpc[g] # "idle" /\ fpc[g] \in LockedPc /\ fpc[g] \in ReferencePc
  BY DEF RwUnlock, LockedPc, ReferencePc
<1>2. PICK f \in Files, n \in Modes :
        /\ f = file(g) /\ n = ioMode(g) /\ fdmu[f] = word(g)
        /\ fdmu[f] \in WordType /\ fdmu[f].closed \in BOOLEAN /\ fdmu[f].locked \in SUBSET Modes
        /\ fdmu[f].refs \in Nat /\ fdmu[f].waits \in [Modes -> Nat]
        /\ \A m \in Modes : <<f, m>> \in Addrs /\ permits[<<f, m>>] \in Nat
        /\ fdmu[f].closed => fdmu[f].waits = [m \in Modes |-> 0]
        /\ fdmu[f].refs > 0 /\ n \in fdmu[f].locked
  BY <1>1, Here
<1>3. owed' = owed /\ UNCHANGED fileVars /\ UNCHANGED semaphoreVars
  BY DEF RwUnlock
<1>4. Rest' /\ permits' = permits
  BY <1>3, RestKeeps DEF semaphoreVars
<1>5. PICK v : v = rwunlock(fdmu[f], n)
  OBVIOUS
<1>6. /\ v \in WordType /\ v.closed = fdmu[f].closed /\ v.locked = fdmu[f].locked \ {n}
      /\ v.refs = fdmu[f].refs - 1
      /\ \A m \in Modes : v.waits[m] = IF m = n /\ fdmu[f].waits[m] > 0 THEN fdmu[f].waits[m] - 1 ELSE fdmu[f].waits[m]
      /\ v.closed => v.waits = [m \in Modes |-> 0]
  <2>1. PICK W \in [Modes -> Nat] : W = fdmu[f].waits
    BY <1>2
  <2>2. PICK k \in Nat : k = IF W[n] > 0 THEN W[n] - 1 ELSE 0
    BY <1>2
  <2>3. PICK ws \in [Modes -> Nat] : ws = [W EXCEPT ![n] = k]
    BY <1>2
  <2>4. v = [closed |-> fdmu[f].closed, locked |-> fdmu[f].locked \ {n}, refs |-> fdmu[f].refs - 1, waits |-> ws]
    BY <1>2, <1>5, <2>1, <2>2, <2>3, WordOps
  <2>5. fdmu[f].refs - 1 \in Nat
    BY <1>2
  <2>6. \A m \in Modes : ws[m] = IF m = n /\ W[m] > 0 THEN W[m] - 1 ELSE W[m]
    BY <1>2, <2>2, <2>3
  <2>7. W = [m \in Modes |-> 0] => ws = [m \in Modes |-> 0]
    BY <1>2, <2>2, <2>3
  <2> QED BY <1>2, <2>1, <2>4, <2>5, <2>6, <2>7 DEF WordType
<1>7. fdmu' = [fdmu EXCEPT ![f] = v]
  BY <1>2, <1>5 DEF RwUnlock, SetWord
<1>8. CASE fdmu[f].waits[n] > 0 /\ \E l \in SignalPc : FGoto(g, l)
  <2>1. PICK l \in SignalPc : FGoto(g, l)
    BY <1>8
  <2>2. /\ l \in FPc /\ l # "idle" /\ Fits(l, op[g]) /\ l \notin ReferencePc /\ l \notin LockedPc
        /\ l # "release" /\ l # "rwsleep"
    BY <1>1 DEF FDInv, KindInv, Fits, FPc, OpenPc, IOPc, LockedPc, ReferencePc, SignalPc
  <2>3. Goes(g, l)
    BY <2>1, <2>2, GoesFact
  <2>4. Local(g, l, v)
    <3>1. fpc[g] \notin SignalPc /\ fpc[g] # "release" /\ fpc[g] # "rwsleep"
      BY <1>1 DEF SignalPc
    <3>2. \A m \in Modes :
            /\ One(m \in v.locked) =
                 One(m \in fdmu[f].locked) + One(l \in LockedPc /\ m = n) - One(fpc[g] \in LockedPc /\ m = n)
            /\ v.waits[m] + permits'[<<f, m>>] + One(l \in SignalPc /\ m = n)
                  + (IF l = "release" THEN owed'[g][m] ELSE 0) - One(l = "rwsleep" /\ m = n)
                 = fdmu[f].waits[m] + permits[<<f, m>>] + One(fpc[g] \in SignalPc /\ m = n)
                     + (IF fpc[g] = "release" THEN owed[g][m] ELSE 0) - One(fpc[g] = "rwsleep" /\ m = n)
      BY <1>1, <1>2, <1>4, <1>6, <1>8, <2>1, <2>2, <3>1 DEF One
    <3>3. v.refs = fdmu[f].refs + One(l \in ReferencePc) - One(fpc[g] \in ReferencePc)
      BY <1>1, <1>2, <1>6, <2>2 DEF One
    <3> QED BY <1>2, <1>3, <1>4, <1>6, <1>7, <3>2, <3>3 DEF Local
  <2> QED BY <1>1, <1>4, <2>2, <2>3, <2>4, StepKeeps
<1>9. CASE ~(fdmu[f].waits[n] > 0) /\ AfterUse(g, v)
  <2>1. PICK l \in {"destroy", "csema", "idle"} : Goes(g, l)
    BY <1>9, AfterUseGoes
  <2>2. /\ l = "idle" \/ Fits(l, op[g])
        /\ l \in FPc /\ l \notin ReferencePc /\ l \notin LockedPc /\ l \notin SignalPc
        /\ l # "release" /\ l # "rwsleep"
    BY <1>1, FitsAnyCall
  <2>4. Local(g, l, v)
    <3>1. fpc[g] \notin SignalPc /\ fpc[g] # "release" /\ fpc[g] # "rwsleep"
      BY <1>1 DEF SignalPc
    <3>2. \A m \in Modes :
            /\ One(m \in v.locked) =
                 One(m \in fdmu[f].locked) + One(l \in LockedPc /\ m = n) - One(fpc[g] \in LockedPc /\ m = n)
            /\ v.waits[m] + permits'[<<f, m>>] + One(l \in SignalPc /\ m = n)
                  + (IF l = "release" THEN owed'[g][m] ELSE 0) - One(l = "rwsleep" /\ m = n)
                 = fdmu[f].waits[m] + permits[<<f, m>>] + One(fpc[g] \in SignalPc /\ m = n)
                     + (IF fpc[g] = "release" THEN owed[g][m] ELSE 0) - One(fpc[g] = "rwsleep" /\ m = n)
      BY <1>1, <1>2, <1>4, <1>6, <1>9, <2>2, <3>1 DEF One
    <3>3. v.refs = fdmu[f].refs + One(l \in ReferencePc) - One(fpc[g] \in ReferencePc)
      BY <1>1, <1>2, <1>6, <2>2 DEF One
    <3> QED BY <1>2, <1>3, <1>4, <1>6, <1>7, <3>2, <3>3 DEF Local
  <2> QED BY <1>1, <1>4, <2>1, <2>2, <2>4, StepKeeps
<1> QED BY <1>2, <1>5, <1>8, <1>9 DEF RwUnlock, SignalPc

LEMMA RwSignalKeeps ==
  ASSUME FDInv, PollTypeOK, NEW g \in Goroutines, RwSignal(g), program' = program
  PROVE  FDInv'
<1>1. fpc[g] \in SignalPc /\ fpc[g] # "idle"
  BY DEF RwSignal, SignalPc
<1>2. PICK f \in Files, n \in Modes :
        /\ f = file(g) /\ n = ioMode(g) /\ fdmu[f] = word(g)
        /\ fdmu[f] \in WordType /\ fdmu[f].closed \in BOOLEAN /\ fdmu[f].locked \in SUBSET Modes
        /\ fdmu[f].refs \in Nat /\ fdmu[f].waits \in [Modes -> Nat]
        /\ \A m \in Modes : <<f, m>> \in Addrs /\ permits[<<f, m>>] \in Nat
        /\ fdmu[f].closed => fdmu[f].waits = [m \in Modes |-> 0]
  BY <1>1, Here
<1>3. owed' = owed /\ UNCHANGED fileVars /\ fdmu' = fdmu
  BY DEF RwSignal
<1>4. permits' = [permits EXCEPT ![<<f, n>>] = @ + 1] /\ DOMAIN waiting' = Addrs
  BY <1>2 DEF RwSignal, Semrelease, FDInv, FDTypeOK
<1>5. permits \in [Addrs -> Nat] /\ permits' \in [Addrs -> Nat]
  BY <1>2, <1>4 DEF FDInv, FDTypeOK
<1>6. Rest'
  BY <1>3, <1>4, <1>5 DEF Rest, FDInv, FDTypeOK, fileVars
<1>7. PICK l \in {"destroy", "csema", "idle"} : Goes(g, l)
  BY GoesFact DEF RwSignal
<1>8. /\ l = "idle" \/ Fits(l, op[g])
      /\ l \in FPc /\ l \notin ReferencePc /\ l \notin LockedPc /\ l \notin SignalPc
      /\ l # "release" /\ l # "rwsleep"
  BY <1>1, FitsAnyCall
<1>9. fdmu' = [fdmu EXCEPT ![f] = fdmu[f]]
  BY <1>3 DEF FDInv, FDTypeOK
<1>10. \A e \in Files \ {f}, m \in Modes : permits'[<<e, m>>] = permits[<<e, m>>]
  BY <1>4, <1>5, FDAssumption
<1>11. \A m \in Modes : permits'[<<f, m>>] = IF m = n THEN permits[<<f, m>>] + 1 ELSE permits[<<f, m>>]
  BY <1>2, <1>4, <1>5
<1>12. fpc[g] \notin ReferencePc /\ fpc[g] \notin LockedPc /\ fpc[g] # "release" /\ fpc[g] # "rwsleep"
  BY <1>1 DEF SignalPc, ReferencePc, LockedPc
<1>13. Local(g, l, fdmu[f])
  <2>1. fdmu[f].refs = fdmu[f].refs + One(l \in ReferencePc) - One(fpc[g] \in ReferencePc)
    BY <1>2, <1>8, <1>12 DEF One
  <2>2. \A m \in Modes : One(m \in fdmu[f].locked) =
          One(m \in fdmu[f].locked) + One(l \in LockedPc /\ m = n) - One(fpc[g] \in LockedPc /\ m = n)
    BY <1>2, <1>8, <1>12 DEF One
  <2>3. \A m \in Modes :
          fdmu[f].waits[m] + permits'[<<f, m>>] + One(l \in SignalPc /\ m = n)
              + (IF l = "release" THEN owed'[g][m] ELSE 0) - One(l = "rwsleep" /\ m = n)
            = fdmu[f].waits[m] + permits[<<f, m>>] + One(fpc[g] \in SignalPc /\ m = n)
                + (IF fpc[g] = "release" THEN owed[g][m] ELSE 0) - One(fpc[g] = "rwsleep" /\ m = n)
    BY <1>1, <1>2, <1>8, <1>11, <1>12 DEF One
  <2>4. \A h \in Goroutines \ {g} : owed'[h] = owed[h]
    BY <1>3
  <2> QED BY <1>2, <1>9, <1>10, <2>1, <2>2, <2>3, <2>4 DEF Local
<1> QED BY <1>1, <1>6, <1>7, <1>8, <1>13, StepKeeps

LEMMA IncrefKeeps ==
  ASSUME FDInv, PollTypeOK, NEW g \in Goroutines, Incref(g), program' = program
  PROVE  FDInv'
<1>1. fpc[g] = "incref" /\ fpc[g] # "idle"
  BY DEF Incref
<1>2. PICK f \in Files, n \in Modes :
        /\ f = file(g) /\ n = ioMode(g) /\ fdmu[f] = word(g)
        /\ fdmu[f] \in WordType /\ fdmu[f].closed \in BOOLEAN /\ fdmu[f].locked \in SUBSET Modes
        /\ fdmu[f].refs \in Nat /\ fdmu[f].waits \in [Modes -> Nat]
        /\ \A m \in Modes : <<f, m>> \in Addrs /\ permits[<<f, m>>] \in Nat
        /\ fdmu[f].closed => fdmu[f].waits = [m \in Modes |-> 0]
        /\ ~Wraps(fdmu[f].refs)
  BY <1>1, Here DEF ReferencePc, LockedPc
<1>3. owed' = owed /\ UNCHANGED fileVars /\ UNCHANGED semaphoreVars
  BY DEF Incref
<1>4. Rest' /\ permits' = permits
  BY <1>3, RestKeeps DEF semaphoreVars
<1>5. CASE Done(g) /\ fdmu' = fdmu
  <2>1. Goes(g, "idle")
    BY <1>5, GoesFact
  <2> QED BY <1>1, <1>3, <1>4, <1>5, <2>1, QuietKeeps DEF FPc, FreePc
<1>6. CASE ~fdmu[f].closed /\ FGoto(g, "decref") /\ fdmu' = [fdmu EXCEPT ![f] = incref(fdmu[f])]
  <2>5. Goes(g, "decref") /\ "decref" \in FPc /\ Fits("decref", op[g])
    BY <1>1, <1>6, GoesFact DEF FDInv, KindInv, Fits, FPc, OpenPc, IOPc, LockedPc, SignalPc, ReferencePc
  <2>6. PICK v : v = incref(fdmu[f])
    OBVIOUS
  <2>7. v \in WordType /\ v.closed = fdmu[f].closed /\ v.locked = fdmu[f].locked
        /\ v.refs = fdmu[f].refs + 1 /\ v.waits = fdmu[f].waits
    BY <1>2, <2>6, WordOps DEF WordType
  <2>8. Local(g, "decref", v)
    BY <1>1, <1>2, <1>3, <1>4, <1>6, <2>6, <2>7 DEF Local, One, ReferencePc, LockedPc, SignalPc
  <2> QED BY <1>1, <1>4, <2>5, <2>8, StepKeeps
<1> QED BY <1>2, <1>5, <1>6 DEF Incref, SetWord

LEMMA DecrefKeeps ==
  ASSUME FDInv, PollTypeOK, NEW g \in Goroutines, Decref(g), program' = program
  PROVE  FDInv'
<1>1. fpc[g] = "decref" /\ fpc[g] # "idle" /\ fpc[g] \in ReferencePc
  BY DEF Decref, ReferencePc
<1>2. PICK f \in Files, n \in Modes :
        /\ f = file(g) /\ n = ioMode(g) /\ fdmu[f] = word(g)
        /\ fdmu[f] \in WordType /\ fdmu[f].closed \in BOOLEAN /\ fdmu[f].locked \in SUBSET Modes
        /\ fdmu[f].refs \in Nat /\ fdmu[f].waits \in [Modes -> Nat]
        /\ \A m \in Modes : <<f, m>> \in Addrs /\ permits[<<f, m>>] \in Nat
        /\ fdmu[f].closed => fdmu[f].waits = [m \in Modes |-> 0]
        /\ fdmu[f].refs > 0
  BY <1>1, Here
<1>3. owed' = owed /\ UNCHANGED fileVars /\ UNCHANGED semaphoreVars
  BY DEF Decref
<1>4. Rest' /\ permits' = permits
  BY <1>3, RestKeeps DEF semaphoreVars
<1>5. PICK v : v = decref(fdmu[f])
  OBVIOUS
<1>6. v \in WordType /\ v.closed = fdmu[f].closed /\ v.locked = fdmu[f].locked
      /\ v.refs = fdmu[f].refs - 1 /\ v.waits = fdmu[f].waits
  <2>1. fdmu[f].refs - 1 \in Nat
    BY <1>2
  <2> QED BY <1>2, <1>5, <2>1, WordOps DEF WordType
<1>7. fdmu' = [fdmu EXCEPT ![f] = v] /\ AfterUse(g, v)
  BY <1>2, <1>5 DEF Decref, SetWord
<1>8. PICK l \in {"destroy", "csema", "idle"} : Goes(g, l)
  BY <1>7, AfterUseGoes
<1>9. /\ l = "idle" \/ Fits(l, op[g])
      /\ l \in FPc /\ l \notin ReferencePc /\ l \notin LockedPc /\ l \notin SignalPc
      /\ l # "release" /\ l # "rwsleep"
  BY <1>1, FitsAnyCall
<1>10. fpc[g] \notin LockedPc /\ fpc[g] \notin SignalPc /\ fpc[g] # "release" /\ fpc[g] # "rwsleep"
  BY <1>1 DEF LockedPc, SignalPc
<1>11. Local(g, l, v)
  <2>1. v.refs = fdmu[f].refs + One(l \in ReferencePc) - One(fpc[g] \in ReferencePc)
    BY <1>1, <1>2, <1>6, <1>9 DEF One
  <2>2. \A m \in Modes : One(m \in v.locked) =
          One(m \in fdmu[f].locked) + One(l \in LockedPc /\ m = n) - One(fpc[g] \in LockedPc /\ m = n)
    BY <1>2, <1>6, <1>9, <1>10 DEF One
  <2>3. \A m \in Modes :
          v.waits[m] + permits'[<<f, m>>] + One(l \in SignalPc /\ m = n)
              + (IF l = "release" THEN owed'[g][m] ELSE 0) - One(l = "rwsleep" /\ m = n)
            = fdmu[f].waits[m] + permits[<<f, m>>] + One(fpc[g] \in SignalPc /\ m = n)
                + (IF fpc[g] = "release" THEN owed[g][m] ELSE 0) - One(fpc[g] = "rwsleep" /\ m = n)
    BY <1>2, <1>4, <1>6, <1>9, <1>10 DEF One
  <2> QED BY <1>2, <1>3, <1>4, <1>6, <1>7, <2>1, <2>2, <2>3 DEF Local
<1> QED BY <1>1, <1>4, <1>8, <1>9, <1>11, StepKeeps

LEMMA IncrefAndCloseKeeps ==
  ASSUME FDInv, PollTypeOK, NEW g \in Goroutines, IncrefAndClose(g), program' = program
  PROVE  FDInv'
<1>1. fpc[g] = "close" /\ fpc[g] # "idle"
  BY DEF IncrefAndClose
<1>2. PICK f \in Files, n \in Modes :
        /\ f = file(g) /\ n = ioMode(g) /\ fdmu[f] = word(g)
        /\ fdmu[f] \in WordType /\ fdmu[f].closed \in BOOLEAN /\ fdmu[f].locked \in SUBSET Modes
        /\ fdmu[f].refs \in Nat /\ fdmu[f].waits \in [Modes -> Nat]
        /\ \A m \in Modes : <<f, m>> \in Addrs /\ permits[<<f, m>>] \in Nat
        /\ fdmu[f].closed => fdmu[f].waits = [m \in Modes |-> 0]
        /\ ~Wraps(fdmu[f].refs)
  BY <1>1, Here DEF ReferencePc, LockedPc
<1>3. UNCHANGED fileVars /\ UNCHANGED semaphoreVars
  BY DEF IncrefAndClose
<1>4. CASE Done(g) /\ fdmu' = fdmu /\ owed' = owed
  <2>1. Goes(g, "idle")
    BY <1>4, GoesFact
  <2>2. Rest' /\ permits' = permits
    BY <1>3, <1>4, RestKeeps DEF semaphoreVars
  <2> QED BY <1>1, <1>3, <1>4, <2>1, <2>2, QuietKeeps DEF FPc, FreePc
<1>5. CASE ~fdmu[f].closed /\ FGoto(g, "release") /\ fdmu' = [fdmu EXCEPT ![f] = increfAndClose(fdmu[f])]
           /\ owed' = [owed EXCEPT ![g] = fdmu[f].waits]
  <2>4. owed' \in [Goroutines -> [Modes -> Nat]] /\ owed'[g] = fdmu[f].waits
        /\ \A h \in Goroutines \ {g} : owed'[h] = owed[h]
    BY <1>2, <1>5 DEF FDInv, FDTypeOK
  <2>5. Rest' /\ permits' = permits
    BY <1>3, <2>4 DEF Rest, FDInv, FDTypeOK, semaphoreVars, fileVars
  <2>6. Goes(g, "release") /\ "release" \in FPc /\ Fits("release", op[g])
    BY <1>1, <1>5, GoesFact DEF FDInv, KindInv, Fits, FPc, OpenPc, IOPc, LockedPc, SignalPc, ReferencePc
  <2>7. PICK v : v = increfAndClose(fdmu[f])
    OBVIOUS
  <2>8. v \in WordType /\ v.closed /\ v.locked = fdmu[f].locked
        /\ v.refs = fdmu[f].refs + 1 /\ v.waits = [m \in Modes |-> 0]
    <3>1. PICK ws \in [Modes -> Nat] : ws = [m \in Modes |-> 0]
      OBVIOUS
    <3>2. PICK lk \in SUBSET Modes, rs \in Nat :
            lk = fdmu[f].locked /\ rs = fdmu[f].refs + 1
      <4>1. fdmu[f].locked \in SUBSET Modes /\ fdmu[f].refs + 1 \in Nat
        BY <1>2
      <4> QED BY <4>1
    <3>4. v = [closed |-> TRUE, locked |-> lk, refs |-> rs, waits |-> ws]
      BY <1>2, <2>7, <3>1, <3>2 DEF increfAndClose, WordType
    <3>3. /\ v \in WordType /\ v.closed = TRUE /\ v.locked = fdmu[f].locked
          /\ v.refs = fdmu[f].refs + 1 /\ v.waits = ws
      BY <3>2, <3>4 DEF WordType
    <3> QED BY <3>1, <3>3
  <2>9. Local(g, "release", v)
    BY <1>1, <1>2, <1>5, <2>4, <2>5, <2>7, <2>8 DEF Local, One, ReferencePc, LockedPc, SignalPc
  <2> QED BY <1>1, <2>5, <2>6, <2>9, StepKeeps
<1> QED BY <1>2, <1>4, <1>5 DEF IncrefAndClose, SetWord

LEMMA CloseReleaseKeeps ==
  ASSUME FDInv, PollTypeOK, NEW g \in Goroutines, CloseRelease(g), program' = program
  PROVE  FDInv'
<1>1. fpc[g] = "release" /\ fpc[g] # "idle"
  BY DEF CloseRelease
<1>2. PICK f \in Files, n \in Modes :
        /\ f = file(g) /\ n = ioMode(g) /\ fdmu[f] = word(g)
        /\ fdmu[f] \in WordType /\ fdmu[f].closed \in BOOLEAN /\ fdmu[f].locked \in SUBSET Modes
        /\ fdmu[f].refs \in Nat /\ fdmu[f].waits \in [Modes -> Nat]
        /\ \A m \in Modes : <<f, m>> \in Addrs /\ permits[<<f, m>>] \in Nat
        /\ fdmu[f].closed => fdmu[f].waits = [m \in Modes |-> 0]
  BY <1>1, Here
<1>3. UNCHANGED fileVars /\ fdmu' = fdmu /\ fpc' = fpc /\ op' = op
  BY DEF CloseRelease
<1>4. PICK k \in Modes : k = FirstMode(Owes(g)) /\ owed[g][k] > 0
  BY ModeFact DEF CloseRelease, Owes
<1>5. permits' = [permits EXCEPT ![<<f, k>>] = @ + 1] /\ DOMAIN waiting' = Addrs
  BY <1>2, <1>4 DEF CloseRelease, Semrelease, FDInv, FDTypeOK
<1>6. permits \in [Addrs -> Nat] /\ permits' \in [Addrs -> Nat]
  BY <1>2, <1>5 DEF FDInv, FDTypeOK
<1>7. /\ owed' \in [Goroutines -> [Modes -> Nat]]
      /\ \A m \in Modes : owed'[g][m] = IF m = k THEN owed[g][m] - 1 ELSE owed[g][m]
      /\ \A h \in Goroutines \ {g} : owed'[h] = owed[h]
      /\ \A m \in Modes : owed[g][m] \in Nat
  <2>1. owed' = [owed EXCEPT ![g][k] = @ - 1]
    BY <1>4 DEF CloseRelease
  <2>2. owed \in [Goroutines -> [Modes -> Nat]]
    BY DEF FDInv, FDTypeOK
  <2>3. PICK j \in Nat : j = owed[g][k] - 1
    BY <1>4, <2>2
  <2> QED BY <1>4, <2>1, <2>2, <2>3
<1>8. Rest'
  BY <1>3, <1>5, <1>6, <1>7 DEF Rest, FDInv, FDTypeOK, fileVars
<1>9. Goes(g, "release") /\ "release" \in FPc /\ Fits("release", op[g])
  BY <1>1, <1>3 DEF Goes, FDInv, FDTypeOK, KindInv, FPc, ReferencePc
<1>10. fdmu' = [fdmu EXCEPT ![f] = fdmu[f]]
  BY <1>3 DEF FDInv, FDTypeOK
<1>11. \A e \in Files \ {f}, m \in Modes : permits'[<<e, m>>] = permits[<<e, m>>]
  BY <1>5, <1>6, FDAssumption
<1>12. \A m \in Modes : permits'[<<f, m>>] = IF m = k THEN permits[<<f, m>>] + 1 ELSE permits[<<f, m>>]
  BY <1>2, <1>5, <1>6
<1>13. "release" \in ReferencePc /\ "release" \notin LockedPc /\ "release" \notin SignalPc
  BY DEF LockedPc, SignalPc, ReferencePc
<1>14. Local(g, "release", fdmu[f])
  <2>1. fdmu[f].refs = fdmu[f].refs + One("release" \in ReferencePc) - One(fpc[g] \in ReferencePc)
    BY <1>1, <1>2, <1>13 DEF One
  <2>2. \A m \in Modes : One(m \in fdmu[f].locked) =
          One(m \in fdmu[f].locked) + One("release" \in LockedPc /\ m = n) - One(fpc[g] \in LockedPc /\ m = n)
    BY <1>1, <1>2, <1>13 DEF One
  <2>3. \A m \in Modes :
          fdmu[f].waits[m] + permits'[<<f, m>>] + One("release" \in SignalPc /\ m = n)
              + (IF "release" = "release" THEN owed'[g][m] ELSE 0) - One("release" = "rwsleep" /\ m = n)
            = fdmu[f].waits[m] + permits[<<f, m>>] + One(fpc[g] \in SignalPc /\ m = n)
                + (IF fpc[g] = "release" THEN owed[g][m] ELSE 0) - One(fpc[g] = "rwsleep" /\ m = n)
    BY <1>1, <1>2, <1>7, <1>12, <1>13 DEF One
  <2> QED BY <1>2, <1>7, <1>10, <1>11, <2>1, <2>2, <2>3 DEF Local
<1> QED BY <1>1, <1>8, <1>9, <1>14, StepKeeps

-----------------------------------------------------------------------------
(* Every step.                                                             *)

LEMMA CallFacts ==
  ASSUME FDInv, NEW g \in Goroutines
  PROVE  /\ g \in Actors /\ file(g) \in Files \cup {Nobody}
         /\ Pollable(file(g)) /\ file(g) \in Files => ctx[file(g)] \in PollDescs
         /\ fpc[g] # "idle" => /\ file(g) \in Files /\ ioMode(g) \in Modes
                              /\ op[g].modes \in SUBSET Modes /\ op[g].deadline \in Int
<1>1. op[g] \in Op \/ op[g] = NoOp
  BY DEF FDInv, FDTypeOK
<1>2. file(g) \in Files \cup {Nobody}
  BY <1>1 DEF Op, NoOp, file
<1>3. fpc[g] # "idle" => op[g] \in Op
  BY DEF FDInv, KindInv, Fits
<1>4. fpc[g] # "idle" => /\ file(g) \in Files /\ op[g].modes \in SUBSET Modes /\ op[g].deadline \in Int
  BY <1>3 DEF Op, file
<1>5. ioMode(g) \in Modes
  BY ModeFact DEF ioMode
<1>6. g \in Actors
  BY DEF Actors
<1>7. \A f \in Files : Pollable(f) => ctx[f] \in PollDescs
  BY DEF FDInv, FDTypeOK, Pollable
<1> QED BY <1>2, <1>4, <1>5, <1>6, <1>7

LEMMA PollStays ==
  ASSUME PollTypeOK, pollVars' = pollVars
  PROVE  PollTypeOK'
BY DEF PollTypeOK, ControlOK, pollVars

\* The calls that a file makes to the poller.
LEMMA EntryTypes ==
  ASSUME PollTypeOK, NEW g \in Goroutines, NEW p \in PollDescs
  PROVE  /\ \A m \in Modes : CallPollReset(g, p, m) \/ CallPollWait(g, p, m) => PollTypeOK'
         /\ \A ms \in SUBSET Modes, d \in Int : CallPollSetDeadline(g, p, ms, d) => PollTypeOK'
         /\ CallPollUnblock(g, p) \/ CallPollClose(g, p) => PollTypeOK'
<1>1. 0 \in Int /\ {} \in SUBSET Modes /\ Modes \in SUBSET Modes
      /\ \A m \in Modes : {m} \in SUBSET Modes
  OBVIOUS
<1>2. \A e : \A ms \in SUBSET Modes, d \in Int : CallPoll(g, e, p, ms, d) => PollTypeOK'
  BY PollCallTypes
<1>3. \A m \in Modes : CallPollReset(g, p, m) => PollTypeOK'
  BY <1>1, <1>2 DEF CallPollReset
<1>4. \A m \in Modes : CallPollWait(g, p, m) => PollTypeOK'
  BY <1>1, <1>2 DEF CallPollWait
<1>5. \A ms \in SUBSET Modes, d \in Int : CallPollSetDeadline(g, p, ms, d) => PollTypeOK'
  BY <1>2 DEF CallPollSetDeadline
<1>6. CallPollUnblock(g, p) => PollTypeOK'
  BY <1>1, <1>2 DEF CallPollUnblock
<1>7. CallPollClose(g, p) => PollTypeOK'
  BY <1>1, <1>2 DEF CallPollClose
<1> QED BY <1>3, <1>4, <1>5, <1>6, <1>7

LEMMA StepTypes ==
  ASSUME FDInv, PollTypeOK, NEW g \in Goroutines, FDStep(g)
  PROVE  PollTypeOK'
<1>1. npd[g] \in PollDescs
  BY CallFacts DEF PollTypeOK, ControlOK
<1>2. CASE Open(g)
  BY <1>2, PollCallTypes DEF Open
<1>3. CASE Opened(g) \/ OpenedBlocking(g) \/ CloseFunc(g) \/ Decref(g) \/ Prepared(g)
  BY <1>3, PollCallTypes DEF Opened, OpenedBlocking, CloseFunc, Decref, Prepared
<1>4. CASE OpenFails(g) \/ OpenUnpoll(g)
  BY <1>1, <1>4, EntryTypes DEF OpenFails, OpenUnpoll
<1>5. CASE Prepare(g)
  BY <1>5, CallFacts, EntryTypes, PollStays DEF Prepare
<1>6. CASE Syscall(g)
  BY <1>6, CallFacts, EntryTypes, PollLifeTypes DEF Syscall
<1>7. CASE Incref(g)
  BY <1>7, CallFacts, EntryTypes, PollStays DEF Incref
<1>8. CASE CloseEvict(g)
  BY <1>8, CallFacts, EntryTypes, PollStays DEF CloseEvict
<1>9. CASE Destroy(g)
  BY <1>9, CallFacts, EntryTypes, PollStays DEF Destroy
<1>10. CASE RwLock(g) \/ RwLockWake(g) \/ RwUnlock(g) \/ RwSignal(g)
  BY <1>10, PollStays DEF RwLock, RwLockWake, RwUnlock, RwSignal
<1>11. CASE IncrefAndClose(g) \/ CloseRelease(g) \/ CloseWait(g) \/ CloseReturn(g) \/ CloseSignal(g)
  BY <1>11, PollStays DEF IncrefAndClose, CloseRelease, CloseWait, CloseReturn, CloseSignal
<1> QED BY <1>2, <1>3, <1>4, <1>5, <1>6, <1>7, <1>8, <1>9, <1>10, <1>11 DEF FDStep

LEMMA StepKeepsFD ==
  ASSUME FDInv, PollTypeOK, NEW g \in Goroutines, FDStep(g), program' = program
  PROVE  FDInv'
BY OpenKeeps, OpenedKeeps, OpenFailsKeeps, OpenUnpollKeeps, OpenedBlockingKeeps, PrepareKeeps,
   PreparedKeeps, SyscallKeeps, CloseWaitKeeps, CloseReturnKeeps, DestroyKeeps, CloseFuncKeeps,
   CloseSignalKeeps, CloseEvictKeeps, RwLockKeeps, RwLockWakeKeeps, RwUnlockKeeps, RwSignalKeeps,
   IncrefKeeps, DecrefKeeps, IncrefAndCloseKeeps, CloseReleaseKeeps
   DEF FDStep

LEMMA FDStays ==
  ASSUME FDInv, UNCHANGED <<fdVars, semaphoreVars>>,
         program' \in [calls : [Goroutines -> Seq(Op)], ready : Nat]
  PROVE  FDInv'
<1>1. UNCHANGED <<fdmu, sysfd, ctx, blocking, fpc, op, owed, permits, waiting>>
  BY DEF fdVars, semaphoreVars
<1>2. FDTypeOK'
  BY <1>1 DEF FDInv, FDTypeOK
<1>3. KindInv'
  BY <1>1 DEF FDInv, KindInv
<1>4. \A f \in Files : /\ On(f, ReferencePc)' = On(f, ReferencePc)
                      /\ \A m \in Modes : /\ Holders(f, m)' = Holders(f, m)
                                           /\ Wakeups(f, m)' = Wakeups(f, m)
                                           /\ LockWaiters(f, m)' = LockWaiters(f, m)
  BY <1>1 DEF On, Holders, Wakeups, LockWaiters, Owed, file, ioMode, ReferencePc, LockedPc
<1>5. WordInv'
  BY <1>1, <1>4 DEF FDInv, WordInv
<1> QED BY <1>2, <1>3, <1>5 DEF FDInv

LEMMA CallNextFact ==
  ASSUME FDInv, NEW g \in Goroutines, CallNext(g)
  PROVE  \E o \in Op :
           /\ o = Head(program.calls[g]) /\ fpc[g] = "idle"
           /\ o.kind = "open" <=> sysfd[o.file] = "none"
           /\ fpc' = [fpc EXCEPT ![g] = FirstPc[o.kind]] /\ op' = [op EXCEPT ![g] = o]
           /\ program' = [program EXCEPT !.calls[g] = Tail(program.calls[g])]
           /\ program' \in [calls : [Goroutines -> Seq(Op)], ready : Nat]
<1>1. program \in [calls : [Goroutines -> Seq(Op)], ready : Nat]
  BY DEF FDInv, FDTypeOK
<1>2. program.calls[g] \in Seq(Op) /\ program.calls[g] # <<>>
  BY <1>1 DEF CallNext
<1>3. Head(program.calls[g]) \in Op /\ Tail(program.calls[g]) \in Seq(Op)
  BY <1>2, HeadTailProperties
<1>4. program' = [program EXCEPT !.calls[g] = Tail(program.calls[g])]
  BY DEF CallNext
<1>5. PICK t \in Seq(Op) : t = Tail(program.calls[g])
  BY <1>3
<1>6. program' \in [calls : [Goroutines -> Seq(Op)], ready : Nat]
  BY <1>1, <1>4, <1>5
<1>7. Invoke(g, Head(program.calls[g]))
  BY DEF CallNext
<1> QED BY <1>3, <1>4, <1>6, <1>7 DEF Invoke

LEMMA CallNextKeeps ==
  ASSUME FDInv, NEW g \in Goroutines, CallNext(g)
  PROVE  FDInv'
<1>1. PICK o \in Op :
           /\ o = Head(program.calls[g]) /\ fpc[g] = "idle"
           /\ fpc' = [fpc EXCEPT ![g] = FirstPc[o.kind]] /\ op' = [op EXCEPT ![g] = o]
           /\ program' \in [calls : [Goroutines -> Seq(Op)], ready : Nat]
  BY CallNextFact
<1>2. UNCHANGED <<fdmu, sysfd, ctx, blocking, owed, permits, waiting>>
  BY DEF CallNext, Invoke, fileVars, semaphoreVars
<1>3. PICK l \in {"open", "rwlock", "incref", "close"} :
        /\ l = FirstPc[o.kind] /\ Fits(l, o)
        /\ l \in FPc /\ l \notin ReferencePc /\ l \notin LockedPc /\ l \notin SignalPc
  <2>1. o.kind \in {"open", "io", "setdeadline", "misc", "close"}
    BY DEF Op
  <2> QED BY <2>1 DEF FirstPc, Fits, FPc, OpenPc, IOPc, ReferencePc, LockedPc, SignalPc
<1>4. /\ fpc'[g] = l /\ op'[g] = o /\ \A h \in Goroutines \ {g} : fpc'[h] = fpc[h] /\ op'[h] = op[h]
      /\ fpc' \in [Goroutines -> FPc] /\ op' \in [Goroutines -> Op \cup {NoOp}]
  BY <1>1, <1>3 DEF FDInv, FDTypeOK
<1>5. FDTypeOK'
  BY <1>1, <1>2, <1>4 DEF FDInv, FDTypeOK
<1>6. KindInv'
  BY <1>3, <1>4 DEF FDInv, KindInv
<1>7. Moves(g)
  BY <1>2, <1>4 DEF Moves
<1>8. \A f \in Files :
      /\ ~Uses(g, f) /\ ~Uses(g, f)'
      /\ \A m \in Modes : /\ ~Holds(g, f, m) /\ ~Holds(g, f, m)'
                           /\ ~Signals(g, f, m) /\ ~Signals(g, f, m)'
                           /\ ~Sleeps(g, f, m) /\ ~Sleeps(g, f, m)'
                           /\ OwedBy(g, f, m) = 0 /\ OwedBy(g, f, m)' = 0
  BY <1>1, <1>3, <1>4 DEF Uses, Holds, Signals, Sleeps, OwedBy, ReferencePc, LockedPc, SignalPc
<1>9. Balanced(g)
  <2>1. \A f \in Files : /\ fdmu[f].refs \in Nat /\ fdmu[f].waits \in [Modes -> Nat]
                        /\ \A m \in Modes : permits[<<f, m>>] \in Nat
    BY FDAssumption DEF FDInv, FDTypeOK, WordType, WordInv
  <2> SUFFICES ASSUME NEW f \in Files, NEW m \in Modes
               PROVE  /\ fdmu'[f].refs = fdmu[f].refs + One(Uses(g, f)') - One(Uses(g, f))
                      /\ fdmu'[f].closed => fdmu'[f].waits = [n \in Modes |-> 0]
                      /\ One(m \in fdmu'[f].locked) =
                           One(m \in fdmu[f].locked) + One(Holds(g, f, m)') - One(Holds(g, f, m))
                      /\ fdmu'[f].waits[m] + permits'[<<f, m>>] + One(Signals(g, f, m)') + OwedBy(g, f, m)'
                             - One(Sleeps(g, f, m)')
                            = fdmu[f].waits[m] + permits[<<f, m>>] + One(Signals(g, f, m)) + OwedBy(g, f, m)
                                - One(Sleeps(g, f, m))
    <3>1. "r" \in Modes
      BY DEF Modes
    <3> QED BY <3>1 DEF Balanced
  <2>2. /\ One(Uses(g, f)) = 0 /\ One(Uses(g, f)') = 0 /\ One(Holds(g, f, m)) = 0 /\ One(Holds(g, f, m)') = 0
        /\ One(Signals(g, f, m)) = 0 /\ One(Signals(g, f, m)') = 0
        /\ One(Sleeps(g, f, m)) = 0 /\ One(Sleeps(g, f, m)') = 0
    BY <1>8 DEF One
  <2>3. One(m \in fdmu[f].locked) \in Nat
    BY DEF One
  <2>4. OwedBy(g, f, m) = 0 /\ OwedBy(g, f, m)' = 0
    BY <1>8
  <2>11. fdmu[f].refs \in Nat /\ fdmu[f].waits[m] \in Nat /\ permits[<<f, m>>] \in Nat
    BY <2>1
  <2>5. PICK a \in Int, b \in Int : a = fdmu[f].waits[m] /\ b = permits[<<f, m>>]
    BY <2>11
  <2>6. fdmu'[f] = fdmu[f] /\ permits'[<<f, m>>] = b /\ fdmu[f].refs \in Int
    BY <1>2, <2>5, <2>11
  <2>7. fdmu'[f].refs = fdmu[f].refs + One(Uses(g, f)') - One(Uses(g, f))
    BY <2>2, <2>6
  <2>8. One(m \in fdmu'[f].locked) =
          One(m \in fdmu[f].locked) + One(Holds(g, f, m)') - One(Holds(g, f, m))
    BY <2>2, <2>3, <2>6
  <2>9. fdmu'[f].waits[m] + permits'[<<f, m>>] + One(Signals(g, f, m)') + OwedBy(g, f, m)'
             - One(Sleeps(g, f, m)')
          = fdmu[f].waits[m] + permits[<<f, m>>] + One(Signals(g, f, m)) + OwedBy(g, f, m)
               - One(Sleeps(g, f, m))
    BY <2>2, <2>4, <2>5, <2>6
  <2>10. fdmu'[f].closed => fdmu'[f].waits = [n \in Modes |-> 0]
    BY <2>6 DEF FDInv, WordInv
  <2> QED BY <2>7, <2>8, <2>9, <2>10
<1> QED BY <1>5, <1>6, <1>7, <1>9, WordMoves DEF FDInv

LEMMA ReadyKeeps ==
  ASSUME FDInv, NEW f \in Files, NEW m \in Modes, Ready(f, m)
  PROVE  FDInv'
<1>1. program \in [calls : [Goroutines -> Seq(Op)], ready : Nat] /\ program.ready - 1 \in Nat
  BY DEF FDInv, FDTypeOK, Ready
<1>2. PICK n \in Nat : n = program.ready - 1
  BY <1>1
<1>3. program' = [program EXCEPT !.ready = n]
  BY <1>2 DEF Ready
<1>4. program' \in [calls : [Goroutines -> Seq(Op)], ready : Nat]
  BY <1>1, <1>3
<1> QED BY <1>4, FDStays DEF Ready

LEMMA InPollTypes ==
  ASSUME FDInv, PollTypeOK
  PROVE  /\ \A g \in Goroutines : GoroutineInPoll(g, file(g)) => PollTypeOK'
         /\ \A t \in TimerProcs : TimerFires(t) \/ TimerProcStep(t) => PollTypeOK'
         /\ \A n \in Pollers : PollerStep(n) => PollTypeOK'
<1>1. /\ Goroutines \subseteq Actors /\ TimerProcs \subseteq Actors /\ Pollers \subseteq Actors
  BY DEF Actors
<1>2. ASSUME NEW g \in Goroutines, GoroutineInPoll(g, file(g))
      PROVE  PollTypeOK'
  <2>1. file(g) \in Files \cup {Nobody}
    BY CallFacts
  <2>2. PollOpenReset(g, file(g)) => PollTypeOK'
    BY <2>1, PollLifeTypes
  <2> QED BY <1>1, <1>2, <2>2, PollLifeTypes, PollEndTypes, PollWaitTypes DEF GoroutineInPoll
<1>3. ASSUME NEW t \in TimerProcs, TimerFires(t) \/ TimerProcStep(t)
      PROVE  PollTypeOK'
  BY <1>1, <1>3, PollEndTypes DEF TimerProcStep
<1>4. ASSUME NEW n \in Pollers, PollerStep(n)
      PROVE  PollTypeOK'
  BY <1>1, <1>4, PollEndTypes, PollLifeTypes DEF PollerStep
<1> QED BY <1>2, <1>3, <1>4

LEMMA NextKeepsWords ==
  ASSUME FDInv, PollTypeOK, [Next]_vars
  PROVE  FDInv' /\ PollTypeOK'
<1>1. program \in [calls : [Goroutines -> Seq(Op)], ready : Nat]
  BY DEF FDInv, FDTypeOK
<1>2. ASSUME NEW g \in Goroutines, CallNext(g)
      PROVE  FDInv' /\ PollTypeOK'
  <2>1. pollVars' = pollVars
    BY <1>2 DEF CallNext, Invoke
  <2> QED BY <1>2, <2>1, CallNextKeeps, PollStays
<1>3. ASSUME NEW g \in Goroutines, Run(g)
      PROVE  FDInv' /\ PollTypeOK'
  <2>1. CASE FDStep(g)
    BY <1>3, <2>1, StepTypes, StepKeepsFD DEF Run
  <2>2. CASE GoroutineInPoll(g, file(g)) /\ UNCHANGED <<semaphoreVars, fdVars>>
    BY <1>1, <1>3, <2>2, InPollTypes, FDStays DEF Run
  <2> QED BY <1>3, <2>1, <2>2 DEF Run
<1>4. ASSUME NEW t \in TimerProcs, Fire(t) \/ RunTimer(t)
      PROVE  FDInv' /\ PollTypeOK'
  BY <1>1, <1>4, InPollTypes, FDStays DEF Fire, RunTimer
<1>5. ASSUME NEW n \in Pollers, RunPoller(n)
      PROVE  FDInv' /\ PollTypeOK'
  BY <1>1, <1>5, InPollTypes, FDStays DEF RunPoller
<1>6. ASSUME NEW f \in Files, NEW m \in Modes, Ready(f, m)
      PROVE  FDInv' /\ PollTypeOK'
  <2>1. BecomesReady(f, m)
    BY <1>6 DEF Ready
  <2> QED BY <1>6, <2>1, ReadyKeeps, PollLifeTypes
<1>7. CASE UNCHANGED vars
  BY <1>1, <1>7, FDStays, PollStays DEF vars
<1> QED BY <1>2, <1>3, <1>4, <1>5, <1>6, <1>7 DEF Next

LEMMA InitWords ==
  ASSUME Init
  PROVE  FDInv /\ PollTypeOK
<1>1. PollTypeOK
  <2>1. ControlOK
    <3>1. (CHOOSE p \in PollDescs : TRUE) \in PollDescs
      BY PollAssumption
    <3> QED BY <3>1 DEF Init, PollInit, ControlOK, Modes
  <2>2. timer \in [PollDescs -> [Modes -> TimerType]]
    <3>1. NoTimer \in TimerType
      BY DEF NoTimer, TimerType
    <3> QED BY <3>1 DEF Init, PollInit
  <2>3. pdLock \in [PollDescs -> Actors \cup {Nobody}] /\ freeDescs \subseteq PollDescs
    BY DEF Init, PollInit
  <2>4. sem \in [PollDescs -> [Modes -> SemType]] /\ deadline \in [PollDescs -> [Modes -> Int]]
    BY DEF Init, PollInit, SemType
  <2> QED BY <2>1, <2>2, <2>3, <2>4 DEF Init, PollInit, PollTypeOK
<1>2. FDTypeOK
  <2>1. program \in [calls : [Goroutines -> Seq(Op)], ready : Nat]
    BY ProgramsAssumption DEF Init
  <2>2. fdmu \in [Files -> WordType]
    BY DEF Init, FDInit, NewWord, WordType
  <2>3. permits \in [Addrs -> Nat] /\ DOMAIN waiting = Addrs
    BY DEF Init, SemaphoreInit
  <2>4. fpc \in [Goroutines -> FPc] /\ owed \in [Goroutines -> [Modes -> Nat]]
    BY DEF Init, FDInit, FPc
  <2> QED BY <2>1, <2>2, <2>3, <2>4 DEF Init, FDInit, FDTypeOK
<1>3. KindInv
  BY DEF Init, FDInit, KindInv, Fits, OpenPc, IOPc, LockedPc, SignalPc
<1>4. WordInv
  <2> SUFFICES ASSUME NEW f \in Files
               PROVE  /\ fdmu[f].refs = Cardinality(On(f, ReferencePc))
                      /\ \A m \in Modes :
                           /\ Cardinality(Holders(f, m)) = One(m \in fdmu[f].locked)
                           /\ fdmu[f].waits[m] + Wakeups(f, m) = Cardinality(LockWaiters(f, m))
                      /\ fdmu[f].closed => fdmu[f].waits = [m \in Modes |-> 0]
    BY DEF WordInv
  <2>1. fdmu[f] = NewWord /\ \A g \in Goroutines : fpc[g] = "idle"
    BY DEF Init, FDInit
  <2>2. /\ On(f, ReferencePc) = {} /\ On(f, {"release"}) = {}
        /\ \A m \in Modes : /\ Holders(f, m) = {} /\ LockWaiters(f, m) = {} /\ Signallers(f, m) = {}
                             /\ Owed(f, m) = {}
    BY <2>1 DEF On, Holders, LockWaiters, Signallers, Owed, ReferencePc, LockedPc, SignalPc
  <2>3. \A m \in Modes : permits[<<f, m>>] = 0
    BY FDAssumption DEF Init, SemaphoreInit
  <2>4. \A m \in Modes : Wakeups(f, m) = 0
    BY <2>2, <2>3, FS_EmptySet DEF Wakeups, Signallers, SignalPc
  <2> QED BY <2>1, <2>2, <2>4, FS_EmptySet DEF NewWord, One
<1> QED BY <1>1, <1>2, <1>3, <1>4 DEF FDInv

\* The word of a file tells the truth.
THEOREM FDWordTellsTruth == Spec => []WordTellsTruth
<1>1. Init => FDInv /\ PollTypeOK
  BY InitWords
<1>2. FDInv /\ PollTypeOK /\ [Next]_vars => FDInv' /\ PollTypeOK'
  BY NextKeepsWords
<1>3. FDInv => WordTellsTruth
  BY WordInvIsTrue
<1> QED BY <1>1, <1>2, <1>3, PTL DEF Spec

-----------------------------------------------------------------------------
(* The life of a file: it is opened once, closed once and destroyed once.  *)

\* A file is being opened by one goroutine, and only while it has no descriptor.
OpenInv ==
  /\ OpenedOnce(program.calls)
  /\ \A g \in Goroutines : fpc[g] \in OpenPc =>
       /\ sysfd[file(g)] = "none"
       /\ \A h \in Goroutines : fpc[h] \in OpenPc /\ file(h) = file(g) => h = g
       /\ \A h \in Goroutines : \A i \in DOMAIN program.calls[h] : ~Opens(program.calls[h][i], file(g))
  /\ \A g \in Goroutines : fpc[g] \notin OpenPc \cup {"idle"} => sysfd[file(g)] # "none"
  /\ \A f \in Files :
       /\ fdmu[f].closed => sysfd[f] # "none"
       /\ ctx[f] # Nobody => sysfd[f] = "open"
       /\ sysfd[f] = "closed" => fdmu[f].closed /\ fdmu[f].refs = 0

\* Who destroys a file is alone with it.
DestroyInv ==
  \A g \in Goroutines : fpc[g] \in DestroyPc =>
    /\ fdmu[file(g)].closed /\ fdmu[file(g)].refs = 0
    /\ fpc[g] # "csignal" => sysfd[file(g)] = "open"
    /\ \A h \in Goroutines : fpc[h] \in DestroyPc /\ file(h) = file(g) => h = g

\* One Close has closed it.
Closer(g) == fpc[g] = "release" \/ (fpc[g] = "decref" /\ op[g].kind = "close")

CloserInv ==
  \A g \in Goroutines : Closer(g) =>
    /\ fdmu[file(g)].closed
    /\ \A h \in Goroutines : Closer(h) /\ file(h) = file(g) => h = g

LifeInv == OpenInv /\ DestroyInv /\ CloserInv

LEMMA WordFields ==
  ASSUME NEW w \in WordType, NEW m \in Modes
  PROVE  /\ incref(w).closed = w.closed /\ incref(w).refs = w.refs + 1
         /\ increfAndClose(w).closed = TRUE /\ increfAndClose(w).refs = w.refs + 1
         /\ rwlock(w, m).closed = w.closed /\ rwlock(w, m).refs = w.refs + 1
         /\ rwwait(w, m).closed = w.closed /\ rwwait(w, m).refs = w.refs
         /\ decref(w).closed = w.closed /\ decref(w).refs = w.refs - 1
         /\ rwunlock(w, m).closed = w.closed /\ rwunlock(w, m).refs = w.refs - 1
<1>1. incref(w).closed = w.closed /\ incref(w).refs = w.refs + 1
  BY DEF incref, WordType
<1>2. increfAndClose(w).closed = TRUE /\ increfAndClose(w).refs = w.refs + 1
  BY DEF increfAndClose, WordType
<1>3. rwlock(w, m).closed = w.closed /\ rwlock(w, m).refs = w.refs + 1
  BY DEF rwlock, WordType
<1>4. rwwait(w, m).closed = w.closed /\ rwwait(w, m).refs = w.refs
  BY DEF rwwait, WordType
<1>5. decref(w).closed = w.closed /\ decref(w).refs = w.refs - 1
  BY DEF decref, WordType
<1>6. rwunlock(w, m).closed = w.closed /\ rwunlock(w, m).refs = w.refs - 1
  BY DEF rwunlock, WordType
<1> QED BY <1>1, <1>2, <1>3, <1>4, <1>5, <1>6

\* What a word may become: w is that of the file of g before the step, v after it.
WordLife(g, w, v) ==
  /\ w.closed => v.closed
  /\ v.closed => w.closed \/ fpc[g] = "close"
  /\ w.closed /\ w.refs = 0 => v.refs = 0

\* The steps of a file, as far as its life is concerned.
LifeStep(g, l) ==
  LET f == file(g) IN
  /\ Goes(g, l)
  /\ \E v \in WordType : fdmu' = [fdmu EXCEPT ![f] = v] /\ WordLife(g, fdmu[f], v)
       /\ (l \in DestroyPc /\ fpc[g] \notin DestroyPc => fpc[g] \in ReferencePc /\ v.closed /\ v.refs = 0)
       /\ (l = "release" => fpc[g] = "release" \/ (fpc[g] = "close" /\ ~fdmu[f].closed /\ v.closed))
  /\ l \in OpenPc => fpc[g] \in OpenPc
  /\ l \notin OpenPc \cup {"idle"} => fpc[g] \notin OpenPc
  /\ fpc[g] = "csignal" => l \notin DestroyPc
  /\ l = "decref" /\ op[g].kind = "close" => fpc[g] = "release"
  /\ \/ UNCHANGED <<sysfd, ctx>> /\ l # "csignal"
     \/ /\ fpc[g] \in OpenPc /\ l = "idle" /\ sysfd' = [sysfd EXCEPT ![f] = "open"]
        /\ \A e \in Files \ {f} : ctx'[e] = ctx[e]
     \/ /\ fpc[g] = "closefunc" /\ l = "csignal"
        /\ sysfd' = [sysfd EXCEPT ![f] = "closed"] /\ ctx' = [ctx EXCEPT ![f] = Nobody]

LEMMA LifeKeeps ==
  ASSUME FDInv, LifeInv, FDInv', NEW g \in Goroutines, fpc[g] # "idle", NEW l \in FPc, LifeStep(g, l),
         program' = program
  PROVE  LifeInv'
<1> DEFINE f == file(g)
<1>1. PICK v \in WordType :
        /\ fdmu' = [fdmu EXCEPT ![f] = v] /\ WordLife(g, fdmu[f], v)
        /\ (l \in DestroyPc /\ fpc[g] \notin DestroyPc => fpc[g] \in ReferencePc /\ v.closed /\ v.refs = 0)
        /\ (l = "release" => fpc[g] = "release" \/ (fpc[g] = "close" /\ ~fdmu[f].closed /\ v.closed))
  BY DEF LifeStep
<1>2. f \in Files
  BY CallFacts
<1>3. /\ fpc'[g] = l /\ (l # "idle" => op'[g] = op[g])
      /\ \A h \in Goroutines \ {g} : fpc'[h] = fpc[h] /\ op'[h] = op[h] /\ file(h)' = file(h)
      /\ l # "idle" => file(g)' = f
  BY DEF LifeStep, Goes, FDInv, FDTypeOK, file
<1>4. fdmu'[f] = v /\ \A e \in Files \ {f} : fdmu'[e] = fdmu[e]
  BY <1>1, <1>2 DEF FDInv, FDTypeOK
<1>5. fpc[g] \in ReferencePc => fdmu[f].refs # 0
  BY Here
<1>6. /\ sysfd \in [Files -> {"none", "open", "closed"}]
      /\ \A h \in Goroutines : fpc[h] # "idle" => file(h) \in Files
  BY CallFacts DEF FDInv, FDTypeOK
<1> HIDE DEF f
<1>7. \/ UNCHANGED <<sysfd, ctx>> /\ l # "csignal"
      \/ /\ fpc[g] \in OpenPc /\ l = "idle" /\ sysfd' = [sysfd EXCEPT ![f] = "open"]
         /\ \A e \in Files \ {f} : ctx'[e] = ctx[e]
      \/ /\ fpc[g] = "closefunc" /\ l = "csignal"
         /\ sysfd' = [sysfd EXCEPT ![f] = "closed"] /\ ctx' = [ctx EXCEPT ![f] = Nobody]
  BY DEF LifeStep, f
<1>8. /\ l \in OpenPc => fpc[g] \in OpenPc
      /\ l \notin OpenPc \cup {"idle"} => fpc[g] \notin OpenPc
      /\ fpc[g] = "csignal" => l \notin DestroyPc
      /\ l = "decref" /\ op[g].kind = "close" => fpc[g] = "release"
  BY DEF LifeStep, f
<1>9. /\ "idle" \notin OpenPc /\ "idle" \notin DestroyPc /\ "closefunc" \notin OpenPc /\ "close" \notin OpenPc
      /\ "closefunc" \in DestroyPc /\ "csignal" \in DestroyPc /\ "csignal" \notin OpenPc
      /\ OpenPc \cap DestroyPc = {} /\ OpenPc \cap ReferencePc = {}
  BY DEF OpenPc, DestroyPc, ReferencePc, LockedPc
<1>10. /\ \A e \in Files : e # f => sysfd'[e] = sysfd[e] /\ ctx'[e] = ctx[e] /\ fdmu'[e] = fdmu[e]
       /\ fpc[g] \notin OpenPc /\ fpc[g] # "closefunc" => sysfd'[f] = sysfd[f] /\ ctx'[f] = ctx[f]
       /\ sysfd[f] # "none" => sysfd'[f] # "none"
  <2>1. ctx \in [Files -> PollDescs \cup {Nobody}]
    BY DEF FDInv, FDTypeOK
  <2> QED BY <1>2, <1>4, <1>6, <1>7, <2>1
<1>11. OpenInv'
  <2>1. OpenedOnce(program.calls)'
    BY DEF LifeInv, OpenInv, OpenedOnce
  <2>2. ASSUME NEW h \in Goroutines, fpc'[h] \in OpenPc
        PROVE  /\ sysfd'[file(h)'] = "none"
               /\ \A k \in Goroutines : fpc'[k] \in OpenPc /\ file(k)' = file(h)' => k = h
               /\ \A k \in Goroutines : \A i \in DOMAIN program.calls[k] :
                    ~Opens(program.calls[k][i], file(h)')
    <3>1. fpc[h] \in OpenPc /\ file(h)' = file(h) /\ fpc[h] # "idle"
      BY <1>3, <1>8, <1>9, <2>2 DEF f
    <3>2. \A k \in Goroutines : fpc'[k] \in OpenPc => fpc[k] \in OpenPc /\ file(k)' = file(k)
      BY <1>3, <1>8, <1>9 DEF f
    <3>3. /\ sysfd[file(h)] = "none"
          /\ \A k \in Goroutines : fpc[k] \in OpenPc /\ file(k) = file(h) => k = h
          /\ \A k \in Goroutines : \A i \in DOMAIN program.calls[k] :
                    ~Opens(program.calls[k][i], file(h))
      BY <3>1 DEF LifeInv, OpenInv
    <3>4. sysfd'[file(h)] = "none"
      <4>1. CASE file(h) # f
        BY <1>6, <1>10, <3>1, <3>3, <4>1
      <4>2. CASE file(h) = f /\ fpc[g] \in OpenPc
        <5>1. g = h
          BY <3>3, <4>2 DEF f
        <5> QED BY <1>3, <1>7, <1>9, <2>2, <3>3, <4>2, <5>1
      <4>3. CASE file(h) = f /\ fpc[g] \notin OpenPc
        <5>1. sysfd[f] # "none"
          BY <4>3 DEF LifeInv, OpenInv, f
        <5> QED BY <3>3, <4>3, <5>1
      <4> QED BY <4>1, <4>2, <4>3
    <3> QED BY <3>1, <3>2, <3>3, <3>4
  <2>3. ASSUME NEW h \in Goroutines, fpc'[h] \notin OpenPc \cup {"idle"}
        PROVE  sysfd'[file(h)'] # "none"
    <3>1. fpc[h] \notin OpenPc \cup {"idle"} /\ file(h)' = file(h)
      BY <1>3, <1>8, <1>9, <2>3 DEF f
    <3>2. sysfd[file(h)] # "none"
      BY <3>1 DEF LifeInv, OpenInv
    <3> QED BY <1>6, <1>10, <3>1, <3>2
  <2>4. ASSUME NEW e \in Files
        PROVE  /\ fdmu'[e].closed => sysfd'[e] # "none"
               /\ ctx'[e] # Nobody => sysfd'[e] = "open"
               /\ sysfd'[e] = "closed" => fdmu'[e].closed /\ fdmu'[e].refs = 0
    <3>1. /\ fdmu[e].closed => sysfd[e] # "none"
          /\ ctx[e] # Nobody => sysfd[e] = "open"
          /\ sysfd[e] = "closed" => fdmu[e].closed /\ fdmu[e].refs = 0
      BY DEF LifeInv, OpenInv
    <3>2. CASE e # f
      BY <1>10, <3>1, <3>2
    <3>3. CASE e = f
      <4>1. v.closed => sysfd'[f] # "none"
        <5>1. fpc[g] = "close" => sysfd[f] # "none"
          BY <1>9 DEF LifeInv, OpenInv, f
        <5> QED BY <1>1, <1>10, <3>1, <3>3, <5>1 DEF WordLife
      <4>2. CASE UNCHANGED <<sysfd, ctx>>
        BY <1>1, <1>4, <3>1, <3>3, <4>1, <4>2 DEF WordLife
      <4>3. CASE fpc[g] \in OpenPc /\ l = "idle" /\ sysfd' = [sysfd EXCEPT ![f] = "open"]
        BY <1>2, <1>4, <1>6, <3>3, <4>1, <4>3
      <4>4. CASE fpc[g] = "closefunc" /\ l = "csignal" /\ sysfd' = [sysfd EXCEPT ![f] = "closed"]
                 /\ ctx' = [ctx EXCEPT ![f] = Nobody]
        <5>1. fdmu[f].closed /\ fdmu[f].refs = 0
          BY <1>9, <4>4 DEF LifeInv, DestroyInv, f
        <5>2. ctx'[f] = Nobody /\ sysfd'[f] = "closed"
          BY <1>2, <4>4 DEF FDInv, FDTypeOK
        <5> QED BY <1>1, <1>4, <3>3, <4>1, <5>1, <5>2 DEF WordLife
      <4> QED BY <1>7, <4>2, <4>3, <4>4
    <3> QED BY <3>2, <3>3
  <2> QED BY <2>1, <2>2, <2>3, <2>4 DEF OpenInv
<1>12. DestroyInv'
  <2> SUFFICES ASSUME NEW h \in Goroutines, fpc'[h] \in DestroyPc
               PROVE  /\ fdmu'[file(h)'].closed /\ fdmu'[file(h)'].refs = 0
                      /\ fpc'[h] # "csignal" => sysfd'[file(h)'] = "open"
                      /\ \A k \in Goroutines : fpc'[k] \in DestroyPc /\ file(k)' = file(h)' => k = h
    BY DEF DestroyInv
  <2>1. \A k \in Goroutines : fpc'[k] \in DestroyPc =>
          /\ file(k)' = file(k) /\ file(k) \in Files
          /\ fpc[k] \in DestroyPc \/ (k = g /\ fpc[g] \in ReferencePc /\ v.closed /\ v.refs = 0)
    BY <1>1, <1>2, <1>3, <1>6, <1>9 DEF f
  <2>2. \A k \in Goroutines : fpc[k] \in DestroyPc =>
          /\ fdmu[file(k)].closed /\ fdmu[file(k)].refs = 0
          /\ fpc[k] # "csignal" => sysfd[file(k)] = "open"
          /\ \A i \in Goroutines : fpc[i] \in DestroyPc /\ file(i) = file(k) => i = k
    BY DEF LifeInv, DestroyInv
  <2>3. fdmu'[file(h)].closed /\ fdmu'[file(h)].refs = 0
    <3>1. CASE fpc[h] \in DestroyPc
      BY <1>1, <1>4, <2>1, <2>2, <3>1 DEF WordLife
    <3>2. CASE h = g /\ v.closed /\ v.refs = 0
      BY <1>4, <3>2 DEF f
    <3> QED BY <2>1, <3>1, <3>2
  <2>4. fpc'[h] # "csignal" => sysfd'[file(h)] = "open"
    <3> SUFFICES ASSUME fpc'[h] # "csignal"
                 PROVE  sysfd'[file(h)] = "open"
      OBVIOUS
    <3>1. sysfd[file(h)] = "open"
      <4>1. CASE fpc[h] \in DestroyPc
        <5>1. fpc[h] # "csignal"
          BY <1>3, <1>8, <4>1
        <5> QED BY <2>2, <4>1, <5>1
      <4>2. CASE h = g /\ fpc[g] \in ReferencePc
        <5>1. sysfd[f] # "none" /\ sysfd[f] # "closed"
          BY <1>2, <1>5, <1>9, <4>2 DEF LifeInv, OpenInv, f
        <5> QED BY <1>2, <1>6, <4>2, <5>1 DEF f
      <4> QED BY <2>1, <4>1, <4>2
    <3>2. CASE file(h) # f \/ (fpc[g] \notin OpenPc /\ fpc[g] # "closefunc")
      BY <1>10, <2>1, <3>1, <3>2
    <3>3. CASE file(h) = f /\ fpc[g] \in OpenPc
      BY <3>1, <3>3 DEF LifeInv, OpenInv, f
    <3>4. CASE file(h) = f /\ fpc[g] = "closefunc"
      <4>1. fpc[h] \in DestroyPc
        BY <1>3, <1>9, <2>1, <3>4 DEF ReferencePc, LockedPc
      <4>2. h = g
        BY <1>9, <2>2, <3>4, <4>1 DEF f
      <4>3. l # "csignal"
        BY <1>3, <4>2
      <4> QED BY <1>7, <1>9, <3>1, <3>4, <4>3
    <3> QED BY <3>2, <3>3, <3>4
  <2>5. ASSUME NEW k \in Goroutines, fpc'[k] \in DestroyPc, file(k)' = file(h)'
        PROVE  k = h
    <3>1. fpc[k] \in DestroyPc /\ fpc[h] \in DestroyPc => k = h
      BY <2>1, <2>2, <2>5
    <3>2. \A i \in Goroutines : fpc[g] \in ReferencePc /\ fpc[i] \in DestroyPc => file(i) # f
      BY <1>5, <2>2
    <3> QED BY <2>1, <2>5, <3>1, <3>2 DEF f
  <2> QED BY <2>1, <2>3, <2>4, <2>5
<1>13. CloserInv'
  <2>1. \A k \in Goroutines : Closer(k)' =>
          /\ file(k)' = file(k) /\ file(k) \in Files
          /\ Closer(k) \/ (k = g /\ ~fdmu[f].closed /\ v.closed)
    BY <1>1, <1>2, <1>3, <1>6, <1>8 DEF Closer, f
  <2>2. \A k \in Goroutines : Closer(k) =>
          /\ fdmu[file(k)].closed
          /\ \A i \in Goroutines : Closer(i) /\ file(i) = file(k) => i = k
    BY DEF LifeInv, CloserInv
  <2>3. ASSUME NEW h \in Goroutines, Closer(h)'
        PROVE  fdmu'[file(h)'].closed
    <3>1. CASE Closer(h)
      BY <1>1, <1>4, <2>1, <2>2, <2>3, <3>1 DEF WordLife
    <3>2. CASE h = g /\ v.closed
      BY <1>4, <2>1, <2>3, <3>2 DEF f
    <3> QED BY <2>1, <2>3, <3>1, <3>2
  <2>4. ASSUME NEW h \in Goroutines, Closer(h)', NEW k \in Goroutines, Closer(k)', file(k)' = file(h)'
        PROVE  k = h
    BY <2>1, <2>2, <2>4 DEF f
  <2> QED BY <2>3, <2>4 DEF CloserInv
<1> QED BY <1>11, <1>12, <1>13 DEF LifeInv

-----------------------------------------------------------------------------

LEMMA WordTypes ==
  ASSUME NEW w \in WordType, NEW m \in Modes
  PROVE  /\ incref(w) \in WordType /\ increfAndClose(w) \in WordType
         /\ rwlock(w, m) \in WordType /\ rwwait(w, m) \in WordType
         /\ w.refs > 0 => decref(w) \in WordType /\ rwunlock(w, m) \in WordType
<1>1. w.closed \in BOOLEAN /\ w.locked \in SUBSET Modes /\ w.refs \in Nat /\ w.waits \in [Modes -> Nat]
  BY DEF WordType
<1>2. incref(w) \in WordType
  <2>1. incref(w) = [closed |-> w.closed, locked |-> w.locked, refs |-> w.refs + 1, waits |-> w.waits]
    BY WordOps
  <2> QED BY <1>1, <2>1 DEF WordType
<1>3. increfAndClose(w) \in WordType
  <2>1. PICK ws \in [Modes -> Nat] : ws = [i \in Modes |-> 0]
    OBVIOUS
  <2>2. increfAndClose(w) = [closed |-> TRUE, locked |-> w.locked, refs |-> w.refs + 1, waits |-> ws]
    BY <2>1, WordOps
  <2> QED BY <1>1, <2>2 DEF WordType
<1>4. rwlock(w, m) \in WordType
  <2>1. rwlock(w, m) =
          [closed |-> w.closed, locked |-> w.locked \cup {m}, refs |-> w.refs + 1, waits |-> w.waits]
    BY WordOps
  <2> QED BY <1>1, <2>1 DEF WordType
<1>5. rwwait(w, m) \in WordType
  <2>1. PICK ws : ws = [w.waits EXCEPT ![m] = @ + 1]
    OBVIOUS
  <2>2. ws \in [Modes -> Nat]
    <3>1. w.waits[m] + 1 \in Nat
      BY <1>1
    <3> QED BY <1>1, <2>1, <3>1
  <2>3. rwwait(w, m) = [closed |-> w.closed, locked |-> w.locked, refs |-> w.refs, waits |-> ws]
    BY <2>1, WordOps
  <2> QED BY <1>1, <2>2, <2>3 DEF WordType
<1>6. ASSUME w.refs > 0
      PROVE  decref(w) \in WordType /\ rwunlock(w, m) \in WordType
  <2>1. w.refs - 1 \in Nat
    BY <1>1, <1>6
  <2>2. decref(w) = [closed |-> w.closed, locked |-> w.locked, refs |-> w.refs - 1, waits |-> w.waits]
    BY WordOps
  <2>3. PICK ws : ws = [w.waits EXCEPT ![m] = IF @ > 0 THEN @ - 1 ELSE 0]
    OBVIOUS
  <2>4. ws \in [Modes -> Nat]
    <3>1. PICK k \in Nat : k = IF w.waits[m] > 0 THEN w.waits[m] - 1 ELSE 0
      BY <1>1
    <3> QED BY <1>1, <2>3, <3>1
  <2>5. rwunlock(w, m) =
          [closed |-> w.closed, locked |-> w.locked \ {m}, refs |-> w.refs - 1, waits |-> ws]
    BY <2>3, WordOps
  <2> QED BY <1>1, <2>1, <2>2, <2>4, <2>5 DEF WordType
<1> QED BY <1>2, <1>3, <1>4, <1>5, <1>6

\* A step of a file that leaves the word alone, and neither opens nor destroys.
LEMMA QuietLife ==
  ASSUME FDInv, NEW g \in Goroutines, fpc[g] # "idle", NEW l \in FPc, Goes(g, l), fdmu' = fdmu,
         UNCHANGED <<sysfd, ctx>>,
         l \in OpenPc => fpc[g] \in OpenPc, l \notin OpenPc \cup {"idle"} => fpc[g] \notin OpenPc,
         l \in DestroyPc => fpc[g] \in DestroyPc, fpc[g] = "csignal" => l \notin DestroyPc,
         l # "csignal", l = "release" => fpc[g] = "release",
         l = "decref" /\ op[g].kind = "close" => fpc[g] = "release"
  PROVE  \E k \in FPc : LifeStep(g, k)
<1>1. file(g) \in Files
  BY CallFacts
<1>2. fdmu[file(g)] \in WordType /\ fdmu' = [fdmu EXCEPT ![file(g)] = fdmu[file(g)]]
  BY <1>1 DEF FDInv, FDTypeOK
<1>3. WordLife(g, fdmu[file(g)], fdmu[file(g)])
  BY DEF WordLife
<1> QED BY <1>2, <1>3 DEF LifeStep

\* A step that changes the word.
LEMMA WordStepLife ==
  ASSUME FDInv, NEW g \in Goroutines, fpc[g] # "idle", NEW l \in FPc, Goes(g, l), UNCHANGED <<sysfd, ctx>>,
         NEW v \in WordType, fdmu' = [fdmu EXCEPT ![file(g)] = v], WordLife(g, fdmu[file(g)], v),
         l \in DestroyPc => fpc[g] \in ReferencePc /\ v.closed /\ v.refs = 0,
         l = "release" => fpc[g] = "close" /\ ~fdmu[file(g)].closed /\ v.closed,
         l \notin OpenPc, fpc[g] \notin OpenPc, fpc[g] # "csignal", l # "csignal",
         l = "decref" => op[g].kind # "close"
  PROVE  \E k \in FPc : LifeStep(g, k)
<1>1. LifeStep(g, l)
  BY DEF LifeStep
<1> QED BY <1>1

LEMMA LifeSteps ==
  ASSUME FDInv, PollTypeOK, NEW g \in Goroutines, FDStep(g)
  PROVE  fpc[g] # "idle" /\ \E l \in FPc : LifeStep(g, l)
<1> USE DEF FPc, OpenPc, IOPc, DestroyPc, LockedPc, SignalPc, ReferencePc, fileVars
<1>1. fpc[g] # "idle"
  BY DEF FDStep, Open, Opened, OpenFails, OpenUnpoll, OpenedBlocking, RwLock, RwLockWake, Prepare,
         Prepared, Syscall, RwUnlock, RwSignal, Incref, Decref, IncrefAndClose, CloseRelease,
         CloseEvict, CloseWait, CloseReturn, Destroy, CloseFunc, CloseSignal
<1>2. PICK f \in Files, n \in Modes :
        /\ f = file(g) /\ n = ioMode(g) /\ fdmu[f] = word(g)
        /\ fdmu[f] \in WordType /\ fdmu[f].closed \in BOOLEAN /\ fdmu[f].refs \in Nat
        /\ fdmu[f].waits \in [Modes -> Nat]
        /\ fpc[g] \in ReferencePc => fdmu[f].refs > 0
        /\ fpc[g] \in LockedPc => n \in fdmu[f].locked
        /\ fpc[g] \notin ReferencePc => ~Wraps(fdmu[f].refs)
        /\ fpc[g] # "rwsleep" => ~Wraps(fdmu[f].waits[n])
  BY <1>1, Here
<1>3. Fits(fpc[g], op[g])
  BY DEF FDInv, KindInv
<1>4. /\ incref(fdmu[f]) \in WordType /\ increfAndClose(fdmu[f]) \in WordType
      /\ rwlock(fdmu[f], n) \in WordType /\ rwwait(fdmu[f], n) \in WordType
      /\ fdmu[f].refs > 0 => decref(fdmu[f]) \in WordType /\ rwunlock(fdmu[f], n) \in WordType
  BY <1>2, WordTypes
<1>5. /\ incref(fdmu[f]).closed = fdmu[f].closed /\ incref(fdmu[f]).refs = fdmu[f].refs + 1
      /\ increfAndClose(fdmu[f]).closed = TRUE /\ increfAndClose(fdmu[f]).refs = fdmu[f].refs + 1
      /\ rwlock(fdmu[f], n).closed = fdmu[f].closed /\ rwlock(fdmu[f], n).refs = fdmu[f].refs + 1
      /\ rwwait(fdmu[f], n).closed = fdmu[f].closed /\ rwwait(fdmu[f], n).refs = fdmu[f].refs
      /\ decref(fdmu[f]).closed = fdmu[f].closed /\ decref(fdmu[f]).refs = fdmu[f].refs - 1
      /\ rwunlock(fdmu[f], n).closed = fdmu[f].closed /\ rwunlock(fdmu[f], n).refs = fdmu[f].refs - 1
  <2>1. PICK w \in WordType : w = fdmu[f]
    BY <1>2
  <2>2. n \in Modes
    BY <1>2
  <2> QED BY <2>1, <2>2, WordFields
<1>6. CASE Open(g)
  BY <1>1, <1>6, GoesFact, QuietLife DEF Open
<1>7. CASE Opened(g) \/ OpenedBlocking(g)
  <2>1. Goes(g, "idle") /\ fpc[g] \in OpenPc /\ sysfd' = [sysfd EXCEPT ![f] = "open"]
    BY <1>2, <1>7, GoesFact DEF Opened, OpenedBlocking
  <2>2. \A e \in Files \ {f} : ctx'[e] = ctx[e]
    BY <1>2, <1>7 DEF Opened, OpenedBlocking, FDInv, FDTypeOK
  <2>3. fdmu' = [fdmu EXCEPT ![f] = fdmu[f]] /\ WordLife(g, fdmu[f], fdmu[f])
    BY <1>2, <1>7 DEF Opened, OpenedBlocking, FDInv, FDTypeOK, WordLife
  <2>4. LifeStep(g, "idle")
    BY <1>2, <2>1, <2>2, <2>3 DEF LifeStep
  <2> QED BY <1>1, <2>4
<1>8. CASE OpenFails(g) \/ OpenUnpoll(g)
  BY <1>1, <1>8, GoesFact, QuietLife DEF OpenFails, OpenUnpoll
<1>9. CASE RwLock(g)
  <2>1. fpc[g] = "rwlock" /\ UNCHANGED <<sysfd, ctx>>
    BY <1>9 DEF RwLock
  <2>2. CASE Done(g) /\ fdmu' = fdmu
    BY <1>1, <2>1, <2>2, GoesFact, QuietLife
  <2>3. CASE ~fdmu[f].closed /\ FGoto(g, "prepare") /\ fdmu' = [fdmu EXCEPT ![f] = rwlock(fdmu[f], n)]
    <3>1. WordLife(g, fdmu[f], rwlock(fdmu[f], n))
      BY <1>2, <1>5, <2>3 DEF WordLife
    <3> QED BY <1>1, <1>2, <1>4, <2>1, <2>3, <3>1, GoesFact, WordStepLife
  <2>4. CASE ~fdmu[f].closed /\ FGoto(g, "rwsleep") /\ fdmu' = [fdmu EXCEPT ![f] = rwwait(fdmu[f], n)]
    <3>1. WordLife(g, fdmu[f], rwwait(fdmu[f], n))
      BY <1>2, <1>5, <2>4 DEF WordLife
    <3> QED BY <1>1, <1>2, <1>4, <2>1, <2>4, <3>1, GoesFact, WordStepLife
  <2> QED BY <1>2, <1>9, <2>1, <2>2, <2>3, <2>4 DEF RwLock, SetWord
<1>10. CASE RwLockWake(g) \/ Prepare(g) \/ Prepared(g)
  <2>1. \E l \in {"rwlock", "prepared", "syscall", "rwunlock"} : Goes(g, l)
    BY <1>10, GoesFact DEF RwLockWake, Prepare, Prepared
  <2>2. fpc[g] \in {"rwsleep", "prepare", "prepared"} /\ fdmu' = fdmu /\ UNCHANGED <<sysfd, ctx>>
    BY <1>10 DEF RwLockWake, Prepare, Prepared
  <2> QED BY <1>1, <2>1, <2>2, QuietLife
<1>11. CASE Syscall(g)
  <2>1. \E l \in {"prepared", "syscall", "rwunlock"} : Goes(g, l)
    BY <1>11, GoesFact DEF Syscall
  <2>2. fpc[g] = "syscall" /\ fdmu' = fdmu /\ UNCHANGED <<sysfd, ctx>>
    BY <1>11 DEF Syscall
  <2> QED BY <1>1, <2>1, <2>2, QuietLife
<1>12. CASE RwUnlock(g)
  <2>1. fpc[g] = "rwunlock" /\ UNCHANGED <<sysfd, ctx>> /\ fdmu' = [fdmu EXCEPT ![f] = rwunlock(fdmu[f], n)]
    BY <1>2, <1>12 DEF RwUnlock, SetWord
  <2>2. PICK v \in WordType : v = rwunlock(fdmu[f], n)
    BY <1>2, <1>4, <2>1
  <2>3. WordLife(g, fdmu[f], v)
    BY <1>2, <1>5, <2>1, <2>2 DEF WordLife
  <2>4. PICK l \in {"signal-destroy", "signal", "destroy", "csema", "idle"} :
          Goes(g, l) /\ (l \in {"signal-destroy", "destroy"} => lastReference(v))
    BY <1>2, <1>12, <2>1, <2>2, GoesFact DEF RwUnlock, AfterUse
  <2>5. l \in DestroyPc => v.closed /\ v.refs = 0
    BY <2>4 DEF lastReference
  <2> QED BY <1>1, <1>2, <2>1, <2>2, <2>3, <2>4, <2>5, WordStepLife
<1>13. CASE RwSignal(g)
  <2>1. PICK l \in {"idle", "destroy"} : Goes(g, l) /\ (l = "destroy" => fpc[g] = "signal-destroy")
    BY <1>13, GoesFact DEF RwSignal
  <2>2. fpc[g] \in SignalPc /\ fdmu' = fdmu /\ UNCHANGED <<sysfd, ctx>>
    BY <1>13 DEF RwSignal
  <2> QED BY <1>1, <2>1, <2>2, QuietLife
<1>14. CASE Incref(g)
  <2>1. fpc[g] = "incref" /\ UNCHANGED <<sysfd, ctx>> /\ op[g].kind # "close"
    BY <1>3, <1>14 DEF Incref, Fits
  <2>2. CASE Done(g) /\ fdmu' = fdmu
    BY <1>1, <2>1, <2>2, GoesFact, QuietLife
  <2>3. CASE ~fdmu[f].closed /\ FGoto(g, "decref") /\ fdmu' = [fdmu EXCEPT ![f] = incref(fdmu[f])]
    <3>1. WordLife(g, fdmu[f], incref(fdmu[f]))
      BY <1>2, <1>5, <2>3 DEF WordLife
    <3> QED BY <1>1, <1>2, <1>4, <2>1, <2>3, <3>1, GoesFact, WordStepLife
  <2> QED BY <1>2, <1>14, <2>1, <2>2, <2>3 DEF Incref, SetWord
<1>15. CASE Decref(g)
  <2>1. fpc[g] = "decref" /\ UNCHANGED <<sysfd, ctx>> /\ fdmu' = [fdmu EXCEPT ![f] = decref(fdmu[f])]
    BY <1>2, <1>15 DEF Decref, SetWord
  <2>2. PICK v \in WordType : v = decref(fdmu[f])
    BY <1>2, <1>4, <2>1
  <2>3. WordLife(g, fdmu[f], v)
    BY <1>2, <1>5, <2>1, <2>2 DEF WordLife
  <2>4. PICK l \in {"destroy", "csema", "idle"} : Goes(g, l) /\ (l = "destroy" => lastReference(v))
    BY <1>2, <1>15, <2>1, <2>2, GoesFact DEF Decref, AfterUse
  <2>5. l \in DestroyPc => v.closed /\ v.refs = 0
    BY <2>4 DEF lastReference
  <2> QED BY <1>1, <1>2, <2>1, <2>2, <2>3, <2>4, <2>5, WordStepLife
<1>16. CASE IncrefAndClose(g)
  <2>1. fpc[g] = "close" /\ UNCHANGED <<sysfd, ctx>>
    BY <1>16 DEF IncrefAndClose
  <2>2. CASE Done(g) /\ fdmu' = fdmu
    BY <1>1, <2>1, <2>2, GoesFact, QuietLife
  <2>3. CASE ~fdmu[f].closed /\ FGoto(g, "release") /\ fdmu' = [fdmu EXCEPT ![f] = increfAndClose(fdmu[f])]
    <3>1. WordLife(g, fdmu[f], increfAndClose(fdmu[f])) /\ increfAndClose(fdmu[f]).closed
      BY <1>2, <1>5, <2>1, <2>3 DEF WordLife
    <3> QED BY <1>1, <1>2, <1>4, <2>1, <2>3, <3>1, GoesFact, WordStepLife
  <2> QED BY <1>2, <1>16, <2>1, <2>2, <2>3 DEF IncrefAndClose, SetWord
<1>17. CASE CloseRelease(g)
  <2>1. fpc[g] = "release" /\ Goes(g, "release") /\ fdmu' = fdmu /\ UNCHANGED <<sysfd, ctx>>
    BY <1>17 DEF CloseRelease, Goes, FDInv, FDTypeOK
  <2> QED BY <1>1, <2>1, QuietLife
<1>18. CASE CloseEvict(g)
  BY <1>1, <1>18, GoesFact, QuietLife DEF CloseEvict
<1>19. CASE CloseWait(g) \/ CloseReturn(g)
  BY <1>1, <1>19, GoesFact, QuietLife DEF CloseWait, CloseReturn
<1>20. CASE Destroy(g)
  BY <1>1, <1>20, GoesFact, QuietLife DEF Destroy
<1>21. CASE CloseFunc(g)
  <2>1. /\ Goes(g, "csignal") /\ fpc[g] = "closefunc"
        /\ sysfd' = [sysfd EXCEPT ![f] = "closed"] /\ ctx' = [ctx EXCEPT ![f] = Nobody]
    BY <1>2, <1>21, GoesFact DEF CloseFunc
  <2>2. fdmu' = [fdmu EXCEPT ![f] = fdmu[f]] /\ WordLife(g, fdmu[f], fdmu[f])
    BY <1>2, <1>21 DEF CloseFunc, FDInv, FDTypeOK, WordLife
  <2>3. LifeStep(g, "csignal")
    BY <1>2, <2>1, <2>2 DEF LifeStep
  <2> QED BY <1>1, <2>3
<1>22. CASE CloseSignal(g)
  <2>1. PICK l \in {"idle", "csema"} : Goes(g, l)
    BY <1>22, GoesFact DEF CloseSignal
  <2>2. fpc[g] = "csignal" /\ fdmu' = fdmu /\ UNCHANGED <<sysfd, ctx>>
    BY <1>22 DEF CloseSignal
  <2> QED BY <1>1, <2>1, <2>2, QuietLife
<1> QED BY <1>6, <1>7, <1>8, <1>9, <1>10, <1>11, <1>12, <1>13, <1>14, <1>15, <1>16, <1>17, <1>18,
        <1>19, <1>20, <1>21, <1>22 DEF FDStep

LEMMA LifeStays ==
  ASSUME LifeInv, UNCHANGED <<fdmu, sysfd, ctx, fpc, op>>, program'.calls = program.calls
  PROVE  LifeInv'
BY DEF LifeInv, OpenInv, DestroyInv, CloserInv, Closer, OpenedOnce, file

LEMMA LifeCallNext ==
  ASSUME FDInv, LifeInv, NEW g \in Goroutines, CallNext(g)
  PROVE  LifeInv'
<1>1. PICK o \in Op :
           /\ o = Head(program.calls[g]) /\ fpc[g] = "idle"
           /\ o.kind = "open" <=> sysfd[o.file] = "none"
           /\ fpc' = [fpc EXCEPT ![g] = FirstPc[o.kind]] /\ op' = [op EXCEPT ![g] = o]
           /\ program' = [program EXCEPT !.calls[g] = Tail(program.calls[g])]
  BY CallNextFact
<1>2. UNCHANGED <<fdmu, sysfd, ctx>>
  BY DEF CallNext, Invoke, fileVars
<1>3. PICK l \in {"open", "rwlock", "incref", "close"} :
        l = FirstPc[o.kind] /\ (l \in OpenPc <=> o.kind = "open") /\ l \notin DestroyPc
  <2>1. o.kind \in {"open", "io", "setdeadline", "misc", "close"}
    BY DEF Op
  <2> QED BY <2>1 DEF FirstPc, OpenPc, DestroyPc
<1>4. /\ fpc'[g] = l /\ file(g)' = o.file
      /\ \A h \in Goroutines \ {g} : fpc'[h] = fpc[h] /\ op'[h] = op[h] /\ file(h)' = file(h)
  BY <1>1, <1>3 DEF FDInv, FDTypeOK, file
<1>5. program.calls \in [Goroutines -> Seq(Op)] /\ program.calls[g] # <<>>
  BY DEF CallNext, FDInv, FDTypeOK
<1>6. /\ program'.calls = [program.calls EXCEPT ![g] = Tail(program.calls[g])]
      /\ program.calls[g] \in Seq(Op) /\ 1 \in DOMAIN program.calls[g] /\ o = program.calls[g][1]
  BY <1>1, <1>5 DEF FDInv, FDTypeOK
\* What is left of a program was in it before, one place further on.
<1>7. \A h \in Goroutines : \A i \in DOMAIN program'.calls[h] :
        \E j \in DOMAIN program.calls[h] :
          /\ program'.calls[h][i] = program.calls[h][j]
          /\ j = IF h = g THEN i + 1 ELSE i
  <2> SUFFICES ASSUME NEW h \in Goroutines, NEW i \in DOMAIN program'.calls[h]
               PROVE  \E j \in DOMAIN program.calls[h] :
                        /\ program'.calls[h][i] = program.calls[h][j]
                        /\ j = IF h = g THEN i + 1 ELSE i
    OBVIOUS
  <2>1. CASE h = g
    <3>1. program'.calls[g] = Tail(program.calls[g])
      BY <1>5, <1>6
    <3>2. /\ i \in Nat /\ i + 1 \in DOMAIN program.calls[g]
          /\ Tail(program.calls[g])[i] = program.calls[g][i + 1]
      BY <1>5, <1>6, <2>1, <3>1
    <3> QED BY <2>1, <3>1, <3>2
  <2>2. CASE h # g
    BY <1>5, <1>6, <2>2
  <2> QED BY <2>1, <2>2
<1>8. OpenedOnce(program.calls)
  BY DEF LifeInv, OpenInv
<1>9. OpenedOnce(program'.calls)
  <2> SUFFICES ASSUME NEW f \in Files, NEW h \in Goroutines, NEW k \in Goroutines,
                      NEW i \in DOMAIN program'.calls[h], NEW j \in DOMAIN program'.calls[k],
                      Opens(program'.calls[h][i], f), Opens(program'.calls[k][j], f)
               PROVE  h = k /\ i = j
    BY DEF OpenedOnce
  <2>1. PICK a \in DOMAIN program.calls[h] :
          program'.calls[h][i] = program.calls[h][a] /\ a = IF h = g THEN i + 1 ELSE i
    BY <1>7
  <2>2. PICK b \in DOMAIN program.calls[k] :
          program'.calls[k][j] = program.calls[k][b] /\ b = IF k = g THEN j + 1 ELSE j
    BY <1>7
  <2>3. Opens(program.calls[h][a], f) /\ Opens(program.calls[k][b], f)
    BY <2>1, <2>2
  <2>4. h = k /\ a = b
    BY <1>8, <2>3 DEF OpenedOnce
  <2>5. i \in Int /\ j \in Int
    <3>1. program'.calls[h] \in Seq(Op) /\ program'.calls[k] \in Seq(Op)
      BY CallNextFact
    <3> QED BY <3>1
  <2> QED BY <2>1, <2>2, <2>4, <2>5
<1>10. OpenInv'
  <2>1. OpenedOnce(program.calls)'
    BY <1>9 DEF OpenedOnce
  <2>2. ASSUME NEW h \in Goroutines, fpc'[h] \in OpenPc
        PROVE  /\ sysfd'[file(h)'] = "none"
               /\ \A k \in Goroutines : fpc'[k] \in OpenPc /\ file(k)' = file(h)' => k = h
               /\ \A k \in Goroutines : \A i \in DOMAIN program'.calls[k] :
                    ~Opens(program'.calls[k][i], file(h)')
    <3>1. CASE h # g
      <4>1. fpc[h] \in OpenPc /\ file(h)' = file(h)
        BY <1>4, <2>2, <3>1
      <4>2. /\ sysfd[file(h)] = "none"
            /\ \A k \in Goroutines : fpc[k] \in OpenPc /\ file(k) = file(h) => k = h
            /\ \A k \in Goroutines : \A i \in DOMAIN program.calls[k] :
                    ~Opens(program.calls[k][i], file(h))
        BY <4>1 DEF LifeInv, OpenInv
      <4>3. \A k \in Goroutines : \A i \in DOMAIN program'.calls[k] :
                    ~Opens(program'.calls[k][i], file(h))
        BY <1>7, <4>2
      <4>4. ASSUME fpc'[g] \in OpenPc, file(g)' = file(h)
            PROVE  FALSE
        <5>1. Opens(program.calls[g][1], file(h))
          BY <1>3, <1>4, <1>6, <4>4 DEF Opens
        <5> QED BY <1>6, <4>2, <5>1
      <4> QED BY <1>2, <1>4, <4>1, <4>2, <4>3, <4>4
    <3>2. CASE h = g
      <4>1. o.kind = "open" /\ sysfd[o.file] = "none" /\ o.file \in Files
        BY <1>1, <1>3, <1>4, <2>2, <3>2 DEF Op
      <4>2. Opens(program.calls[g][1], o.file)
        BY <1>6, <4>1 DEF Opens
      <4>3. ASSUME NEW k \in Goroutines, k # g, fpc[k] \in OpenPc, file(k) = o.file
            PROVE  FALSE
        BY <1>6, <4>2, <4>3 DEF LifeInv, OpenInv
      <4>4. ASSUME NEW k \in Goroutines, NEW i \in DOMAIN program'.calls[k],
                   Opens(program'.calls[k][i], o.file)
            PROVE  FALSE
        <5>1. PICK j \in DOMAIN program.calls[k] :
                program'.calls[k][i] = program.calls[k][j] /\ j = IF k = g THEN i + 1 ELSE i
          BY <1>7, <4>4
        <5>2. k = g /\ j = 1
          BY <1>6, <1>8, <4>1, <4>2, <4>4, <5>1 DEF OpenedOnce
        <5>3. i \in Nat /\ i # 0
          <6>1. program'.calls[k] \in Seq(Op)
            BY CallNextFact
          <6> QED BY <4>4, <6>1
        <5> QED BY <5>1, <5>2, <5>3
      <4> QED BY <1>2, <1>4, <3>2, <4>1, <4>3, <4>4
    <3> QED BY <3>1, <3>2
  <2>3. ASSUME NEW h \in Goroutines, fpc'[h] \notin OpenPc \cup {"idle"}
        PROVE  sysfd'[file(h)'] # "none"
    BY <1>1, <1>2, <1>3, <1>4, <2>3 DEF LifeInv, OpenInv
  <2>4. ASSUME NEW e \in Files
        PROVE  /\ fdmu'[e].closed => sysfd'[e] # "none"
               /\ ctx'[e] # Nobody => sysfd'[e] = "open"
               /\ sysfd'[e] = "closed" => fdmu'[e].closed /\ fdmu'[e].refs = 0
    BY <1>2 DEF LifeInv, OpenInv
  <2> QED BY <2>1, <2>2, <2>3, <2>4 DEF OpenInv
<1>11. DestroyInv'
  <2>1. \A h \in Goroutines : fpc'[h] \in DestroyPc => h # g
    BY <1>3, <1>4
  <2> QED BY <1>2, <1>4, <2>1 DEF LifeInv, DestroyInv
<1>12. CloserInv'
  <2>1. ~Closer(g)'
    BY <1>3, <1>4 DEF Closer
  <2>2. \A h \in Goroutines : Closer(h)' => h # g /\ Closer(h)
    BY <1>4, <2>1 DEF Closer
  <2> QED BY <1>2, <1>4, <2>2 DEF LifeInv, CloserInv
<1> QED BY <1>10, <1>11, <1>12 DEF LifeInv

-----------------------------------------------------------------------------
(* The calls in the poller.                                                *)

\* Where goroutines wait for a mode, and where a file is in a call of the poller.
WaitPc == {"reset", "reset2", "wait", "block", "recheck", "commit", "parked", "resume"}
PollingPc == {"opening", "unpoll", "unpolled", "closefunc", "prepared", "decref"}

InPoll(g) ==
  \/ fpc[g] = "opening" /\ npc[g] \in {"open", "register"}
  \/ fpc[g] = "unpoll" /\ npc[g] \in {"evict", "evict2", "ready"}
  \/ fpc[g] \in {"unpolled", "closefunc"} /\ npc[g] \in {"close", "free"}
  \/ fpc[g] = "prepared" /\ npc[g] \in WaitPc /\ todo[g] = {ioMode(g)}
  \/ fpc[g] = "decref" /\ op[g].kind = "close" /\ npc[g] \in {"evict", "evict2", "ready"}
  \/ fpc[g] = "decref" /\ op[g].kind = "setdeadline" /\ npc[g] \in {"setdeadline", "unblock", "ready"}

\* A call of the poller is one that the file makes, and works on the file's descriptor.
CallInv ==
  /\ \A g \in Goroutines : npc[g] # "idle" =>
       /\ InPoll(g) \/ (npc[g] = "throw" /\ fpc[g] \in PollingPc)
       /\ fpc[g] \notin OpenPc => Pollable(file(g)) /\ npd[g] = ctx[file(g)]
  /\ \A t \in TimerProcs : npc[t] \in {"idle", "deadline", "expire", "unblock", "ready", "throw"}
  /\ \A n \in Pollers : npc[n] \in {"idle", "events", "ready"}

\* The descriptor p is the file's, until it is freed; or belongs to the goroutine
\* that is opening a file.
Keeps(f) == \A g \in Goroutines : fpc[g] = "closefunc" /\ file(g) = f => npc[g] # "idle"
FileHas(f, p) == ctx[f] = p /\ Keeps(f)
OpenerHas(g, p) ==
  /\ npd[g] = p
  /\ fpc[g] \in {"opening", "unpoll"} \/ (fpc[g] = "unpolled" /\ npc[g] # "idle")

\* A descriptor has one owner.
OwnInv ==
  \A p \in PollDescs :
    /\ \A f \in Files : FileHas(f, p) =>
         /\ p \notin freeDescs /\ pdFile[p] = f
         /\ \A g \in Goroutines : ~OpenerHas(g, p)
    /\ \A g \in Goroutines : OpenerHas(g, p) =>
         /\ p \notin freeDescs
         /\ npc[g] \notin {"open", "throw"} => pdFile[p] = file(g)
         /\ \A h \in Goroutines : OpenerHas(h, p) => h = g

\* What the kernel reports are edges of descriptors.
Edges == [pd : PollDescs, mode : Modes, file : Files]
EdgeInv == epoll \subseteq Edges /\ \A n \in Pollers : events[n] \subseteq Edges

\* A goroutine that a descriptor names is parked there; who has been taken out of
\* one is parked until it is readied, once.
SleepInv ==
  /\ \A p \in PollDescs, m \in Modes, g \in Goroutines : sem[p][m] = g =>
       npc[g] = "parked" /\ npd[g] = p /\ mode(g) = m
  /\ \A a \in Actors, g \in Goroutines : g \in woken[a] =>
       /\ npc[g] = "parked" /\ \A p \in PollDescs, m \in Modes : sem[p][m] # g
       /\ \A b \in Actors : g \in woken[b] => b = a

\* All of it.
DescInv == FDInv /\ PollTypeOK /\ LifeInv /\ CallInv /\ OwnInv /\ EdgeInv /\ SleepInv

-----------------------------------------------------------------------------
(* Steps in the poller: an actor goes on to its next label.                *)

Trans(k, l) ==
  \/ k = "reset" /\ l \in {"reset2", "idle"}
  \/ k = "reset2" /\ l = "idle"
  \/ k = "wait" /\ l \in {"block", "idle"}
  \/ k = "block" /\ l \in {"idle", "recheck", "throw"}
  \/ k = "recheck" /\ l \in {"commit", "resume"}
  \/ k = "commit" /\ l \in {"parked", "resume"}
  \/ k = "resume" /\ l \in {"idle", "wait", "throw"}
  \/ k = "unblock" /\ l \in {"unblock", "expire", "ready"}
  \/ k = "evict2" /\ l \in {"evict2", "ready"}
  \/ k = "setdeadline" /\ l \in {"idle", "unblock"}
  \/ k = "evict" /\ l \in {"throw", "evict2"}
  \/ k = "deadline" /\ l \in {"idle", "expire"}
  \/ k = "expire" /\ l \in {"throw", "unblock"}
  \/ k = "open" /\ l \in {"throw", "register"}
  \/ k = "register" /\ l = "idle"
  \/ k = "close" /\ l \in {"throw", "free"}
  \/ k = "free" /\ l = "idle"
  \/ k = "idle" /\ l = "events"
  \/ k = "events" /\ l \in {"events", "ready"}

Hop(a, l) ==
  /\ Trans(npc[a], l)
  /\ npc' = [npc EXCEPT ![a] = l] /\ npd' = npd
  /\ \A b \in Actors \ {a} : todo'[b] = todo[b]
  /\ l \in WaitPc => todo' = todo
  /\ l = "expire" => a \in TimerProcs
  /\ l = "events" => a \in Pollers

LEMMA ReturnHops ==
  ASSUME PollTypeOK, NEW g \in Actors
  PROVE  /\ \A r : PollReturn(g, r) /\ Trans(npc[g], "idle") => Hop(g, "idle")
         /\ \A l : NGoto(g, l) /\ Trans(npc[g], l) /\ l \notin {"expire", "events"} => Hop(g, l)
<1>1. todo \in [Actors -> SUBSET Modes]
  BY DEF PollTypeOK, ControlOK
<1> QED BY <1>1 DEF Hop, PollReturn, NGoto, WaitPc

\* Each step of the poller but the readying of goroutines is one.
LEMMA WaitHops ==
  ASSUME PollTypeOK, NEW g \in Goroutines,
         PollReset(g) \/ PollResetStore(g) \/ PollWait(g) \/ NetpollBlock(g) \/ NetpollRecheck(g)
           \/ NetpollBlockCommit(g) \/ NetpollResume(g)
  PROVE  \E l : Hop(g, l) /\ npc[g] \in WaitPc /\ npc[g] # "parked"
<1>1. g \in Actors
  BY DEF Actors
<1>2. CASE PollReset(g)
  BY <1>1, <1>2, ReturnHops DEF PollReset, Trans, WaitPc
<1>3. CASE PollResetStore(g)
  BY <1>1, <1>3, ReturnHops DEF PollResetStore, Trans, WaitPc
<1>4. CASE PollWait(g)
  BY <1>1, <1>4, ReturnHops DEF PollWait, Trans, WaitPc
<1>5. CASE NetpollBlock(g)
  BY <1>1, <1>5, ReturnHops DEF NetpollBlock, Trans, WaitPc
<1>6. CASE NetpollRecheck(g)
  BY <1>1, <1>6, ReturnHops DEF NetpollRecheck, Trans, WaitPc
<1>7. CASE NetpollBlockCommit(g)
  BY <1>1, <1>7, ReturnHops DEF NetpollBlockCommit, Trans, WaitPc
<1>8. CASE NetpollResume(g)
  BY <1>1, <1>8, ReturnHops DEF NetpollResume, Trans, WaitPc
<1> QED BY <1>2, <1>3, <1>4, <1>5, <1>6, <1>7, <1>8

LEMMA LifeHops ==
  ASSUME PollTypeOK, NEW g \in Goroutines,
         (\E f : PollOpenReset(g, f)) \/ PollSetDeadline(g) \/ PollUnblock(g) \/ PollOpenRegister(g)
           \/ PollClose(g) \/ PollFree(g)
  PROVE  \E l : Hop(g, l) /\ npc[g] \notin WaitPc
<1>1. g \in Actors
  BY DEF Actors
<1>2. CASE \E f : PollOpenReset(g, f)
  BY <1>1, <1>2, ReturnHops DEF PollOpenReset, Trans, WaitPc
<1>3. CASE PollSetDeadline(g)
  <2>1. npc[g] = "setdeadline" /\ todo \in [Actors -> SUBSET Modes]
    BY <1>3 DEF PollSetDeadline, PollTypeOK, ControlOK
  <2>2. PollReturn(g, "ok") \/ Hop(g, "unblock")
    BY <1>1, <1>3, <2>1 DEF PollSetDeadline, Hop, Trans, WaitPc
  <2> QED BY <1>1, <2>1, <2>2, ReturnHops DEF Trans, WaitPc
<1>4. CASE PollUnblock(g)
  BY <1>1, <1>4, ReturnHops DEF PollUnblock, Trans, WaitPc
<1>5. CASE PollOpenRegister(g)
  BY <1>1, <1>5, ReturnHops DEF PollOpenRegister, Trans, WaitPc
<1>6. CASE PollClose(g)
  BY <1>1, <1>6, ReturnHops DEF PollClose, Trans, WaitPc
<1>7. CASE PollFree(g)
  BY <1>1, <1>7, ReturnHops DEF PollFree, Trans, WaitPc
<1> QED BY <1>2, <1>3, <1>4, <1>5, <1>6, <1>7

LEMMA UnblockHops ==
  ASSUME PollTypeOK, NEW a \in Actors, Unblock(a), a \in TimerProcs => npc[a] # "evict2"
  PROVE  \E l : Hop(a, l) /\ npc[a] \in {"unblock", "evict2"} /\ l \in {"unblock", "evict2", "expire", "ready"}
<1>1. todo \in [Actors -> SUBSET Modes] /\ DOMAIN npc = Actors
  BY DEF PollTypeOK, ControlOK
<1>2. npc[a] \in {"unblock", "evict2"} /\ npd' = npd /\ \A b \in Actors \ {a} : todo'[b] = todo[b]
  BY <1>1 DEF Unblock
<1>3. PICK l : /\ npc' = [npc EXCEPT ![a] = l]
               /\ l = "ready" \/ l = npc[a] \/ (l = "expire" /\ a \in TimerProcs)
  BY DEF Unblock
<1>4. Trans(npc[a], l) /\ l \notin WaitPc /\ l # "events"
  BY <1>2, <1>3 DEF Trans, WaitPc
<1>5. l = "expire" => a \in TimerProcs
  BY <1>2, <1>3
<1>6. Hop(a, l)
  BY <1>2, <1>3, <1>4, <1>5 DEF Hop
<1> QED BY <1>2, <1>3, <1>6

LEMMA TimerHops ==
  ASSUME PollTypeOK, NEW t \in TimerProcs, DeadlineImpl(t) \/ Expire(t)
  PROVE  \E l : Hop(t, l) /\ npc[t] \in {"deadline", "expire"}
<1>1. todo \in [Actors -> SUBSET Modes] /\ t \in Actors
  BY DEF PollTypeOK, ControlOK, Actors
<1>2. CASE DeadlineImpl(t)
  BY <1>1, <1>2 DEF DeadlineImpl, NGoto, Hop, Trans, WaitPc
<1>3. CASE Expire(t)
  BY <1>1, <1>3, ReturnHops DEF Expire, Trans, WaitPc
<1> QED BY <1>2, <1>3

LEMMA PollerHops ==
  ASSUME PollTypeOK, NEW n \in Pollers, EpollWait(n) \/ NetpollReady(n)
  PROVE  \E l : Hop(n, l) /\ npc[n] \in {"idle", "events"}
<1>1. todo \in [Actors -> SUBSET Modes] /\ n \in Actors
  BY DEF PollTypeOK, ControlOK, Actors
<1>2. CASE EpollWait(n)
  BY <1>1, <1>2 DEF EpollWait, NGoto, Hop, Trans, WaitPc
<1>3. CASE NetpollReady(n)
  <2>1. PICK l \in {"events", "ready"} : NGoto(n, l)
    BY <1>3 DEF NetpollReady
  <2> QED BY <1>1, <1>3, <2>1 DEF NetpollReady, NGoto, Hop, Trans, WaitPc
<1> QED BY <1>2, <1>3

-----------------------------------------------------------------------------
(* Steps of a file: what they ask of the poller.                           *)

PollStill == UNCHANGED <<pdFile, closing, seq, sem, deadline, timer, pdLock, registered, epoll, events, woken>>

Entry(g, e, p) ==
  \/ e = "open" /\ fpc[g] = "open" /\ fpc'[g] = "opening" /\ p \in freeDescs
  \/ e = "evict" /\ fpc[g] = "opening" /\ fpc'[g] = "unpoll" /\ p = npd[g]
  \/ e = "close" /\ fpc[g] = "unpoll" /\ fpc'[g] = "unpolled" /\ p = npd[g]
  \/ /\ Pollable(file(g)) /\ p = ctx[file(g)]
     /\ \/ e \in {"reset", "wait"} /\ fpc[g] \in {"prepare", "syscall"} /\ fpc'[g] = "prepared"
        \/ e = "setdeadline" /\ fpc[g] = "incref" /\ fpc'[g] = "decref" /\ op[g].kind = "setdeadline"
        \/ e = "evict" /\ fpc[g] = "release" /\ fpc'[g] = "decref"
        \/ e = "close" /\ fpc[g] = "destroy" /\ fpc'[g] = "closefunc"

CallsPoll(g, e, p, ms) ==
  /\ Entry(g, e, p)
  /\ npc' = [npc EXCEPT ![g] = e] /\ npd' = [npd EXCEPT ![g] = p] /\ todo' = [todo EXCEPT ![g] = ms]
  /\ e \in {"reset", "wait"} => ms = {ioMode(g)}
  /\ e = "evict" => ms = Modes
  /\ freeDescs' = IF e = "open" THEN freeDescs \ {p} ELSE freeDescs

Quiet == UNCHANGED <<npc, npd, todo, freeDescs>>

\* A file calls the poller when its last call has returned, or not at all.
LEMMA StepCalls ==
  ASSUME FDInv, PollTypeOK, CallInv, NEW g \in Goroutines, FDStep(g)
  PROVE  /\ npc[g] = "idle" /\ PollStill
         /\ Quiet \/ \E e, ms : \E p \in PollDescs : CallsPoll(g, e, p, ms)
<1> USE DEF PollStill, Quiet, descVars, kernelVars, pollVars, fileVars
<1>1. /\ todo \in [Actors -> SUBSET Modes] /\ npd \in [Actors -> PollDescs] /\ g \in Actors
      /\ freeDescs \subseteq PollDescs /\ npd[g] \in PollDescs
  BY DEF PollTypeOK, ControlOK, Actors
<1>2. npc[g] # "idle" => fpc[g] \in PollingPc
  BY DEF CallInv, InPoll, PollingPc
<1>3. fpc \in [Goroutines -> FPc]
  BY DEF FDInv, FDTypeOK
<1>4. fpc[g] # "idle" => /\ Pollable(file(g)) => ctx[file(g)] \in PollDescs
                         /\ ioMode(g) \in Modes
  BY CallFacts
<1>5. CASE Open(g)
  <2>1. PICK p \in freeDescs : npd' = [npd EXCEPT ![g] = p] /\ freeDescs' = freeDescs \ {p}
    BY <1>5 DEF Open, PollOpen
  <2>2. npc[g] = "idle" /\ PollStill
    BY <1>5 DEF Open, PollOpen
  <2>3. npc' = [npc EXCEPT ![g] = "open"] /\ todo' = [todo EXCEPT ![g] = todo[g]]
    BY <1>1, <1>5 DEF Open, PollOpen
  <2>4. Entry(g, "open", p)
    BY <1>3, <1>5 DEF Open, FGoto, Entry
  <2>5. CallsPoll(g, "open", p, todo[g])
    BY <2>1, <2>3, <2>4 DEF CallsPoll
  <2> QED BY <1>1, <2>2, <2>5
<1>6. CASE Opened(g) \/ OpenedBlocking(g) \/ Prepared(g) \/ Decref(g) \/ CloseFunc(g)
  BY <1>6 DEF Opened, OpenedBlocking, Prepared, Decref, CloseFunc, Returned
<1>7. CASE OpenFails(g)
  <2>1. CallPoll(g, "evict", npd[g], Modes, 0) /\ fpc[g] = "opening" /\ fpc'[g] = "unpoll"
    BY <1>3, <1>7 DEF OpenFails, CallPollUnblock, FGoto
  <2>2. CallsPoll(g, "evict", npd[g], Modes)
    BY <2>1 DEF CallPoll, CallsPoll, Entry
  <2> QED BY <1>1, <2>1, <2>2 DEF CallPoll
<1>8. CASE OpenUnpoll(g)
  <2>1. CallPoll(g, "close", npd[g], {}, 0) /\ fpc[g] = "unpoll" /\ fpc'[g] = "unpolled"
    BY <1>3, <1>8 DEF OpenUnpoll, CallPollClose, FGoto
  <2>2. CallsPoll(g, "close", npd[g], {})
    BY <2>1 DEF CallPoll, CallsPoll, Entry
  <2> QED BY <1>1, <2>1, <2>2 DEF CallPoll
<1>9. CASE RwLock(g) \/ RwLockWake(g) \/ RwUnlock(g) \/ RwSignal(g) \/ IncrefAndClose(g)
             \/ CloseRelease(g) \/ CloseWait(g) \/ CloseReturn(g) \/ CloseSignal(g)
  <2>1. pollVars' = pollVars
    BY <1>9 DEF RwLock, RwLockWake, RwUnlock, RwSignal, IncrefAndClose, CloseRelease, CloseWait,
                CloseReturn, CloseSignal
  <2>2. fpc[g] \notin PollingPc
    BY <1>9 DEF RwLock, RwLockWake, RwUnlock, RwSignal, IncrefAndClose, CloseRelease, CloseWait,
                CloseReturn, CloseSignal, PollingPc
  <2> QED BY <1>2, <2>1, <2>2
<1>10. CASE Prepare(g)
  <2>1. fpc[g] = "prepare" /\ npc[g] = "idle"
    BY <1>2, <1>10 DEF Prepare, PollingPc
  <2>2. CASE Pollable(file(g))
    <3>1. CallPoll(g, "reset", ctx[file(g)], {ioMode(g)}, 0) /\ fpc'[g] = "prepared"
      BY <1>3, <1>10, <2>2 DEF Prepare, CallPollReset, FGoto
    <3>2. CallsPoll(g, "reset", ctx[file(g)], {ioMode(g)})
      BY <2>1, <2>2, <3>1 DEF CallPoll, CallsPoll, Entry
    <3> QED BY <1>4, <2>1, <2>2, <3>1, <3>2 DEF CallPoll
  <2> QED BY <1>10, <2>1, <2>2 DEF Prepare
<1>11. CASE Syscall(g)
  <2>1. fpc[g] = "syscall" /\ npc[g] = "idle"
    BY <1>2, <1>11 DEF Syscall, PollingPc
  <2>2. CASE ioMode(g) \in readable[file(g)]
    BY <1>11, <2>1, <2>2 DEF Syscall, Consume, callVars
  <2>3. CASE ioMode(g) \notin readable[file(g)]
    <3>1. CallPoll(g, "wait", ctx[file(g)], {ioMode(g)}, 0) /\ fpc'[g] = "prepared" /\ Pollable(file(g))
      BY <1>3, <1>11, <2>3 DEF Syscall, CallPollWait, FGoto
    <3>2. CallsPoll(g, "wait", ctx[file(g)], {ioMode(g)})
      BY <2>1, <3>1 DEF CallPoll, CallsPoll, Entry
    <3> QED BY <1>4, <2>1, <3>1, <3>2 DEF CallPoll
  <2> QED BY <2>2, <2>3
<1>12. CASE Incref(g)
  <2>1. fpc[g] = "incref" /\ npc[g] = "idle"
    BY <1>2, <1>12 DEF Incref, PollingPc
  <2>2. CASE ~word(g).closed /\ op[g].kind = "setdeadline" /\ Pollable(file(g))
    <3>1. ~Wraps(word(g).refs)
      <4>1. "incref" \notin ReferencePc
        BY DEF ReferencePc, LockedPc
      <4> QED BY <2>1, <4>1, Here
    <3>2. PICK ms, d : ms = op[g].modes /\ d = op[g].deadline
      OBVIOUS
    <3>3. CallPoll(g, "setdeadline", ctx[file(g)], ms, d) /\ fpc'[g] = "decref"
      BY <1>3, <1>12, <2>2, <3>1, <3>2 DEF Incref, CallPollSetDeadline, FGoto
    <3>4. CallsPoll(g, "setdeadline", ctx[file(g)], ms)
      BY <2>1, <2>2, <3>3 DEF CallPoll, CallsPoll, Entry
    <3> QED BY <1>4, <2>1, <2>2, <3>3, <3>4 DEF CallPoll
  <2> QED BY <1>12, <2>1, <2>2 DEF Incref
<1>13. CASE CloseEvict(g)
  <2>1. fpc[g] = "release" /\ npc[g] = "idle"
    BY <1>2, <1>13 DEF CloseEvict, PollingPc
  <2>2. CASE Pollable(file(g))
    <3>1. CallPoll(g, "evict", ctx[file(g)], Modes, 0) /\ fpc'[g] = "decref"
      BY <1>3, <1>13, <2>2 DEF CloseEvict, CallPollUnblock, FGoto
    <3>2. CallsPoll(g, "evict", ctx[file(g)], Modes)
      BY <2>1, <2>2, <3>1 DEF CallPoll, CallsPoll, Entry
    <3> QED BY <1>4, <2>1, <2>2, <3>1, <3>2 DEF CallPoll
  <2> QED BY <1>13, <2>1, <2>2 DEF CloseEvict
<1>14. CASE Destroy(g)
  <2>1. fpc[g] = "destroy" /\ npc[g] = "idle"
    BY <1>2, <1>14 DEF Destroy, PollingPc
  <2>2. CASE Pollable(file(g))
    <3>1. CallPoll(g, "close", ctx[file(g)], {}, 0) /\ fpc'[g] = "closefunc"
      BY <1>3, <1>14, <2>2 DEF Destroy, CallPollClose, FGoto
    <3>2. CallsPoll(g, "close", ctx[file(g)], {})
      BY <2>1, <2>2, <3>1 DEF CallPoll, CallsPoll, Entry
    <3> QED BY <1>4, <2>1, <2>2, <3>1, <3>2 DEF CallPoll
  <2> QED BY <1>14, <2>1, <2>2 DEF Destroy
<1> QED BY <1>5, <1>6, <1>7, <1>8, <1>9, <1>10, <1>11, <1>12, <1>13, <1>14 DEF FDStep

\* The file of a call in the poller keeps its descriptor under the steps of others.
LEMMA CtxStays ==
  ASSUME FDInv, LifeInv, CallInv, NEW g \in Goroutines, NEW l \in FPc, fpc[g] # "idle", LifeStep(g, l),
         NEW h \in Goroutines \ {g}, npc[h] # "idle", fpc[h] \notin OpenPc
  PROVE  ctx'[file(h)] = ctx[file(h)]
<1>1. fpc[h] \in ReferencePc \cup {"closefunc"} /\ fpc[h] # "idle"
  BY DEF CallInv, InPoll, PollingPc, OpenPc, ReferencePc, LockedPc
<1>2. file(h) \in Files /\ file(g) \in Files
  BY <1>1, CallFacts
<1>3. CASE UNCHANGED ctx
  BY <1>3
<1>4. CASE fpc[g] \in OpenPc /\ \A e \in Files \ {file(g)} : ctx'[e] = ctx[e]
  <2>1. file(h) # file(g)
    BY <1>1, <1>4 DEF LifeInv, OpenInv
  <2> QED BY <1>2, <1>4, <2>1
<1>5. CASE fpc[g] = "closefunc" /\ ctx' = [ctx EXCEPT ![file(g)] = Nobody]
  <2>1. fdmu[file(g)].refs = 0 /\ (fpc[h] = "closefunc" => file(h) # file(g))
    BY <1>5 DEF LifeInv, DestroyInv, DestroyPc
  <2>2. fpc[h] \in ReferencePc => fdmu[file(h)].refs # 0
    BY <1>1, Here
  <2>3. file(h) # file(g)
    BY <1>1, <2>1, <2>2
  <2> QED BY <1>2, <1>5, <2>3 DEF FDInv, FDTypeOK
<1> QED BY <1>3, <1>4, <1>5 DEF LifeStep

LEMMA CallStep ==
  ASSUME FDInv, PollTypeOK, LifeInv, CallInv, NEW g \in Goroutines, FDStep(g)
  PROVE  CallInv'
<1>1. /\ npc[g] = "idle"
      /\ Quiet \/ \E e, ms : \E p \in PollDescs : CallsPoll(g, e, p, ms)
  BY StepCalls
<1>2. PICK l \in FPc : fpc[g] # "idle" /\ LifeStep(g, l)
  BY LifeSteps
<1>3. /\ fpc'[g] = l /\ (l # "idle" => op'[g] = op[g] /\ file(g)' = file(g) /\ ioMode(g)' = ioMode(g))
      /\ \A h \in Goroutines \ {g} : fpc'[h] = fpc[h] /\ op'[h] = op[h] /\ file(h)' = file(h)
                                     /\ ioMode(h)' = ioMode(h)
  BY <1>2 DEF LifeStep, Goes, FDInv, FDTypeOK, file, ioMode
<1>4. /\ DOMAIN npc = Actors /\ npd \in [Actors -> PollDescs]
      /\ todo \in [Actors -> SUBSET Modes] /\ g \in Actors /\ Goroutines \subseteq Actors
      /\ TimerProcs \subseteq Actors /\ Pollers \subseteq Actors
      /\ g \notin TimerProcs /\ g \notin Pollers
  BY PollAssumption DEF PollTypeOK, ControlOK, Actors
<1>5. \A a \in Actors \ {g} : npc'[a] = npc[a] /\ npd'[a] = npd[a] /\ todo'[a] = todo[a]
  BY <1>1, <1>4 DEF Quiet, CallsPoll
<1>6. ASSUME NEW h \in Goroutines \ {g}, npc'[h] # "idle"
      PROVE  /\ InPoll(h)' \/ (npc'[h] = "throw" /\ fpc'[h] \in PollingPc)
             /\ fpc'[h] \notin OpenPc => Pollable(file(h))' /\ npd'[h] = ctx'[file(h)']
  <2>1. npc[h] # "idle" /\ npc'[h] = npc[h] /\ npd'[h] = npd[h] /\ todo'[h] = todo[h]
    BY <1>4, <1>5, <1>6
  <2>2. InPoll(h) \/ (npc[h] = "throw" /\ fpc[h] \in PollingPc)
    BY <2>1 DEF CallInv
  <2>3. InPoll(h)' <=> InPoll(h)
    BY <1>3, <2>1 DEF InPoll
  <2>4. ASSUME fpc[h] \notin OpenPc
        PROVE  Pollable(file(h))' /\ npd'[h] = ctx'[file(h)']
    <3>1. Pollable(file(h)) /\ npd[h] = ctx[file(h)]
      BY <2>1, <2>4 DEF CallInv
    <3>2. ctx'[file(h)] = ctx[file(h)]
      BY <1>2, <2>1, <2>4, CtxStays
    <3> QED BY <1>3, <2>1, <3>1, <3>2 DEF Pollable
  <2> QED BY <1>3, <2>1, <2>2, <2>3, <2>4
<1>7. ASSUME npc'[g] # "idle"
      PROVE  /\ InPoll(g)'
             /\ fpc'[g] \notin OpenPc => Pollable(file(g))' /\ npd'[g] = ctx'[file(g)']
  <2>1. PICK e, ms : \E p \in PollDescs : CallsPoll(g, e, p, ms)
    BY <1>1, <1>7 DEF Quiet
  <2>2. PICK p \in PollDescs : CallsPoll(g, e, p, ms)
    BY <2>1
  <2>3. npc'[g] = e /\ npd'[g] = p /\ todo'[g] = ms /\ Entry(g, e, p)
    BY <1>4, <2>2 DEF CallsPoll
  <2>4. Fits(fpc[g], op[g])
    BY DEF FDInv, KindInv
  <2>5. l # "idle" /\ InPoll(g)'
    <3>1. (e \in {"reset", "wait"} => ms = {ioMode(g)}) /\ (fpc[g] = "release" => op[g].kind = "close")
      BY <2>2, <2>4 DEF CallsPoll, Fits
    <3>2. l # "idle"
      BY <1>3, <2>3 DEF Entry
    <3> QED BY <1>3, <2>3, <3>1, <3>2 DEF Entry, InPoll, WaitPc
  <2>6. ASSUME l \notin OpenPc
        PROVE  Pollable(file(g))' /\ npd'[g] = ctx'[file(g)']
    <3>1. Pollable(file(g)) /\ p = ctx[file(g)] /\ fpc[g] \notin OpenPc /\ l # "csignal"
      BY <1>3, <2>3, <2>6 DEF Entry, OpenPc
    <3>2. ctx' = ctx
      BY <1>2, <3>1 DEF LifeStep
    <3> QED BY <1>3, <2>3, <2>5, <3>1, <3>2 DEF Pollable
  <2> QED BY <1>3, <2>5, <2>6
<1>8. \A t \in TimerProcs : npc'[t] \in {"idle", "deadline", "expire", "unblock", "ready", "throw"}
  BY <1>4, <1>5 DEF CallInv
<1>9. \A n \in Pollers : npc'[n] \in {"idle", "events", "ready"}
  BY <1>4, <1>5 DEF CallInv
<1> QED BY <1>6, <1>7, <1>8, <1>9 DEF CallInv

\* The owners of descriptors lose some, and gain none.
LEMMA OwnKeeps ==
  ASSUME OwnInv, pdFile' = pdFile, freeDescs' \subseteq freeDescs,
         \A f \in Files, p \in PollDescs : FileHas(f, p)' => FileHas(f, p),
         \A g \in Goroutines, p \in PollDescs : OpenerHas(g, p)' =>
           /\ OpenerHas(g, p) /\ file(g)' = file(g)
           /\ npc'[g] \notin {"open", "throw"} => npc[g] \notin {"open", "throw"}
  PROVE  OwnInv'
<1> SUFFICES ASSUME NEW p \in PollDescs
             PROVE  /\ \A f \in Files : FileHas(f, p)' =>
                         /\ p \notin freeDescs' /\ pdFile'[p] = f
                         /\ \A g \in Goroutines : ~OpenerHas(g, p)'
                    /\ \A g \in Goroutines : OpenerHas(g, p)' =>
                         /\ p \notin freeDescs'
                         /\ npc'[g] \notin {"open", "throw"} => pdFile'[p] = file(g)'
                         /\ \A h \in Goroutines : OpenerHas(h, p)' => h = g
  BY DEF OwnInv
<1>1. ASSUME NEW f \in Files, FileHas(f, p)'
      PROVE  /\ p \notin freeDescs' /\ pdFile'[p] = f
             /\ \A g \in Goroutines : ~OpenerHas(g, p)'
  BY <1>1 DEF OwnInv
<1>2. ASSUME NEW g \in Goroutines, OpenerHas(g, p)'
      PROVE  /\ p \notin freeDescs'
             /\ npc'[g] \notin {"open", "throw"} => pdFile'[p] = file(g)'
             /\ \A h \in Goroutines : OpenerHas(h, p)' => h = g
  BY <1>2 DEF OwnInv
<1> QED BY <1>1, <1>2

LEMMA SleepKeeps ==
  ASSUME SleepInv, woken' = woken, sem' = sem,
         \A g \in Goroutines : npc[g] = "parked" =>
           npc'[g] = "parked" /\ npd'[g] = npd[g] /\ todo'[g] = todo[g]
  PROVE  SleepInv'
BY DEF SleepInv, mode

LEMMA StepAt ==
  ASSUME NEW g \in Goroutines, FDStep(g)
  PROVE  /\ fpc[g] \in OpenPc => Open(g) \/ Opened(g) \/ OpenFails(g) \/ OpenUnpoll(g) \/ OpenedBlocking(g)
         /\ fpc[g] = "closefunc" => CloseFunc(g)
BY DEF FDStep, Open, Opened, OpenFails, OpenUnpoll, OpenedBlocking, RwLock, RwLockWake, Prepare,
       Prepared, Syscall, RwUnlock, RwSignal, Incref, Decref, IncrefAndClose, CloseRelease,
       CloseEvict, CloseWait, CloseReturn, Destroy, CloseFunc, CloseSignal, OpenPc

LEMMA OwnStep ==
  ASSUME FDInv, PollTypeOK, LifeInv, CallInv, OwnInv, NEW g \in Goroutines, FDStep(g)
  PROVE  OwnInv'
<1>1. /\ npc[g] = "idle" /\ PollStill
      /\ Quiet \/ \E e, ms : \E p \in PollDescs : CallsPoll(g, e, p, ms)
  BY StepCalls
<1>2. PICK l \in FPc : fpc[g] # "idle" /\ LifeStep(g, l)
  BY LifeSteps
<1>3. /\ fpc'[g] = l /\ (l # "idle" => op'[g] = op[g] /\ file(g)' = file(g))
      /\ \A h \in Goroutines \ {g} : fpc'[h] = fpc[h] /\ op'[h] = op[h] /\ file(h)' = file(h)
  BY <1>2 DEF LifeStep, Goes, FDInv, FDTypeOK, file
<1>4. /\ DOMAIN npc = Actors /\ npd \in [Actors -> PollDescs] /\ Goroutines \subseteq Actors
      /\ todo \in [Actors -> SUBSET Modes] /\ npd[g] \in PollDescs /\ file(g) \in Files
      /\ freeDescs \subseteq PollDescs /\ pdFile' = pdFile
  BY <1>1, <1>2, CallFacts DEF PollTypeOK, ControlOK, Actors, PollStill
<1>5. \A h \in Goroutines \ {g} : npc'[h] = npc[h] /\ npd'[h] = npd[h]
  BY <1>1, <1>4 DEF Quiet, CallsPoll
<1>6. /\ ctx \in [Files -> PollDescs \cup {Nobody}] /\ fpc \in [Goroutines -> FPc]
      /\ Nobody \notin PollDescs
  BY PollAssumption DEF FDInv, FDTypeOK
<1>7. CASE Open(g)
  <2>1. PICK p \in freeDescs : npd' = [npd EXCEPT ![g] = p] /\ freeDescs' = freeDescs \ {p}
    BY <1>7 DEF Open, PollOpen
  <2>2. /\ fpc[g] = "open" /\ fpc'[g] = "opening" /\ npc'[g] = "open" /\ npd'[g] = p /\ p \in PollDescs
        /\ ctx' = ctx /\ file(g)' = file(g)
    BY <1>4, <1>6, <1>7, <2>1 DEF Open, PollOpen, FGoto, fileVars, file
  <2>3. \A f \in Files : \A q : FileHas(f, q)' <=> FileHas(f, q)
    <3>1. \A f \in Files : Keeps(f)' <=> Keeps(f)
      BY <1>3, <1>5, <2>2 DEF Keeps
    <3> QED BY <2>2, <3>1 DEF FileHas
  <2>4. \A h \in Goroutines \ {g} : \A q : OpenerHas(h, q)' <=> OpenerHas(h, q)
    BY <1>3, <1>5 DEF OpenerHas
  <2>5. \A q : OpenerHas(g, q)' <=> q = p
    BY <2>2 DEF OpenerHas
  <2> SUFFICES ASSUME NEW q \in PollDescs
               PROVE  /\ \A f \in Files : FileHas(f, q)' =>
                           /\ q \notin freeDescs' /\ pdFile'[q] = f
                           /\ \A h \in Goroutines : ~OpenerHas(h, q)'
                      /\ \A h \in Goroutines : OpenerHas(h, q)' =>
                           /\ q \notin freeDescs'
                           /\ npc'[h] \notin {"open", "throw"} => pdFile'[q] = file(h)'
                           /\ \A i \in Goroutines : OpenerHas(i, q)' => i = h
    BY DEF OwnInv
  <2>6. ASSUME NEW f \in Files, FileHas(f, q)'
        PROVE  /\ q \notin freeDescs' /\ pdFile'[q] = f
               /\ \A h \in Goroutines : ~OpenerHas(h, q)'
    <3>1. /\ q \notin freeDescs /\ pdFile[q] = f
          /\ \A h \in Goroutines : ~OpenerHas(h, q)
      BY <2>3, <2>6 DEF OwnInv
    <3> QED BY <1>4, <2>1, <2>4, <2>5, <3>1
  <2>7. ASSUME NEW h \in Goroutines, OpenerHas(h, q)'
        PROVE  /\ q \notin freeDescs'
               /\ npc'[h] \notin {"open", "throw"} => pdFile'[q] = file(h)'
               /\ \A i \in Goroutines : OpenerHas(i, q)' => i = h
    <3>1. CASE h = g
      <4>1. q = p
        BY <2>5, <2>7, <3>1
      <4>2. \A i \in Goroutines \ {g} : ~OpenerHas(i, q)
        BY <2>1, <4>1 DEF OwnInv
      <4> QED BY <2>1, <2>2, <2>4, <3>1, <4>1, <4>2
    <3>2. CASE h # g
      <4>1. /\ q \notin freeDescs
            /\ npc[h] \notin {"open", "throw"} => pdFile[q] = file(h)
            /\ \A i \in Goroutines : OpenerHas(i, q) => i = h
        BY <2>4, <2>7, <3>2 DEF OwnInv
      <4>2. q # p
        BY <2>1, <4>1
      <4> QED BY <1>3, <1>4, <1>5, <2>1, <2>4, <2>5, <3>2, <4>1, <4>2
    <3> QED BY <3>1, <3>2
  <2> QED BY <2>6, <2>7
<1>8. CASE Opened(g)
  <2>0. PICK f \in Files, p \in PollDescs : f = file(g) /\ p = npd[g]
    BY <1>4
  <2>1. /\ fpc[g] = "opening" /\ fpc'[g] = "idle" /\ UNCHANGED <<npc, npd, freeDescs>>
        /\ ctx' = [ctx EXCEPT ![f] = p]
    BY <1>6, <1>8, <2>0 DEF Opened, Returned, Done, descVars
  <2>2. OpenerHas(g, p)
    BY <2>0, <2>1 DEF OpenerHas
  <2>3. /\ p \notin freeDescs /\ pdFile[p] = f /\ \A h \in Goroutines : OpenerHas(h, p) => h = g
        /\ \A e \in Files : ~FileHas(e, p)
    BY <1>1, <2>0, <2>1, <2>2 DEF OwnInv
  <2>4. \A h \in Goroutines : \A q : OpenerHas(h, q)' => OpenerHas(h, q) /\ h # g
    BY <1>3, <1>5, <2>1 DEF OpenerHas
  <2>5. \A e \in Files \ {f} : \A q : FileHas(e, q)' => FileHas(e, q)
    <3>1. \A e \in Files : Keeps(e)' => Keeps(e)
      BY <1>3, <1>5, <2>1 DEF Keeps
    <3> QED BY <1>6, <2>1, <3>1 DEF FileHas
  <2>6. \A q : FileHas(f, q)' => q = p
    BY <1>6, <2>1 DEF FileHas
  <2>7. \A h \in Goroutines : OpenerHas(h, p)' => FALSE
    BY <2>3, <2>4
  <2> SUFFICES ASSUME NEW q \in PollDescs
               PROVE  /\ \A e \in Files : FileHas(e, q)' =>
                           /\ q \notin freeDescs' /\ pdFile'[q] = e
                           /\ \A h \in Goroutines : ~OpenerHas(h, q)'
                      /\ \A h \in Goroutines : OpenerHas(h, q)' =>
                           /\ q \notin freeDescs'
                           /\ npc'[h] \notin {"open", "throw"} => pdFile'[q] = file(h)'
                           /\ \A i \in Goroutines : OpenerHas(i, q)' => i = h
    BY DEF OwnInv
  <2>8. ASSUME NEW e \in Files, FileHas(e, q)'
        PROVE  /\ q \notin freeDescs' /\ pdFile'[q] = e
               /\ \A h \in Goroutines : ~OpenerHas(h, q)'
    <3>1. CASE e = f
      BY <1>4, <2>1, <2>3, <2>6, <2>7, <2>8, <3>1
    <3>2. CASE e # f
      BY <1>4, <2>1, <2>4, <2>5, <2>8, <3>2 DEF OwnInv
    <3> QED BY <3>1, <3>2
  <2>9. ASSUME NEW h \in Goroutines, OpenerHas(h, q)'
        PROVE  /\ q \notin freeDescs'
               /\ npc'[h] \notin {"open", "throw"} => pdFile'[q] = file(h)'
               /\ \A i \in Goroutines : OpenerHas(i, q)' => i = h
    BY <1>3, <1>4, <2>1, <2>4, <2>9 DEF OwnInv
  <2> QED BY <2>8, <2>9
<1>9. CASE ~Open(g) /\ ~Opened(g)
  <2>1. freeDescs' \subseteq freeDescs
    BY <1>1 DEF Quiet, CallsPoll
  <2>2. fpc[g] = "closefunc" => ctx' = [ctx EXCEPT ![file(g)] = Nobody]
    BY StepAt DEF CloseFunc
  <2>3. \A f \in Files : ctx'[f] = ctx[f] \/ ctx'[f] = Nobody
    <3>1. CASE fpc[g] \in OpenPc
      BY <1>9, <3>1, StepAt DEF OpenFails, OpenUnpoll, OpenedBlocking, fileVars
    <3>2. CASE fpc[g] \notin OpenPc
      BY <1>2, <1>6, <3>2 DEF LifeStep
    <3> QED BY <3>1, <3>2
  <2>4. ASSUME NEW f \in Files, NEW p \in PollDescs, FileHas(f, p)'
        PROVE  FileHas(f, p)
    <3>1. ctx'[f] = p /\ Keeps(f)'
      BY <2>4 DEF FileHas
    <3>2. ctx[f] = p /\ (fpc[g] = "closefunc" => file(g) # f)
      BY <1>4, <1>6, <2>2, <2>3, <3>1
    <3>3. ASSUME NEW h \in Goroutines, fpc[h] = "closefunc", file(h) = f
          PROVE  npc[h] # "idle"
      BY <1>3, <1>5, <3>1, <3>2, <3>3 DEF Keeps
    <3> QED BY <3>2, <3>3 DEF FileHas, Keeps
  <2>5. ASSUME NEW h \in Goroutines, NEW p \in PollDescs, OpenerHas(h, p)'
        PROVE  /\ OpenerHas(h, p) /\ file(h)' = file(h)
               /\ npc'[h] \notin {"open", "throw"} => npc[h] \notin {"open", "throw"}
    <3>1. CASE h # g
      BY <1>3, <1>5, <2>5, <3>1 DEF OpenerHas
    <3>2. CASE h = g
      <4>1. l \in {"opening", "unpoll", "unpolled"} /\ l \in OpenPc /\ l # "idle"
        BY <1>3, <2>5, <3>2 DEF OpenerHas, OpenPc
      <4>2. OpenFails(g) \/ OpenUnpoll(g)
        <5>1. fpc[g] \in OpenPc
          BY <1>2, <4>1 DEF LifeStep
        <5>2. ~OpenedBlocking(g)
          BY <1>3, <1>6, <4>1 DEF OpenedBlocking, Done
        <5> QED BY <1>9, <5>1, <5>2, StepAt
      <4>3. npd'[g] = npd[g] /\ fpc[g] \in {"opening", "unpoll"}
        BY <1>4, <4>2 DEF OpenFails, OpenUnpoll, CallPollUnblock, CallPollClose, CallPoll
      <4> QED BY <1>1, <1>3, <2>5, <3>2, <4>1, <4>3 DEF OpenerHas
    <3> QED BY <3>1, <3>2
  <2> QED BY <1>4, <2>1, <2>4, <2>5, OwnKeeps
<1> QED BY <1>7, <1>8, <1>9

LEMMA SleepStep ==
  ASSUME FDInv, PollTypeOK, CallInv, SleepInv, EdgeInv, NEW g \in Goroutines, FDStep(g)
  PROVE  SleepInv' /\ EdgeInv'
<1>1. /\ npc[g] = "idle" /\ PollStill
      /\ Quiet \/ \E e, ms : \E p \in PollDescs : CallsPoll(g, e, p, ms)
  BY StepCalls
<1>2. DOMAIN npc = Actors /\ npd \in [Actors -> PollDescs] /\ todo \in [Actors -> SUBSET Modes]
      /\ Goroutines \subseteq Actors
  BY DEF PollTypeOK, ControlOK, Actors
<1>3. \A h \in Goroutines : npc[h] = "parked" =>
           npc'[h] = "parked" /\ npd'[h] = npd[h] /\ todo'[h] = todo[h]
  BY <1>1, <1>2 DEF Quiet, CallsPoll
<1>4. UNCHANGED <<sem, woken, epoll, events>>
  BY <1>1 DEF PollStill
<1> QED BY <1>3, <1>4, SleepKeeps DEF EdgeInv

-----------------------------------------------------------------------------
(* Steps in the poller.                                                    *)

LEMMA HopFact ==
  ASSUME PollTypeOK, NEW a \in Actors, NEW l, Hop(a, l)
  PROVE  /\ npc'[a] = l /\ \A b \in Actors \ {a} : npc'[b] = npc[b] /\ todo'[b] = todo[b]
         /\ npd' = npd
         /\ npc[a] = "idle" => l = "events" /\ a \in Pollers
         /\ npc[a] \notin {"parked", "ready", "throw"}
         /\ l \in {"wait", "events"} \/ l \notin {"reset", "wait", "evict", "open", "deadline", "setdeadline"}
BY DEF Hop, Trans, PollTypeOK, ControlOK

LEMMA CallHop ==
  ASSUME PollTypeOK, CallInv, UNCHANGED fdVars, NEW a \in Actors, NEW l, Hop(a, l)
  PROVE  CallInv'
<1>1. /\ npc'[a] = l /\ \A b \in Actors \ {a} : npc'[b] = npc[b] /\ todo'[b] = todo[b]
      /\ npd' = npd
  BY HopFact
<1>2. UNCHANGED <<fpc, op, ctx>>
  BY DEF fdVars
<1>3. /\ Goroutines \subseteq Actors /\ TimerProcs \subseteq Actors /\ Pollers \subseteq Actors
      /\ Goroutines \cap (TimerProcs \cup Pollers) = {} /\ TimerProcs \cap Pollers = {}
  BY PollAssumption DEF Actors
<1>4. Trans(npc[a], l) /\ (l \in WaitPc => todo' = todo) /\ (l = "expire" => a \in TimerProcs)
      /\ (l = "events" => a \in Pollers)
  BY DEF Hop
<1>5. ASSUME NEW g \in Goroutines, npc'[g] # "idle"
      PROVE  /\ InPoll(g)' \/ (npc'[g] = "throw" /\ fpc'[g] \in PollingPc)
             /\ fpc'[g] \notin OpenPc => Pollable(file(g))' /\ npd'[g] = ctx'[file(g)']
  <2>1. file(g)' = file(g) /\ ioMode(g)' = ioMode(g) /\ (Pollable(file(g))' <=> Pollable(file(g)))
    BY <1>2 DEF file, ioMode, Pollable
  <2>2. CASE g # a
    <3>1. npc[g] # "idle" /\ npc'[g] = npc[g] /\ todo'[g] = todo[g]
      BY <1>1, <1>3, <1>5, <2>2
    <3>2. InPoll(g)' <=> InPoll(g)
      BY <1>2, <2>1, <3>1 DEF InPoll
    <3> QED BY <1>1, <1>2, <2>1, <3>1, <3>2 DEF CallInv
  <2>3. CASE g = a
    <3>1. npc[g] # "idle" /\ npc'[g] = l /\ Trans(npc[g], l) /\ npc[g] # "throw" /\ l # "expire" /\ l # "events"
      BY <1>1, <1>3, <1>4, <2>3 DEF Trans
    <3>2. InPoll(g) /\ (fpc[g] \notin OpenPc => Pollable(file(g)) /\ npd[g] = ctx[file(g)])
      BY <3>1 DEF CallInv
    <3>3. InPoll(g)' \/ (l = "throw" /\ fpc[g] \in PollingPc)
      <4>1. CASE fpc[g] = "prepared"
        <5>1. npc[g] \in WaitPc /\ todo[g] = {ioMode(g)}
          BY <3>2, <4>1 DEF InPoll
        <5>2. l \in WaitPc \cup {"throw"}
          BY <1>5, <3>1, <5>1 DEF Trans, WaitPc
        <5> QED BY <1>2, <1>4, <2>1, <3>1, <4>1, <5>1, <5>2 DEF InPoll, PollingPc
      <4>2. CASE fpc[g] # "prepared"
        BY <1>2, <1>5, <3>1, <3>2, <4>2 DEF InPoll, Trans, PollingPc
      <4> QED BY <4>1, <4>2
    <3> QED BY <1>1, <1>2, <2>1, <3>1, <3>2, <3>3
  <2> QED BY <2>2, <2>3
<1>6. ASSUME NEW t \in TimerProcs
      PROVE  npc'[t] \in {"idle", "deadline", "expire", "unblock", "ready", "throw"}
  <2>1. npc[t] \in {"idle", "deadline", "expire", "unblock", "ready", "throw"}
    BY DEF CallInv
  <2>2. CASE t = a
    BY <1>1, <1>3, <1>4, <2>1, <2>2 DEF Trans
  <2> QED BY <1>1, <1>3, <2>1, <2>2
<1>7. ASSUME NEW n \in Pollers
      PROVE  npc'[n] \in {"idle", "events", "ready"}
  <2>1. npc[n] \in {"idle", "events", "ready"}
    BY DEF CallInv
  <2>2. CASE n = a
    BY <1>1, <1>3, <1>4, <2>1, <2>2 DEF Trans
  <2> QED BY <1>1, <1>3, <2>1, <2>2
<1> QED BY <1>5, <1>6, <1>7 DEF CallInv

\* Nobody comes to own a descriptor in the poller.
LEMMA OwnPoll ==
  ASSUME OwnInv, UNCHANGED fdVars, pdFile' = pdFile, freeDescs' = freeDescs,
         \A g \in Goroutines : /\ npc[g] = "idle" => npc'[g] = "idle"
                               /\ npd'[g] = npd[g]
                               /\ npc[g] \in {"open", "throw"} => npc'[g] \in {"open", "throw"}
  PROVE  OwnInv'
<1>1. UNCHANGED <<fpc, op, ctx>>
  BY DEF fdVars
<1>2. \A g \in Goroutines : file(g)' = file(g)
  BY <1>1 DEF file
<1>3. \A f \in Files, p \in PollDescs : FileHas(f, p)' => FileHas(f, p)
  BY <1>1, <1>2 DEF FileHas, Keeps
<1>4. \A g \in Goroutines, p \in PollDescs : OpenerHas(g, p)' => OpenerHas(g, p)
  BY <1>1 DEF OpenerHas
<1> QED BY <1>2, <1>3, <1>4, OwnKeeps

LEMMA OwnHop ==
  ASSUME PollTypeOK, OwnInv, UNCHANGED fdVars, pdFile' = pdFile, freeDescs' = freeDescs,
         NEW a \in Actors, NEW l, Hop(a, l), npc[a] # "open" \/ l = "throw"
  PROVE  OwnInv'
<1>1. /\ npc'[a] = l /\ npd' = npd
      /\ npc[a] = "idle" => a \in Pollers
      /\ npc[a] # "throw"
  BY HopFact
<1>2. \A b \in Actors \ {a} : npc'[b] = npc[b]
  BY HopFact
<1>3. Goroutines \cap Pollers = {} /\ Goroutines \subseteq Actors
  BY PollAssumption DEF Actors
<1>4. ASSUME NEW g \in Goroutines
      PROVE  /\ npc[g] = "idle" => npc'[g] = "idle"
             /\ npd'[g] = npd[g]
             /\ npc[g] \in {"open", "throw"} => npc'[g] \in {"open", "throw"}
  <2>1. CASE g = a
    BY <1>1, <1>3, <2>1
  <2>2. CASE g # a
    BY <1>1, <1>2, <1>3, <2>2
  <2> QED BY <2>1, <2>2
<1> QED BY <1>4, OwnPoll

\* A descriptor is given to the file that is being opened.
LEMMA OwnOpenReset ==
  ASSUME FDInv, PollTypeOK, CallInv, OwnInv, UNCHANGED fdVars, NEW g \in Goroutines, PollOpenReset(g, file(g))
  PROVE  OwnInv'
<1>1. npc[g] = "open" /\ g \in Actors /\ npd \in [Actors -> PollDescs] /\ DOMAIN npc = Actors
      /\ Goroutines \subseteq Actors /\ pdFile \in [PollDescs -> Files \cup {Nobody}]
  BY DEF PollOpenReset, Actors, PollTypeOK, ControlOK
<1>2. fpc[g] = "opening"
  BY <1>1 DEF CallInv, InPoll, WaitPc
<1>3. PICK p \in PollDescs : p = npd[g]
  BY <1>1
<1>4. OpenerHas(g, p)
  BY <1>2, <1>3 DEF OpenerHas
<1>5. UNCHANGED <<fpc, op, ctx>>
  BY DEF fdVars
<1>6. \A h \in Goroutines : file(h)' = file(h)
  BY <1>5 DEF file
<1>7. CASE Blocked(p)
  <2>1. NGoto(g, "throw") /\ pdFile' = pdFile /\ freeDescs' = freeDescs
    BY <1>3, <1>7 DEF PollOpenReset
  <2>2. Hop(g, "throw")
    BY <1>1, <2>1, ReturnHops DEF Trans
  <2> QED BY <1>1, <2>1, <2>2, OwnHop
<1>8. CASE ~Blocked(p)
  <2>1. /\ pdFile' = [pdFile EXCEPT ![p] = file(g)] /\ freeDescs' = freeDescs
        /\ npc' = [npc EXCEPT ![g] = "register"] /\ npd' = npd
    BY <1>3, <1>8 DEF PollOpenReset, NGoto
  <2>2. /\ \A f \in Files : ~FileHas(f, p) /\ p \notin freeDescs
        /\ \A h \in Goroutines : OpenerHas(h, p) => h = g
    BY <1>4 DEF OwnInv
  <2>3. \A f \in Files : \A q \in PollDescs : FileHas(f, q)' => FileHas(f, q)
    BY <1>1, <1>5, <1>6, <2>1 DEF FileHas, Keeps
  <2>4. \A h \in Goroutines : \A q \in PollDescs : OpenerHas(h, q)' => OpenerHas(h, q)
    BY <1>1, <1>5, <2>1 DEF OpenerHas
  <2>5. \A q \in PollDescs : q # p => pdFile'[q] = pdFile[q]
    BY <1>1, <2>1
  <2>6. pdFile'[p] = file(g)
    BY <1>1, <2>1
  <2>7. \A h \in Goroutines \ {g} : npc'[h] = npc[h]
    BY <1>1, <2>1
  <2>8. \A q \in PollDescs : OpenerHas(g, q) => q = p
    BY <1>3 DEF OpenerHas
  <2> SUFFICES ASSUME NEW q \in PollDescs
               PROVE  /\ \A f \in Files : FileHas(f, q)' =>
                           /\ q \notin freeDescs' /\ pdFile'[q] = f
                           /\ \A h \in Goroutines : ~OpenerHas(h, q)'
                      /\ \A h \in Goroutines : OpenerHas(h, q)' =>
                           /\ q \notin freeDescs'
                           /\ npc'[h] \notin {"open", "throw"} => pdFile'[q] = file(h)'
                           /\ \A i \in Goroutines : OpenerHas(i, q)' => i = h
    BY DEF OwnInv
  <2>9. ASSUME NEW f \in Files, FileHas(f, q)'
        PROVE  /\ q \notin freeDescs' /\ pdFile'[q] = f
               /\ \A h \in Goroutines : ~OpenerHas(h, q)'
    BY <2>1, <2>2, <2>3, <2>4, <2>5, <2>9 DEF OwnInv
  <2>10. ASSUME NEW h \in Goroutines, OpenerHas(h, q)'
        PROVE  /\ q \notin freeDescs'
               /\ npc'[h] \notin {"open", "throw"} => pdFile'[q] = file(h)'
               /\ \A i \in Goroutines : OpenerHas(i, q)' => i = h
    <3>1. CASE h = g
      <4>1. q = p
        BY <2>4, <2>8, <2>10, <3>1
      <4>2. \A i \in Goroutines : OpenerHas(i, q)' => i = h
        BY <2>2, <2>4, <3>1, <4>1
      <4>3. q \notin freeDescs'
        <5>1. p \notin freeDescs
          BY <1>4 DEF OwnInv
        <5> QED BY <2>1, <4>1, <5>1
      <4> QED BY <1>6, <2>6, <3>1, <4>1, <4>2, <4>3
    <3>2. CASE h # g
      <4>1. q # p
        BY <2>2, <2>4, <2>10, <3>2
      <4> QED BY <1>6, <2>1, <2>4, <2>5, <2>7, <2>10, <3>2, <4>1 DEF OwnInv
    <3> QED BY <3>1, <3>2
  <2> QED BY <2>9, <2>10
<1> QED BY <1>7, <1>8

\* A descriptor that is freed has no owner any more.
LEMMA OwnFree ==
  ASSUME FDInv, PollTypeOK, LifeInv, CallInv, OwnInv, UNCHANGED fdVars, NEW g \in Goroutines, PollFree(g)
  PROVE  OwnInv'
<1>1. npc[g] = "free" /\ g \in Actors /\ npd \in [Actors -> PollDescs] /\ DOMAIN npc = Actors
      /\ Goroutines \subseteq Actors /\ pdFile \in [PollDescs -> Files \cup {Nobody}]
  BY DEF PollFree, Actors, PollTypeOK, ControlOK
<1>2. fpc[g] \in {"unpolled", "closefunc"} /\ (fpc[g] = "closefunc" => npd[g] = ctx[file(g)])
  BY <1>1 DEF CallInv, InPoll, WaitPc, OpenPc
<1>3. PICK p \in PollDescs : p = npd[g]
  BY <1>1
<1>4. UNCHANGED <<fpc, op, ctx>>
  BY DEF fdVars
<1>5. \A h \in Goroutines : file(h)' = file(h)
  BY <1>4 DEF file
<1>6. /\ pdFile' = [pdFile EXCEPT ![p] = Nobody] /\ freeDescs' = freeDescs \cup {p}
      /\ npc' = [npc EXCEPT ![g] = "idle"] /\ npd' = npd
  BY <1>3 DEF PollFree, PollReturn
<1>7. \A f \in Files : \A q \in PollDescs : FileHas(f, q)' => FileHas(f, q)
  BY <1>1, <1>4, <1>5, <1>6 DEF FileHas, Keeps
<1>8. \A h \in Goroutines : \A q \in PollDescs : OpenerHas(h, q)' => OpenerHas(h, q)
  BY <1>1, <1>4, <1>6 DEF OpenerHas
<1>9. \A f \in Files : ~FileHas(f, p)'
  <2>1. CASE fpc[g] = "unpolled"
    <3>1. OpenerHas(g, p)
      BY <1>1, <1>3, <2>1 DEF OpenerHas
    <3> QED BY <1>7, <3>1 DEF OwnInv
  <2>2. CASE fpc[g] = "closefunc"
    <3>1. file(g) \in Files /\ ctx[file(g)] = p
      BY <1>2, <1>3, <2>2, CallFacts
    <3>2. FileHas(file(g), p)
      <4>1. \A h \in Goroutines : fpc[h] = "closefunc" /\ file(h) = file(g) => h = g
        BY <2>2 DEF LifeInv, DestroyInv, DestroyPc
      <4> QED BY <1>1, <3>1, <4>1 DEF FileHas, Keeps
    <3>3. \A f \in Files : FileHas(f, p) => f = file(g)
      BY <3>1, <3>2 DEF OwnInv
    <3>4. ASSUME NEW f \in Files, FileHas(f, p)'
          PROVE  FALSE
      <4>1. f = file(g)
        BY <1>7, <3>3, <3>4
      <4> QED BY <1>1, <1>4, <1>5, <1>6, <2>2, <3>4, <4>1 DEF FileHas, Keeps
    <3> QED BY <3>4
  <2> QED BY <1>2, <2>1, <2>2
<1>10. \A h \in Goroutines : ~OpenerHas(h, p)'
  <2>1. ~OpenerHas(g, p)'
    BY <1>1, <1>2, <1>4, <1>6 DEF OpenerHas
  <2>2. CASE fpc[g] = "unpolled"
    <3>1. OpenerHas(g, p)
      BY <1>1, <1>3, <2>2 DEF OpenerHas
    <3> QED BY <1>8, <2>1, <3>1 DEF OwnInv
  <2>3. CASE fpc[g] = "closefunc"
    <3>1. file(g) \in Files /\ ctx[file(g)] = p
      BY <1>2, <1>3, <2>3, CallFacts
    <3>2. FileHas(file(g), p)
      <4>1. \A h \in Goroutines : fpc[h] = "closefunc" /\ file(h) = file(g) => h = g
        BY <2>3 DEF LifeInv, DestroyInv, DestroyPc
      <4> QED BY <1>1, <3>1, <4>1 DEF FileHas, Keeps
    <3> QED BY <1>8, <3>1, <3>2 DEF OwnInv
  <2> QED BY <1>2, <2>2, <2>3
<1>11. \A q \in PollDescs : q # p => pdFile'[q] = pdFile[q]
  BY <1>1, <1>6
<1>12. \A h \in Goroutines : npc'[h] # "idle" => npc'[h] = npc[h]
  BY <1>1, <1>6
<1> SUFFICES ASSUME NEW q \in PollDescs
             PROVE  /\ \A f \in Files : FileHas(f, q)' =>
                         /\ q \notin freeDescs' /\ pdFile'[q] = f
                         /\ \A h \in Goroutines : ~OpenerHas(h, q)'
                    /\ \A h \in Goroutines : OpenerHas(h, q)' =>
                         /\ q \notin freeDescs'
                         /\ npc'[h] \notin {"open", "throw"} => pdFile'[q] = file(h)'
                         /\ \A i \in Goroutines : OpenerHas(i, q)' => i = h
  BY DEF OwnInv
<1>13. ASSUME NEW f \in Files, FileHas(f, q)'
      PROVE  /\ q \notin freeDescs' /\ pdFile'[q] = f
             /\ \A h \in Goroutines : ~OpenerHas(h, q)'
  BY <1>6, <1>7, <1>8, <1>9, <1>11, <1>13 DEF OwnInv
<1>14. ASSUME NEW h \in Goroutines, OpenerHas(h, q)'
      PROVE  /\ q \notin freeDescs'
             /\ npc'[h] \notin {"open", "throw"} => pdFile'[q] = file(h)'
             /\ \A i \in Goroutines : OpenerHas(i, q)' => i = h
  <2>1. h # g \/ fpc[g] # "unpolled"
    BY <1>1, <1>4, <1>6, <1>14 DEF OpenerHas
  <2>2. h # g
    BY <1>2, <1>8, <1>14, <2>1 DEF OpenerHas
  <2>3. npc'[h] = npc[h]
    BY <1>1, <1>6, <2>2
  <2> QED BY <1>5, <1>6, <1>8, <1>10, <1>11, <1>14, <2>3 DEF OwnInv
<1> QED BY <1>13, <1>14

\* Goroutines park, and wait no more, by themselves.
LEMMA SleepHop ==
  ASSUME PollTypeOK, SleepInv, woken' = woken, NEW a \in Actors, NEW l, Hop(a, l),
         \A p \in PollDescs, m \in Modes :
           \/ sem'[p][m] = sem[p][m]
           \/ sem'[p][m] \notin Goroutines
           \/ sem'[p][m] = a /\ l = "parked" /\ npd[a] = p /\ mode(a) = m
  PROVE  SleepInv'
<1>1. npc'[a] = l /\ npd' = npd /\ npc[a] # "parked" /\ (l = "parked" => todo' = todo)
  BY HopFact DEF Hop, WaitPc
<1>2. \A b \in Actors \ {a} : npc'[b] = npc[b] /\ todo'[b] = todo[b]
  BY HopFact
<1>3. Goroutines \subseteq Actors
  BY DEF Actors
<1>4. \A g \in Goroutines : g # a => npc'[g] = npc[g] /\ mode(g)' = mode(g)
  BY <1>2, <1>3 DEF mode
<1>5. \A g \in Goroutines : npc[g] = "parked" => g # a
  BY <1>1
<1>6. ASSUME NEW p \in PollDescs, NEW m \in Modes, NEW g \in Goroutines, sem'[p][m] = g
      PROVE  npc'[g] = "parked" /\ npd'[g] = p /\ mode(g)' = m
  <2>1. CASE sem'[p][m] = sem[p][m]
    <3>1. npc[g] = "parked" /\ npd[g] = p /\ mode(g) = m
      BY <1>6, <2>1 DEF SleepInv
    <3> QED BY <1>1, <1>4, <1>5, <3>1
  <2>2. CASE g = a /\ l = "parked" /\ npd[a] = p /\ mode(a) = m
    BY <1>1, <2>2 DEF mode
  <2> QED BY <1>6, <2>1, <2>2
<1>7. ASSUME NEW b \in Actors, NEW g \in Goroutines, g \in woken'[b]
      PROVE  /\ npc'[g] = "parked" /\ \A p \in PollDescs, m \in Modes : sem'[p][m] # g
             /\ \A c \in Actors : g \in woken'[c] => c = b
  <2>1. /\ npc[g] = "parked" /\ \A p \in PollDescs, m \in Modes : sem[p][m] # g
        /\ \A c \in Actors : g \in woken[c] => c = b
    BY <1>7 DEF SleepInv
  <2>2. g # a
    BY <1>5, <2>1
  <2> QED BY <1>4, <2>1, <2>2
<1> QED BY <1>6, <1>7 DEF SleepInv

\* A goroutine is taken out of its descriptor by who will ready it.
LEMMA SleepUnblock ==
  ASSUME PollTypeOK, SleepInv, NEW a \in Actors, NEW l, Hop(a, l), l # "parked",
         NEW p \in PollDescs, NEW m \in Modes, NEW b \in BOOLEAN, NetpollUnblock(a, p, m, b)
  PROVE  SleepInv'
<1>1. npd' = npd /\ npc[a] # "parked" /\ npc'[a] = l
  BY HopFact
<1>2. \A c \in Actors \ {a} : npc'[c] = npc[c] /\ todo'[c] = todo[c]
  BY HopFact
<1>3. Goroutines \subseteq Actors /\ sem \in [PollDescs -> [Modes -> SemType]]
      /\ woken \in [Actors -> SUBSET Goroutines]
  BY DEF Actors, PollTypeOK
<1>4. \A g \in Goroutines : npc[g] = "parked" => npc'[g] = "parked" /\ npd'[g] = npd[g] /\ mode(g)' = mode(g)
  BY <1>1, <1>2, <1>3 DEF mode
<1>0. PICK u : u = Unblocked(sem[p][m], b)
  OBVIOUS
<1>5. PICK s \in SemType : s = sem[p][m] /\ u = Unblocked(s, b)
  BY <1>0, <1>3
<1>6. u \notin Goroutines
  BY <1>5, PollAssumption DEF Unblocked, SemType
<1>7. sem' = [sem EXCEPT ![p][m] = u] /\ woken' = [woken EXCEPT ![a] = @ \cup ({s} \cap Goroutines)]
  BY <1>5 DEF NetpollUnblock, SetSem, Waiter
<1>8. \A q \in PollDescs, n \in Modes : sem'[q][n] = sem[q][n] \/ (sem'[q][n] = u /\ q = p /\ n = m)
  BY <1>3, <1>7
<1>9. sem'[p][m] = u
  BY <1>3, <1>7
<1>10. \A c \in Actors : woken'[c] = woken[c] \/ (c = a /\ woken'[c] = woken[c] \cup ({s} \cap Goroutines))
  BY <1>3, <1>7
<1>11. ASSUME NEW q \in PollDescs, NEW n \in Modes, NEW g \in Goroutines, sem'[q][n] = g
      PROVE  npc'[g] = "parked" /\ npd'[g] = q /\ mode(g)' = n
  <2>1. sem[q][n] = g
    BY <1>6, <1>8, <1>11
  <2>2. npc[g] = "parked" /\ npd[g] = q /\ mode(g) = n
    BY <2>1 DEF SleepInv
  <2> QED BY <1>1, <1>4, <2>2
<1>12. ASSUME NEW c \in Actors, NEW g \in Goroutines, g \in woken'[c]
      PROVE  /\ npc'[g] = "parked" /\ \A q \in PollDescs, n \in Modes : sem'[q][n] # g
             /\ \A d \in Actors : g \in woken'[d] => d = c
  <2>1. CASE g = s
    <3>1. npc[g] = "parked" /\ npd[g] = p /\ mode(g) = m
      BY <1>5, <2>1 DEF SleepInv
    <3>2. \A d \in Actors : g \notin woken[d]
      BY <1>5, <2>1 DEF SleepInv
    <3>3. \A d \in Actors : g \in woken'[d] => d = a
      BY <1>10, <3>2
    <3>4. ASSUME NEW q \in PollDescs, NEW n \in Modes, sem'[q][n] = g
          PROVE  FALSE
      <4>1. sem[q][n] = g
        BY <1>6, <1>8, <3>4
      <4>2. q = p /\ n = m
        BY <3>1, <4>1 DEF SleepInv
      <4> QED BY <1>6, <1>9, <3>4, <4>2
    <3> QED BY <1>4, <1>12, <3>1, <3>3, <3>4
  <2>2. CASE g # s
    <3>1. \A d \in Actors : g \in woken'[d] => g \in woken[d]
      BY <1>10, <2>2
    <3>2. /\ npc[g] = "parked" /\ \A q \in PollDescs, n \in Modes : sem[q][n] # g
          /\ \A d \in Actors : g \in woken[d] => d = c
      BY <1>12, <3>1 DEF SleepInv
    <3>3. \A q \in PollDescs, n \in Modes : sem'[q][n] # g
      BY <1>6, <1>8, <3>2
    <3> QED BY <1>4, <3>1, <3>2, <3>3
  <2> QED BY <2>1, <2>2
<1> QED BY <1>11, <1>12 DEF SleepInv

LEMMA GoreadyFacts ==
  ASSUME PollTypeOK, SleepInv, NEW a \in Actors, NetpollGoready(a)
  PROVE  /\ npc[a] = "ready" /\ npd' = npd /\ todo' = todo /\ sem' = sem
         /\ a \notin Goroutines \/ a \notin woken[a]
         /\ npc'[a] = "idle" \/ a \in woken[a]
         /\ \A b \in Actors \ {a} : npc'[b] = IF b \in woken[a] THEN "resume" ELSE npc[b]
         /\ \A g \in Goroutines : g \in woken[a] => npc[g] = "parked" /\ npc'[g] = "resume"
         /\ \A g \in Goroutines : g \notin woken[a] /\ g # a => npc'[g] = npc[g]
         /\ woken'[a] = {} /\ \A b \in Actors \ {a} : woken'[b] = woken[b]
<1>1. /\ npc' = [b \in Actors |-> IF b \in woken[a] THEN "resume"
                                  ELSE IF b = a THEN "idle" ELSE npc[b]]
      /\ woken' = [woken EXCEPT ![a] = {}] /\ npc[a] = "ready" /\ npd' = npd /\ todo' = todo /\ sem' = sem
  BY DEF NetpollGoready, descVars
<1>2. \A g \in Goroutines : g \in woken[a] => npc[g] = "parked"
  BY DEF SleepInv
<1>3. Goroutines \subseteq Actors /\ woken \in [Actors -> SUBSET Goroutines]
  BY DEF Actors, PollTypeOK
<1>4. a \notin woken[a]
  BY <1>1, <1>2, <1>3
<1> QED BY <1>1, <1>2, <1>3, <1>4

LEMMA DescGoready ==
  ASSUME PollTypeOK, CallInv, OwnInv, SleepInv, EdgeInv, UNCHANGED fdVars, NEW a \in Actors, NetpollGoready(a)
  PROVE  CallInv' /\ OwnInv' /\ SleepInv' /\ EdgeInv'
<1>1. /\ npc[a] = "ready" /\ npd' = npd /\ todo' = todo /\ sem' = sem /\ a \notin woken[a]
      /\ npc'[a] = "idle" /\ woken'[a] = {}
  <2>1. a \notin woken[a]
    BY GoreadyFacts DEF PollTypeOK
  <2> QED BY <2>1, GoreadyFacts
<1>2. /\ \A g \in Goroutines : g \in woken[a] => npc[g] = "parked" /\ npc'[g] = "resume"
      /\ \A g \in Goroutines : g \notin woken[a] /\ g # a => npc'[g] = npc[g]
      /\ \A b \in Actors \ {a} : woken'[b] = woken[b]
  BY GoreadyFacts
<1>3. /\ Goroutines \subseteq Actors /\ TimerProcs \subseteq Actors /\ Pollers \subseteq Actors
      /\ Goroutines \cap (TimerProcs \cup Pollers) = {} /\ woken[a] \subseteq Goroutines
  BY PollAssumption DEF Actors, PollTypeOK
<1>4. \A b \in Actors : b \notin Goroutines => npc'[b] \in {npc[b], "idle"}
  BY <1>1, <1>3, GoreadyFacts
<1>5. UNCHANGED <<fpc, op, ctx>>
  BY DEF fdVars
<1>6. CallInv'
  <2>1. ASSUME NEW g \in Goroutines, npc'[g] # "idle"
        PROVE  /\ InPoll(g)' \/ (npc'[g] = "throw" /\ fpc'[g] \in PollingPc)
               /\ fpc'[g] \notin OpenPc => Pollable(file(g))' /\ npd'[g] = ctx'[file(g)']
    <3>1. file(g)' = file(g) /\ ioMode(g)' = ioMode(g) /\ (Pollable(file(g))' <=> Pollable(file(g)))
      BY <1>5 DEF file, ioMode, Pollable
    <3>2. npc[g] # "idle" /\ (npc'[g] = npc[g] \/ (npc[g] = "parked" /\ npc'[g] = "resume"))
      BY <1>1, <1>2, <2>1
    <3>3. /\ InPoll(g) \/ (npc[g] = "throw" /\ fpc[g] \in PollingPc)
          /\ fpc[g] \notin OpenPc => Pollable(file(g)) /\ npd[g] = ctx[file(g)]
      BY <3>2 DEF CallInv
    <3>4. InPoll(g) => InPoll(g)'
      BY <1>1, <1>5, <3>1, <3>2 DEF InPoll, WaitPc
    <3> QED BY <1>1, <1>5, <3>1, <3>2, <3>3, <3>4
  <2>2. /\ \A t \in TimerProcs : npc'[t] \in {"idle", "deadline", "expire", "unblock", "ready", "throw"}
        /\ \A n \in Pollers : npc'[n] \in {"idle", "events", "ready"}
    BY <1>3, <1>4 DEF CallInv
  <2> QED BY <2>1, <2>2 DEF CallInv
<1>7. OwnInv'
  <2>1. ASSUME NEW g \in Goroutines
        PROVE  /\ npc[g] = "idle" => npc'[g] = "idle"
               /\ npd'[g] = npd[g]
               /\ npc[g] \in {"open", "throw"} => npc'[g] \in {"open", "throw"}
    BY <1>1, <1>2
  <2>2. pdFile' = pdFile /\ freeDescs' = freeDescs
    BY DEF NetpollGoready, descVars
  <2> QED BY <2>1, <2>2, OwnPoll
<1>8. SleepInv'
  <2>0. \A g \in Goroutines : mode(g)' = mode(g)
    BY <1>1 DEF mode
  <2>1. ASSUME NEW p \in PollDescs, NEW m \in Modes, NEW g \in Goroutines, sem'[p][m] = g
        PROVE  npc'[g] = "parked" /\ npd'[g] = p /\ mode(g)' = m
    <3>1. npc[g] = "parked" /\ npd[g] = p /\ mode(g) = m /\ g \notin woken[a]
      BY <1>1, <2>1 DEF SleepInv
    <3> QED BY <1>1, <1>2, <2>0, <3>1
  <2>2. ASSUME NEW b \in Actors, NEW g \in Goroutines, g \in woken'[b]
        PROVE  /\ npc'[g] = "parked" /\ \A p \in PollDescs, m \in Modes : sem'[p][m] # g
               /\ \A c \in Actors : g \in woken'[c] => c = b
    <3>1. b # a /\ g \in woken[b]
      BY <1>1, <1>2, <2>2
    <3>2. /\ npc[g] = "parked" /\ \A p \in PollDescs, m \in Modes : sem[p][m] # g
          /\ \A c \in Actors : g \in woken[c] => c = b
      BY <3>1 DEF SleepInv
    <3>3. g \notin woken[a] /\ g # a
      BY <1>1, <3>1, <3>2
    <3>4. \A c \in Actors : g \in woken'[c] => g \in woken[c]
      BY <1>1, <1>2
    <3> QED BY <1>1, <1>2, <3>2, <3>3, <3>4
  <2> QED BY <2>1, <2>2 DEF SleepInv
<1>9. EdgeInv'
  BY DEF NetpollGoready, kernelVars, EdgeInv
<1> QED BY <1>6, <1>7, <1>8, <1>9

LEMMA DescFires ==
  ASSUME PollTypeOK, CallInv, OwnInv, SleepInv, EdgeInv, UNCHANGED fdVars, NEW t \in TimerProcs, TimerFires(t)
  PROVE  CallInv' /\ OwnInv' /\ SleepInv' /\ EdgeInv'
<1>1. PICK p \in PollDescs, m \in Modes :
        /\ npc' = [npc EXCEPT ![t] = "deadline"] /\ npd' = [npd EXCEPT ![t] = p]
        /\ todo' = [todo EXCEPT ![t] = timer[p][m].f]
  BY DEF TimerFires
<1>2. /\ Goroutines \subseteq Actors /\ TimerProcs \subseteq Actors /\ Pollers \subseteq Actors
      /\ t \notin Goroutines /\ t \notin Pollers /\ DOMAIN npc = Actors
      /\ npd \in [Actors -> PollDescs] /\ todo \in [Actors -> SUBSET Modes]
  BY PollAssumption DEF Actors, PollTypeOK, ControlOK
<1>3. /\ npc'[t] = "deadline"
      /\ \A b \in Actors \ {t} : npc'[b] = npc[b] /\ npd'[b] = npd[b] /\ todo'[b] = todo[b]
  BY <1>1, <1>2
<1>4. UNCHANGED <<fpc, op, ctx, pdFile, freeDescs, sem, woken, epoll, events>>
  BY DEF fdVars, TimerFires, kernelVars
<1>5. \A g \in Goroutines : npc'[g] = npc[g] /\ npd'[g] = npd[g] /\ todo'[g] = todo[g] /\ file(g)' = file(g)
                            /\ ioMode(g)' = ioMode(g) /\ (Pollable(file(g))' <=> Pollable(file(g)))
  BY <1>2, <1>3, <1>4 DEF file, ioMode, Pollable
<1>6. CallInv'
  <2>1. \A g \in Goroutines : InPoll(g)' <=> InPoll(g)
    BY <1>4, <1>5 DEF InPoll
  <2>2. \A g \in Goroutines : npc'[g] # "idle" =>
             /\ InPoll(g)' \/ (npc'[g] = "throw" /\ fpc'[g] \in PollingPc)
             /\ fpc'[g] \notin OpenPc => Pollable(file(g))' /\ npd'[g] = ctx'[file(g)']
    BY <1>4, <1>5, <2>1 DEF CallInv
  <2>3. \A u \in TimerProcs : npc'[u] \in {"idle", "deadline", "expire", "unblock", "ready", "throw"}
    BY <1>2, <1>3 DEF CallInv
  <2>4. \A n \in Pollers : npc'[n] \in {"idle", "events", "ready"}
    BY <1>2, <1>3 DEF CallInv
  <2> QED BY <2>2, <2>3, <2>4 DEF CallInv
<1>7. OwnInv'
  BY <1>4, <1>5, OwnPoll
<1>8. SleepInv'
  BY <1>4, <1>5, SleepKeeps
<1> QED BY <1>4, <1>6, <1>7, <1>8 DEF EdgeInv

LEMMA DescWait ==
  ASSUME PollTypeOK, CallInv, OwnInv, SleepInv, EdgeInv, UNCHANGED fdVars, NEW g \in Goroutines,
         PollReset(g) \/ PollResetStore(g) \/ PollWait(g) \/ NetpollBlock(g) \/ NetpollRecheck(g)
           \/ NetpollBlockCommit(g) \/ NetpollResume(g)
  PROVE  CallInv' /\ OwnInv' /\ SleepInv' /\ EdgeInv'
<1>1. PICK l : Hop(g, l) /\ npc[g] \in WaitPc
  BY WaitHops
<1>2. g \in Actors /\ npc[g] # "open" /\ npd[g] \in PollDescs
  BY <1>1 DEF Actors, WaitPc, PollTypeOK, ControlOK
<1>3. UNCHANGED <<pdFile, freeDescs, woken, epoll, events>>
  BY DEF PollReset, PollResetStore, PollWait, NetpollBlock, NetpollRecheck, NetpollBlockCommit,
         NetpollResume, descVars, kernelVars
<1>4. l = npc'[g]
  BY <1>1, <1>2, HopFact
<1>5. /\ sem \in [PollDescs -> [Modes -> SemType]] /\ DOMAIN npc = Actors
      /\ "nil" \notin Goroutines /\ "wait" \notin Goroutines
  BY PollAssumption DEF PollTypeOK, ControlOK
<1>6. ASSUME NEW p \in PollDescs, NEW m \in Modes
      PROVE  \/ sem'[p][m] = sem[p][m]
             \/ sem'[p][m] \notin Goroutines
             \/ sem'[p][m] = g /\ l = "parked" /\ npd[g] = p /\ mode(g) = m
  <2>1. CASE PollReset(g) \/ PollWait(g) \/ NetpollRecheck(g)
    BY <2>1 DEF PollReset, PollWait, NetpollRecheck, descVars
  <2>2. CASE PollResetStore(g) \/ NetpollResume(g)
    BY <1>5, <2>2 DEF PollResetStore, NetpollResume, SetSem
  <2>3. CASE NetpollBlock(g)
    BY <1>5, <2>3 DEF NetpollBlock, SetSem
  <2>4. CASE NetpollBlockCommit(g)
    <3>1. \/ sem' = sem
          \/ sem' = [sem EXCEPT ![npd[g]][mode(g)] = g] /\ npc'[g] = "parked"
      BY <1>2, <1>5, <2>4 DEF NetpollBlockCommit, SetSem, NGoto
    <3> QED BY <1>4, <1>5, <3>1
  <2> QED BY <2>1, <2>2, <2>3, <2>4
<1>7. CallInv' /\ OwnInv'
  BY <1>1, <1>2, <1>3, CallHop, OwnHop
<1>8. SleepInv'
  BY <1>1, <1>2, <1>3, <1>6, SleepHop
<1> QED BY <1>3, <1>7, <1>8 DEF EdgeInv

LEMMA DescLife ==
  ASSUME FDInv, PollTypeOK, LifeInv, CallInv, OwnInv, SleepInv, EdgeInv, UNCHANGED fdVars, NEW g \in Goroutines,
         PollOpenReset(g, file(g)) \/ PollSetDeadline(g) \/ PollUnblock(g) \/ PollOpenRegister(g)
           \/ PollClose(g) \/ PollFree(g)
  PROVE  CallInv' /\ OwnInv' /\ SleepInv' /\ EdgeInv'
<1>1. PICK l : Hop(g, l) /\ npc[g] \notin WaitPc
  BY LifeHops
<1>2. g \in Actors /\ npd[g] \in PollDescs
  BY DEF Actors, PollTypeOK, ControlOK
<1>3. CallInv'
  BY <1>1, <1>2, CallHop
<1>4. OwnInv'
  <2>1. CASE PollOpenReset(g, file(g))
    BY <2>1, OwnOpenReset
  <2>2. CASE PollFree(g)
    BY <2>2, OwnFree
  <2>3. CASE PollSetDeadline(g) \/ PollUnblock(g) \/ PollOpenRegister(g) \/ PollClose(g)
    <3>1. npc[g] # "open" /\ pdFile' = pdFile /\ freeDescs' = freeDescs
      BY <2>3 DEF PollSetDeadline, PollUnblock, PollOpenRegister, PollClose, descVars
    <3> QED BY <1>1, <1>2, <3>1, OwnHop
  <2> QED BY <2>1, <2>2, <2>3
<1>5. woken' = woken
  BY DEF PollOpenReset, PollSetDeadline, PollUnblock, PollOpenRegister, PollClose, PollFree
<1>6. SleepInv'
  <2>1. sem \in [PollDescs -> [Modes -> SemType]] /\ "nil" \notin Goroutines
    BY PollAssumption DEF PollTypeOK
  <2>2. \/ sem' = sem
        \/ sem' = [sem EXCEPT ![npd[g]] = [m \in Modes |-> "nil"]]
    BY DEF PollOpenReset, PollSetDeadline, PollUnblock, PollOpenRegister, PollClose, PollFree, descVars
  <2>3. \A p \in PollDescs, m \in Modes : sem'[p][m] = sem[p][m] \/ sem'[p][m] = "nil"
    BY <2>1, <2>2
  <2> QED BY <1>1, <1>2, <1>5, <2>1, <2>3, SleepHop
<1>7. events' = events
  BY DEF PollOpenReset, PollSetDeadline, PollUnblock, PollOpenRegister, PollClose, PollFree
<1>8. epoll' \subseteq Edges
  <2>1. CASE PollOpenRegister(g)
    <3>1. npc[g] = "register"
      BY <2>1 DEF PollOpenRegister
    <3>2. fpc[g] = "opening"
      BY <3>1 DEF CallInv, InPoll, WaitPc
    <3>3. pdFile[npd[g]] = file(g)
      <4>1. OpenerHas(g, npd[g])
        BY <3>2 DEF OpenerHas
      <4> QED BY <1>2, <3>1, <4>1 DEF OwnInv
    <3>4. file(g) \in Files
      BY <3>2, CallFacts
    <3>5. PICK p \in PollDescs, f \in Files : p = npd[g] /\ f = pdFile[p]
      BY <1>2, <3>3, <3>4
    <3>6. epoll' = epoll \/ epoll' = epoll \cup {Edge(p, m, f) : m \in readable[f]}
      BY <2>1, <3>5 DEF PollOpenRegister
    <3>7. readable[f] \subseteq Modes
      BY DEF PollTypeOK
    <3> QED BY <3>6, <3>7 DEF EdgeInv, Edges, Edge
  <2>2. CASE PollClose(g)
    <3>1. epoll' \subseteq epoll
      BY <2>2 DEF PollClose
    <3> QED BY <3>1 DEF EdgeInv
  <2>3. CASE PollOpenReset(g, file(g)) \/ PollSetDeadline(g) \/ PollUnblock(g) \/ PollFree(g)
    BY <2>3 DEF PollOpenReset, PollSetDeadline, PollUnblock, PollFree, kernelVars, EdgeInv
  <2> QED BY <2>1, <2>2, <2>3
<1> QED BY <1>3, <1>4, <1>6, <1>7, <1>8 DEF EdgeInv

LEMMA DescUnblock ==
  ASSUME PollTypeOK, CallInv, OwnInv, SleepInv, EdgeInv, UNCHANGED fdVars, NEW a \in Actors, Unblock(a)
  PROVE  CallInv' /\ OwnInv' /\ SleepInv' /\ EdgeInv'
<1>1. a \in TimerProcs => npc[a] # "evict2"
  BY DEF CallInv
<1>2. PICK l : Hop(a, l) /\ npc[a] \in {"unblock", "evict2"} /\ l \in {"unblock", "evict2", "expire", "ready"}
  BY <1>1, UnblockHops
<1>3. npd[a] \in PollDescs /\ mode(a) \in Modes
  BY ModeFact DEF PollTypeOK, ControlOK
<1>4. NetpollUnblock(a, npd[a], mode(a), FALSE) /\ UNCHANGED <<pdFile, freeDescs, epoll, events>>
  BY DEF Unblock, kernelVars
<1>5. SleepInv'
  BY <1>2, <1>3, <1>4, SleepUnblock
<1> QED BY <1>2, <1>4, <1>5, CallHop, OwnHop DEF EdgeInv

LEMMA DescTimer ==
  ASSUME PollTypeOK, CallInv, OwnInv, SleepInv, EdgeInv, UNCHANGED fdVars, NEW t \in TimerProcs,
         DeadlineImpl(t) \/ Expire(t)
  PROVE  CallInv' /\ OwnInv' /\ SleepInv' /\ EdgeInv'
<1>1. PICK l : Hop(t, l) /\ npc[t] \in {"deadline", "expire"}
  BY TimerHops
<1>2. t \in Actors
  BY DEF Actors
<1>3. UNCHANGED <<pdFile, freeDescs, sem, woken, epoll, events>>
  BY DEF DeadlineImpl, Expire, kernelVars
<1>4. SleepInv'
  BY <1>1, <1>2, <1>3, SleepHop
<1> QED BY <1>1, <1>2, <1>3, <1>4, CallHop, OwnHop DEF EdgeInv

LEMMA DescPoller ==
  ASSUME PollTypeOK, CallInv, OwnInv, SleepInv, EdgeInv, UNCHANGED fdVars, NEW n \in Pollers,
         EpollWait(n) \/ NetpollReady(n)
  PROVE  CallInv' /\ OwnInv' /\ SleepInv' /\ EdgeInv'
<1>1. PICK l : Hop(n, l) /\ npc[n] \in {"idle", "events"}
  BY PollerHops
<1>2. n \in Actors /\ DOMAIN events = Pollers
  BY DEF Actors, PollTypeOK
<1>3. UNCHANGED <<pdFile, freeDescs>>
  BY DEF EpollWait, NetpollReady, descVars
<1>4. CallInv' /\ OwnInv'
  BY <1>1, <1>2, <1>3, CallHop, OwnHop
<1>5. CASE EpollWait(n)
  <2>1. /\ events' = [events EXCEPT ![n] = epoll] /\ epoll' = {} /\ UNCHANGED <<sem, woken>>
    BY <1>5 DEF EpollWait, descVars
  <2>2. SleepInv'
    BY <1>1, <1>2, <2>1, SleepHop
  <2>3. EdgeInv'
    BY <1>2, <2>1 DEF EdgeInv
  <2> QED BY <1>4, <2>2, <2>3
<1>6. CASE NetpollReady(n)
  <2>1. PICK e \in events[n] : /\ NetpollUnblock(n, e.pd, e.mode, TRUE)
                               /\ events' = [events EXCEPT ![n] = @ \ {e}]
    BY <1>6 DEF NetpollReady
  <2>2. e.pd \in PollDescs /\ e.mode \in Modes
    BY DEF EdgeInv, Edges
  <2>3. l # "parked"
    BY <1>1 DEF Hop, Trans
  <2>4. SleepInv'
    BY <1>1, <1>2, <2>1, <2>2, <2>3, SleepUnblock
  <2>5. epoll' = epoll
    BY <1>6 DEF NetpollReady, kernelVars
  <2>6. EdgeInv'
    BY <1>2, <2>1, <2>5 DEF EdgeInv
  <2> QED BY <1>4, <2>4, <2>6
<1> QED BY <1>5, <1>6


LEMMA DescCallNext ==
  ASSUME DescInv, NEW g \in Goroutines, CallNext(g)
  PROVE  CallInv' /\ OwnInv' /\ SleepInv' /\ EdgeInv'
<1>1. PICK o \in Op : /\ fpc[g] = "idle" /\ fpc' = [fpc EXCEPT ![g] = FirstPc[o.kind]]
                      /\ op' = [op EXCEPT ![g] = o]
  BY CallNextFact DEF DescInv
<1>2. PICK l \in {"open", "rwlock", "incref", "close"} : l = FirstPc[o.kind]
  <2>1. o.kind \in {"open", "io", "setdeadline", "misc", "close"}
    BY DEF Op
  <2> QED BY <2>1 DEF FirstPc
<1>3. UNCHANGED <<ctx, pdFile, freeDescs, npc, npd, todo, sem, woken, epoll, events>>
  BY DEF CallNext, Invoke, fileVars, pollVars
<1>4. /\ fpc'[g] = l
      /\ \A h \in Goroutines \ {g} : fpc'[h] = fpc[h] /\ op'[h] = op[h] /\ file(h)' = file(h)
                                     /\ ioMode(h)' = ioMode(h)
  BY <1>1, <1>2 DEF DescInv, FDInv, FDTypeOK, file, ioMode
<1>5. npc[g] = "idle"
  BY <1>1 DEF DescInv, CallInv, InPoll, PollingPc
<1>6. CallInv'
  <2>1. ASSUME NEW h \in Goroutines, npc'[h] # "idle"
        PROVE  /\ InPoll(h)' \/ (npc'[h] = "throw" /\ fpc'[h] \in PollingPc)
               /\ fpc'[h] \notin OpenPc => Pollable(file(h))' /\ npd'[h] = ctx'[file(h)']
    <3>1. h # g /\ npc[h] # "idle"
      BY <1>3, <1>5, <2>1
    <3>2. InPoll(h)' <=> InPoll(h)
      BY <1>3, <1>4, <3>1 DEF InPoll
    <3> QED BY <1>3, <1>4, <3>1, <3>2 DEF DescInv, CallInv, Pollable
  <2>2. /\ \A t \in TimerProcs : npc'[t] \in {"idle", "deadline", "expire", "unblock", "ready", "throw"}
        /\ \A n \in Pollers : npc'[n] \in {"idle", "events", "ready"}
    BY <1>3 DEF DescInv, CallInv
  <2> QED BY <2>1, <2>2 DEF CallInv
<1>7. OwnInv'
  <2>1. ASSUME NEW f \in Files, NEW p \in PollDescs, FileHas(f, p)'
        PROVE  FileHas(f, p)
    <3>1. \A h \in Goroutines : fpc[h] = "closefunc" => h # g
      BY <1>1
    <3> QED BY <1>3, <1>4, <2>1, <3>1 DEF FileHas, Keeps
  <2>2. ASSUME NEW h \in Goroutines, NEW p \in PollDescs, OpenerHas(h, p)'
        PROVE  OpenerHas(h, p) /\ file(h)' = file(h)
    <3>1. h # g
      BY <1>2, <1>4, <2>2 DEF OpenerHas
    <3> QED BY <1>3, <1>4, <2>2, <3>1 DEF OpenerHas
  <2> QED BY <1>3, <2>1, <2>2, OwnKeeps DEF DescInv
<1>8. SleepInv'
  BY <1>3, SleepKeeps DEF DescInv
<1> QED BY <1>3, <1>6, <1>7, <1>8 DEF DescInv, EdgeInv

LEMMA DescStays ==
  ASSUME CallInv, OwnInv, SleepInv, UNCHANGED fdVars,
         UNCHANGED <<pdFile, sem, freeDescs, npc, npd, todo, woken>>
  PROVE  CallInv' /\ OwnInv' /\ SleepInv'
<1>1. UNCHANGED <<fpc, op, ctx>>
  BY DEF fdVars
<1>2. \A g \in Goroutines : /\ file(g)' = file(g) /\ (Pollable(file(g))' <=> Pollable(file(g)))
                            /\ InPoll(g)' <=> InPoll(g)
  BY <1>1 DEF file, Pollable, InPoll, ioMode
<1>3. CallInv'
  BY <1>1, <1>2 DEF CallInv
<1>4. OwnInv'
  BY OwnPoll
<1>5. SleepInv'
  BY SleepKeeps
<1> QED BY <1>3, <1>4, <1>5

LEMMA NextKeepsDesc ==
  ASSUME DescInv, [Next]_vars
  PROVE  DescInv'
<1> USE DEF DescInv
<1>1. FDInv' /\ PollTypeOK'
  BY NextKeepsWords
<1>2. ASSUME NEW g \in Goroutines, CallNext(g)
      PROVE  DescInv'
  <2>1. LifeInv'
    BY <1>2, LifeCallNext
  <2>2. CallInv' /\ OwnInv' /\ SleepInv' /\ EdgeInv'
    BY <1>2, DescCallNext
  <2> QED BY <1>1, <2>1, <2>2
<1>3. ASSUME UNCHANGED fdVars, program'.calls = program.calls
      PROVE  LifeInv'
  BY <1>3, LifeStays DEF fdVars
<1>4. ASSUME NEW g \in Goroutines, Run(g)
      PROVE  DescInv'
  <2>1. CASE FDStep(g)
    <3>1. LifeInv'
      BY <1>1, <1>4, <2>1, LifeSteps, LifeKeeps DEF Run
    <3> QED BY <1>1, <2>1, <3>1, CallStep, OwnStep, SleepStep
  <2>2. CASE GoroutineInPoll(g, file(g)) /\ UNCHANGED <<semaphoreVars, fdVars>>
    <3>1. g \in Actors /\ UNCHANGED fdVars /\ program' = program
      BY <1>4, <2>2 DEF Actors, Run
    <3>2. LifeInv'
      BY <1>3, <3>1
    <3>3. CASE \/ PollReset(g) \/ PollResetStore(g)
               \/ PollWait(g) \/ NetpollBlock(g) \/ NetpollRecheck(g) \/ NetpollBlockCommit(g)
               \/ NetpollResume(g)
      BY <1>1, <3>1, <3>2, <3>3, DescWait
    <3>4. CASE \/ PollOpenReset(g, file(g)) \/ PollSetDeadline(g) \/ PollUnblock(g) \/ PollOpenRegister(g)
               \/ PollClose(g) \/ PollFree(g)
      BY <1>1, <3>1, <3>2, <3>4, DescLife
    <3>5. CASE Unblock(g) \/ NetpollGoready(g)
      BY <1>1, <3>1, <3>2, <3>5, DescUnblock, DescGoready
    <3> QED BY <2>2, <3>3, <3>4, <3>5 DEF GoroutineInPoll
  <2> QED BY <1>4, <2>1, <2>2 DEF Run
<1>5. ASSUME NEW t \in TimerProcs, Fire(t) \/ RunTimer(t)
      PROVE  DescInv'
  <2>1. t \in Actors /\ UNCHANGED fdVars /\ program' = program
    BY <1>5 DEF Actors, Fire, RunTimer
  <2>2. LifeInv'
    BY <1>3, <2>1
  <2>3. CASE TimerFires(t)
    BY <1>1, <2>1, <2>2, <2>3, DescFires
  <2>4. CASE DeadlineImpl(t) \/ Expire(t)
    BY <1>1, <2>1, <2>2, <2>4, DescTimer
  <2>5. CASE Unblock(t) \/ NetpollGoready(t)
    BY <1>1, <2>1, <2>2, <2>5, DescUnblock, DescGoready
  <2> QED BY <1>5, <2>3, <2>4, <2>5 DEF Fire, RunTimer, TimerProcStep
<1>6. ASSUME NEW n \in Pollers, RunPoller(n)
      PROVE  DescInv'
  <2>1. n \in Actors /\ UNCHANGED fdVars /\ program' = program
    BY <1>6 DEF Actors, RunPoller
  <2>2. LifeInv'
    BY <1>3, <2>1
  <2>3. CASE EpollWait(n) \/ NetpollReady(n)
    BY <1>1, <2>1, <2>2, <2>3, DescPoller
  <2>4. CASE NetpollGoready(n)
    BY <1>1, <2>1, <2>2, <2>4, DescGoready
  <2> QED BY <1>6, <2>3, <2>4 DEF RunPoller, PollerStep
<1>7. ASSUME NEW f \in Files, NEW m \in Modes, Ready(f, m)
      PROVE  DescInv'
  <2>1. UNCHANGED fdVars /\ UNCHANGED <<pdFile, sem, freeDescs, npc, npd, todo, woken, events, registered>>
    BY <1>7 DEF Ready, BecomesReady, descVars, callVars
  <2>2. program'.calls = program.calls
    BY <1>7 DEF Ready, FDInv, FDTypeOK
  <2>3. epoll' \subseteq Edges
    <3>1. epoll' = epoll \cup {Edge(p, m, f) : p \in {registered[f]} \cap PollDescs}
      BY <1>7 DEF Ready, BecomesReady
    <3> QED BY <3>1 DEF EdgeInv, Edges, Edge
  <2>4. LifeInv'
    BY <1>3, <2>1, <2>2
  <2>5. EdgeInv'
    BY <2>1, <2>3 DEF EdgeInv
  <2> QED BY <1>1, <2>1, <2>4, <2>5, DescStays
<1>8. CASE UNCHANGED vars
  <2>1. /\ UNCHANGED fdVars /\ program' = program
        /\ UNCHANGED <<pdFile, sem, freeDescs, npc, npd, todo, woken, events, epoll>>
    BY <1>8 DEF vars, pollVars
  <2>2. LifeInv'
    BY <1>3, <2>1
  <2> QED BY <1>1, <2>1, <2>2, DescStays DEF EdgeInv
<1> QED BY <1>2, <1>4, <1>5, <1>6, <1>7, <1>8 DEF Next

LEMMA InitDesc ==
  ASSUME Init
  PROVE  DescInv
<1>1. FDInv /\ PollTypeOK
  BY InitWords
<1>2. /\ \A g \in Goroutines : fpc[g] = "idle"
      /\ \A f \in Files : ctx[f] = Nobody /\ sysfd[f] = "none"
      /\ \A f \in Files : ~fdmu[f].closed
  BY DEF Init, FDInit, NewWord
<1>3. /\ \A a \in Actors : npc[a] = "idle" /\ woken[a] = {}
      /\ \A p \in PollDescs, m \in Modes : sem[p][m] = "nil"
      /\ epoll = {} /\ \A n \in Pollers : events[n] = {}
  BY DEF Init, PollInit
<1>4. OpenedOnce(program.calls)
  BY ProgramsAssumption DEF Init
<1>5. LifeInv
  <2>1. OpenInv
    BY <1>2, <1>4 DEF OpenInv, OpenPc
  <2>2. DestroyInv /\ CloserInv
    BY <1>2 DEF DestroyInv, CloserInv, Closer, DestroyPc
  <2> QED BY <2>1, <2>2 DEF LifeInv
<1>6. CallInv
  BY <1>3 DEF CallInv, Actors
<1>7. OwnInv
  <2>1. \A f \in Files, p \in PollDescs : ~FileHas(f, p)
    BY <1>2, PollAssumption DEF FileHas
  <2>2. \A g \in Goroutines, p \in PollDescs : ~OpenerHas(g, p)
    BY <1>2 DEF OpenerHas
  <2> QED BY <2>1, <2>2 DEF OwnInv
<1>8. SleepInv /\ EdgeInv
  BY <1>3, PollAssumption DEF SleepInv, EdgeInv
<1> QED BY <1>1, <1>5, <1>6, <1>7, <1>8 DEF DescInv

LEMMA AtMostOne ==
  ASSUME NEW S, \A x, y \in S : x = y
  PROVE  Cardinality(S) <= 1
<1>1. CASE S = {}
  <2>1. Cardinality(S) = 0
    BY <1>1, FS_EmptySet
  <2> QED BY <2>1
<1>2. CASE S # {}
  <2>1. PICK x : x \in S
    BY <1>2
  <2>2. S = {x}
    BY <2>1
  <2>3. Cardinality({x}) = 1
    BY FS_Singleton
  <2>4. Cardinality(S) = 1
    BY <2>2, <2>3
  <2> QED BY <2>4
<1> QED BY <1>1, <1>2

LEMMA DescInvIsTrue ==
  ASSUME DescInv
  PROVE  DescriptorHeld
<1> USE DEF DescInv
<1>1. ASSUME NEW g \in Goroutines, fpc[g] \in ReferencePc
      PROVE  /\ sysfd[file(g)] = "open"
             /\ Pollable(file(g)) => /\ pdFile[ctx[file(g)]] = file(g)
                                     /\ ctx[file(g)] \notin freeDescs
                                     /\ npc[g] # "idle" => npd[g] = ctx[file(g)]
  <2>1. fpc[g] # "idle" /\ fpc[g] \notin OpenPc
    BY <1>1 DEF ReferencePc, LockedPc, OpenPc
  <2>2. PICK f \in Files : f = file(g) /\ fdmu[f].refs # 0
    BY <1>1, <2>1, Here
  <2>3. sysfd[f] = "open"
    BY <2>1, <2>2 DEF LifeInv, OpenInv, FDInv, FDTypeOK
  <2>4. Keeps(f)
    BY <2>2 DEF Keeps, LifeInv, DestroyInv, DestroyPc
  <2>5. ASSUME Pollable(f)
        PROVE  pdFile[ctx[f]] = f /\ ctx[f] \notin freeDescs
    <3>1. ctx[f] \in PollDescs
      BY <2>5 DEF FDInv, FDTypeOK, Pollable
    <3> QED BY <2>4, <3>1 DEF FileHas, OwnInv
  <2>6. npc[g] # "idle" => npd[g] = ctx[f]
    BY <2>1, <2>2 DEF CallInv
  <2> QED BY <2>2, <2>3, <2>5, <2>6
<1>2. ASSUME NEW f \in Files
      PROVE  Cardinality(On(f, {"destroy", "closefunc", "csignal"})) <= 1
  <2>1. \A g, h \in On(f, {"destroy", "closefunc", "csignal"}) : g = h
    BY DEF On, LifeInv, DestroyInv, DestroyPc
  <2>2. PICK S : S = On(f, {"destroy", "closefunc", "csignal"})
    OBVIOUS
  <2>3. Cardinality(S) <= 1
    BY <2>1, <2>2, AtMostOne
  <2> QED BY <2>2, <2>3
<1> QED BY <1>1, <1>2 DEF DescriptorHeld

\* While a call holds a reference, the system descriptor is open and the poll
\* descriptor is the file's own (fd_mutex.go:41-45); one call destroys the file.
THEOREM FDDescriptorHeld == Spec => []DescriptorHeld
<1>1. Init => DescInv
  BY InitDesc
<1>2. DescInv /\ [Next]_vars => DescInv'
  BY NextKeepsDesc
<1>3. DescInv => DescriptorHeld
  BY DescInvIsTrue
<1> QED BY <1>1, <1>2, <1>3, PTL DEF Spec

-----------------------------------------------------------------------------
(* The poller does not throw.                                              *)

\* Who is in the middle of its work on a descriptor holds the lock.
Holding(a) == npc[a] \in {"unblock", "evict2", "expire"}
LockInv == \A a \in Actors : Holding(a) => pdLock[npd[a]] = a

\* A descriptor that expects a goroutine to park has one that is about to.
WaitingPc == {"recheck", "commit", "resume"}
WaitInv ==
  \A p \in PollDescs, m \in Modes : sem[p][m] = "wait" =>
    \E g \in Goroutines : npc[g] \in WaitingPc /\ npd[g] = p /\ mode(g) = m

\* A descriptor is closing once its file is closed and evicted.
Evicting(g) == fpc[g] = "release" \/ (fpc[g] = "decref" /\ npc[g] = "evict")
Evicted(f) == fdmu[f].closed /\ \A g \in Goroutines : file(g) = f => ~Evicting(g)
OpenEvicted(g) == fpc[g] = "unpolled" \/ (fpc[g] = "unpoll" /\ npc[g] # "evict")

ClosingInv ==
  \A p \in PollDescs :
    /\ \A f \in Files : FileHas(f, p) => (closing[p] <=> Evicted(f))
    /\ \A g \in Goroutines : OpenerHas(g, p) /\ npc[g] # "open" => (closing[p] <=> OpenEvicted(g))

\* The timers that count: armed since the deadlines were set last, taken out of
\* the bucket, or at work.
Armed(p, n) == timer[p][n].armed /\ timer[p][n].seq = seq[p]
ArmedFor(p, m, n) == Armed(p, n) /\ m \in timer[p][n].f
Due(p, t) == npc[t] = "deadline" /\ npd[t] = p /\ when[t] = seq[p]
Firing(p, m, t) ==
  \/ Due(p, t) /\ m \in todo[t]
  \/ npc[t] = "expire" /\ npd[t] = p /\ m \in todo[t]
  \/ npc[t] = "unblock" /\ npd[t] = p /\ m \in todo[t] \ {mode(t)}

\* No timer is newer than seq, and none counts on a closing descriptor.
TimerAges(p) ==
  /\ \A n \in Modes : timer[p][n].armed => timer[p][n].seq <= seq[p]
  /\ \A t \in TimerProcs : npc[t] = "deadline" /\ npd[t] = p => when[t] <= seq[p]
  /\ \A n \in Modes : Armed(p, n) => timer[p][n].f # {} /\ ~closing[p]
  /\ \A t \in TimerProcs : Due(p, t) => todo[t] # {} /\ ~closing[p]
  /\ \A t \in TimerProcs : npc[t] = "expire" /\ npd[t] = p => todo[t] # {}

\* One timer counts for each mode, whose deadline is set.
TimerOne(p) ==
  \A m \in Modes :
    /\ \A n \in Modes : ArmedFor(p, m, n) =>
         /\ deadline[p][m] > 0
         /\ \A k \in Modes : ArmedFor(p, m, k) => k = n
         /\ \A t \in TimerProcs : ~Firing(p, m, t)
    /\ \A t \in TimerProcs : Firing(p, m, t) =>
         /\ deadline[p][m] > 0 /\ TimerSet(p, m)
         /\ \A u \in TimerProcs : Firing(p, m, u) => u = t

TimerInv == \A p \in PollDescs : TimerAges(p) /\ TimerOne(p)

ThrowInv == DescInv /\ LockInv /\ WaitInv /\ ClosingInv /\ TimerInv /\ NeverThrows

\* What a goroutine that waits in the poller has.
LEMMA WaiterFacts ==
  ASSUME DescInv, NEW g \in Goroutines, npc[g] \in WaitPc
  PROVE  /\ fpc[g] = "prepared" /\ file(g) \in Files /\ mode(g) = ioMode(g) /\ mode(g) \in Modes
         /\ npd[g] \in PollDescs /\ FileHas(file(g), npd[g]) /\ pdFile[npd[g]] = file(g)
         /\ fdmu[file(g)].refs # 0
<1> USE DEF DescInv
<1>1. npc[g] # "idle" /\ npc[g] # "throw"
  BY DEF WaitPc
<1>2. InPoll(g) /\ (fpc[g] \notin OpenPc => npd[g] = ctx[file(g)])
  BY <1>1 DEF CallInv
<1>3. fpc[g] = "prepared" /\ todo[g] = {ioMode(g)}
  BY <1>2 DEF InPoll, WaitPc
<1>4. npd[g] = ctx[file(g)] /\ fpc[g] # "idle" /\ fpc[g] \in ReferencePc
  BY <1>2, <1>3 DEF OpenPc, ReferencePc, LockedPc
<1>5. PICK f \in Files : f = file(g) /\ fdmu[f].refs # 0
  BY <1>4, Here
<1>6. ioMode(g) \in Modes /\ mode(g) = ioMode(g)
  BY <1>3, <1>4, CallFacts DEF mode, FirstMode, Modes
<1>7. npd[g] \in PollDescs
  BY DEF PollTypeOK, ControlOK, Actors
<1>8. Keeps(f)
  BY <1>5 DEF Keeps, LifeInv, DestroyInv, DestroyPc
<1>9. FileHas(f, npd[g])
  BY <1>4, <1>5, <1>8 DEF FileHas
<1> QED BY <1>3, <1>5, <1>6, <1>7, <1>9 DEF OwnInv

\* Two goroutines do not wait for one mode of a descriptor.
LEMMA Alone ==
  ASSUME DescInv, NEW g \in Goroutines, NEW h \in Goroutines, npc[g] \in WaitPc, npc[h] \in WaitPc,
         npd[g] = npd[h], mode(g) = mode(h)
  PROVE  g = h
<1>1. PICK f \in Files, m \in Modes : f = file(g) /\ m = ioMode(g) /\ f = file(h) /\ m = ioMode(h)
  BY WaiterFacts
<1>2. fpc[g] \in LockedPc /\ fpc[h] \in LockedPc
  BY WaiterFacts DEF LockedPc
<1>3. PICK S : S = Holders(f, m)
  OBVIOUS
<1>4. g \in S /\ h \in S /\ S \subseteq Goroutines
  BY <1>1, <1>2, <1>3 DEF Holders, On
<1>5. Cardinality(S) <= 1
  BY <1>3 DEF DescInv, FDInv, WordInv, One
<1> QED
  <2>1. SUFFICES ASSUME g # h
                 PROVE  FALSE
    OBVIOUS
  <2>2. {g, h} \subseteq S /\ IsFiniteSet(S)
    BY <1>4, FDAssumption, FS_Subset
  <2>3. Cardinality({g, h}) <= Cardinality(S) /\ Cardinality(S) \in Nat /\ Cardinality({g, h}) \in Nat
    BY <2>2, FS_Subset, FS_CardinalityType
  <2>4. Cardinality({g, h}) = 2
    <3>1. Cardinality({g}) = 1 /\ IsFiniteSet({g})
      BY FS_Singleton
    <3>2. Cardinality({g} \cup {h}) = Cardinality({g}) + 1
      BY <2>1, <3>1, FS_AddElement
    <3>3. {g, h} = {g} \cup {h}
      OBVIOUS
    <3> QED BY <3>1, <3>2, <3>3
  <2> QED BY <1>5, <2>3, <2>4

\* Nobody waits at a descriptor that is being opened, or whose file has no users.
LEMMA NoWaiters ==
  ASSUME DescInv, WaitInv, NEW p \in PollDescs,
         \A g \in Goroutines : npc[g] \in WaitPc => npd[g] # p
  PROVE  ~Blocked(p)
<1>1. SUFFICES ASSUME NEW m \in Modes, sem[p][m] \notin {"nil", "ready"}
               PROVE  FALSE
  BY DEF Blocked
<1>2. sem[p][m] = "wait" \/ sem[p][m] \in Goroutines
  BY <1>1 DEF DescInv, PollTypeOK, SemType
<1>3. CASE sem[p][m] = "wait"
  BY <1>3 DEF WaitInv, WaitPc, WaitingPc
<1>4. CASE sem[p][m] \in Goroutines
  BY <1>4 DEF DescInv, SleepInv, WaitPc
<1> QED BY <1>2, <1>3, <1>4

-----------------------------------------------------------------------------

LEMMA LockKeeps ==
  ASSUME LockInv, pdLock' = pdLock,
         \A a \in Actors : Holding(a)' => Holding(a) /\ npd'[a] = npd[a]
  PROVE  LockInv'
BY DEF LockInv

LEMMA LockTakes ==
  ASSUME PollTypeOK, LockInv, NEW a \in Actors, ~Locked(npd[a]), pdLock' = [pdLock EXCEPT ![npd[a]] = a],
         npd' = npd, \A b \in Actors \ {a} : npc'[b] = npc[b]
  PROVE  LockInv'
<1>1. npd[a] \in PollDescs /\ pdLock \in [PollDescs -> Actors \cup {Nobody}]
  BY DEF PollTypeOK, ControlOK
<1>2. PICK p \in PollDescs : p = npd[a]
  BY <1>1
<1>3. SUFFICES ASSUME NEW b \in Actors, Holding(b)'
               PROVE  pdLock'[npd'[b]] = b
  BY DEF LockInv
<1>4. CASE b = a
  BY <1>1, <1>2, <1>4
<1>5. CASE b # a
  <2>1. Holding(b)
    BY <1>3, <1>5 DEF Holding
  <2>2. pdLock[npd[b]] = b /\ b # Nobody
    BY <2>1, PollAssumption DEF LockInv
  <2>3. npd[b] # p
    BY <1>2, <2>2 DEF Locked
  <2> QED BY <1>1, <1>2, <2>2, <2>3
<1> QED BY <1>4, <1>5

LEMMA WaitKeeps ==
  ASSUME WaitInv, \A p \in PollDescs, m \in Modes : sem'[p][m] = "wait" => sem[p][m] = "wait",
         \A g \in Goroutines : npc[g] \in WaitingPc =>
           npc'[g] \in WaitingPc /\ npd'[g] = npd[g] /\ todo'[g] = todo[g]
  PROVE  WaitInv'
<1>1. SUFFICES ASSUME NEW p \in PollDescs, NEW m \in Modes, sem'[p][m] = "wait"
               PROVE  \E g \in Goroutines : npc'[g] \in WaitingPc /\ npd'[g] = p /\ mode(g)' = m
  BY DEF WaitInv
<1>2. PICK g \in Goroutines : npc[g] \in WaitingPc /\ npd[g] = p /\ mode(g) = m
  BY <1>1 DEF WaitInv
<1> QED BY <1>2 DEF mode

LEMMA ClosingKeeps ==
  ASSUME ClosingInv, closing' = closing,
         \A f \in Files, p \in PollDescs : FileHas(f, p)' => FileHas(f, p) /\ (Evicted(f)' <=> Evicted(f)),
         \A g \in Goroutines, p \in PollDescs : OpenerHas(g, p)' /\ npc'[g] # "open" =>
           OpenerHas(g, p) /\ npc[g] # "open" /\ (OpenEvicted(g)' <=> OpenEvicted(g))
  PROVE  ClosingInv'
BY DEF ClosingInv

FiringPc == {"deadline", "expire", "unblock"}

\* A descriptor that does not change, and whose timers do not.
LEMMA TimerSame ==
  ASSUME NEW p \in PollDescs, TimerAges(p), TimerOne(p),
         closing'[p] = closing[p], seq'[p] = seq[p], deadline'[p] = deadline[p], timer'[p] = timer[p],
         \A t \in TimerProcs :
           \/ npc'[t] \notin FiringPc \/ npd'[t] # p
           \/ npc'[t] = npc[t] /\ npd'[t] = npd[t] /\ todo'[t] = todo[t] /\ when'[t] = when[t]
  PROVE  TimerAges(p)' /\ TimerOne(p)'
<1>1. \A n \in Modes : (Armed(p, n)' <=> Armed(p, n)) /\ timer'[p][n] = timer[p][n]
  BY DEF Armed
<1>2. \A m, n \in Modes : ArmedFor(p, m, n)' <=> ArmedFor(p, m, n)
  BY <1>1 DEF ArmedFor
<1>3. \A t \in TimerProcs : Due(p, t)' => Due(p, t) /\ todo'[t] = todo[t]
  BY DEF Due, FiringPc
<1>4. \A t \in TimerProcs, m \in Modes : Firing(p, m, t)' => Firing(p, m, t)
  BY <1>3 DEF Firing, FiringPc, mode
<1>5. \A m \in Modes : TimerSet(p, m)' <=> TimerSet(p, m)
  BY <1>1 DEF TimerSet
<1>6. TimerAges(p)'
  BY <1>1, <1>3 DEF TimerAges, FiringPc
<1>7. TimerOne(p)'
  BY <1>2, <1>4, <1>5 DEF TimerOne
<1> QED BY <1>6, <1>7

LEMMA TimersKeep ==
  ASSUME TimerInv, UNCHANGED <<closing, seq, deadline, timer>>,
         \A t \in TimerProcs :
           \/ npc'[t] \notin FiringPc
           \/ npc'[t] = npc[t] /\ npd'[t] = npd[t] /\ todo'[t] = todo[t] /\ when'[t] = when[t]
  PROVE  TimerInv'
BY TimerSame DEF TimerInv

-----------------------------------------------------------------------------
(* Steps of a file.                                                        *)

LEMMA StepWhen ==
  ASSUME PollTypeOK, NEW g \in Goroutines, FDStep(g)
  PROVE  \A a \in Actors \ {g} : when'[a] = when[a]
<1>0. when \in [Actors -> Int]
  BY DEF PollTypeOK, ControlOK
<1>1. \A e, p, ms, d : CallPoll(g, e, p, ms, d) => \A a \in Actors \ {g} : when'[a] = when[a]
  BY <1>0 DEF CallPoll
<1>2. CASE Open(g) \/ Opened(g) \/ OpenedBlocking(g) \/ Prepared(g) \/ Decref(g) \/ CloseFunc(g)
  BY <1>2 DEF Open, PollOpen, Opened, OpenedBlocking, Prepared, Decref, CloseFunc, Returned
<1>3. CASE OpenFails(g) \/ OpenUnpoll(g)
  BY <1>1, <1>3 DEF OpenFails, OpenUnpoll, CallPollUnblock, CallPollClose
<1>4. CASE RwLock(g) \/ RwLockWake(g) \/ RwUnlock(g) \/ RwSignal(g) \/ IncrefAndClose(g)
             \/ CloseRelease(g) \/ CloseWait(g) \/ CloseReturn(g) \/ CloseSignal(g)
  BY <1>4 DEF RwLock, RwLockWake, RwUnlock, RwSignal, IncrefAndClose, CloseRelease, CloseWait,
                CloseReturn, CloseSignal, pollVars
<1>5. CASE Prepare(g) \/ Syscall(g)
  BY <1>1, <1>5 DEF Prepare, Syscall, CallPollReset, CallPollWait, Consume, callVars, pollVars
<1>6. CASE Incref(g)
  BY <1>1, <1>6 DEF Incref, CallPollSetDeadline, pollVars
<1>7. CASE CloseEvict(g) \/ Destroy(g)
  BY <1>1, <1>7 DEF CloseEvict, Destroy, CallPollUnblock, CallPollClose, pollVars
<1> QED BY <1>2, <1>3, <1>4, <1>5, <1>6, <1>7 DEF FDStep

\* How a step of a file changes what makes its descriptor a closing one.
LEMMA StepWords ==
  ASSUME FDInv, NEW g \in Goroutines, FDStep(g)
  PROVE  /\ \A f \in Files : f # file(g) => fdmu'[f] = fdmu[f]
         /\ \/ fdmu'[file(g)].closed = fdmu[file(g)].closed
            \/ ~fdmu[file(g)].closed /\ fpc'[g] = "release" /\ fpc[g] = "close"
         /\ fpc[g] = "release" => fpc'[g] = "release" \/ (CloseEvict(g) /\ fpc'[g] = "decref")
         /\ fpc'[g] = "release" => fpc[g] = "release" \/ fpc[g] = "close"
<1> USE DEF FPc, OpenPc, IOPc, DestroyPc, LockedPc, SignalPc, ReferencePc, fileVars
<1>1. fpc[g] # "idle"
  BY DEF FDStep, Open, Opened, OpenFails, OpenUnpoll, OpenedBlocking, RwLock, RwLockWake, Prepare,
         Prepared, Syscall, RwUnlock, RwSignal, Incref, Decref, IncrefAndClose, CloseRelease,
         CloseEvict, CloseWait, CloseReturn, Destroy, CloseFunc, CloseSignal
<1>2. PICK f \in Files, n \in Modes :
        /\ f = file(g) /\ n = ioMode(g) /\ fdmu[f] = word(g) /\ fdmu[f] \in WordType
        /\ fpc[g] \in ReferencePc => fdmu[f].refs > 0
        /\ fpc[g] \in LockedPc => n \in fdmu[f].locked
        /\ fpc[g] \notin ReferencePc => ~Wraps(fdmu[f].refs)
        /\ fpc[g] # "rwsleep" => ~Wraps(fdmu[f].waits[n])
  BY <1>1, Here
<1>3. /\ fdmu \in [Files -> WordType] /\ fpc \in [Goroutines -> FPc]
      /\ \A v : SetWord(g, v) => fdmu' = [fdmu EXCEPT ![f] = v]
  BY <1>2 DEF FDInv, FDTypeOK, SetWord
<1>4. \A v : fdmu' = [fdmu EXCEPT ![f] = v] => fdmu'[f] = v /\ \A e \in Files : e # f => fdmu'[e] = fdmu[e]
  BY <1>3
<1>5. /\ incref(fdmu[f]).closed = fdmu[f].closed /\ decref(fdmu[f]).closed = fdmu[f].closed
      /\ rwlock(fdmu[f], n).closed = fdmu[f].closed /\ rwwait(fdmu[f], n).closed = fdmu[f].closed
      /\ rwunlock(fdmu[f], n).closed = fdmu[f].closed
  BY <1>2, WordFields
<1>6. CASE Open(g) \/ Opened(g) \/ OpenFails(g) \/ OpenUnpoll(g) \/ OpenedBlocking(g)
           \/ RwLockWake(g) \/ Prepare(g) \/ Prepared(g) \/ Syscall(g) \/ RwSignal(g)
  <2>1. fdmu' = fdmu /\ fpc[g] # "release"
    BY <1>6 DEF Open, Opened, OpenFails, OpenUnpoll, OpenedBlocking, RwLockWake, Prepare, Prepared,
                Syscall, RwSignal
  <2>2. fpc'[g] # "release"
    BY <1>3, <1>6 DEF Open, Opened, OpenFails, OpenUnpoll, OpenedBlocking, RwLockWake, Prepare, Prepared,
                Syscall, RwSignal, FGoto, Done
  <2> QED BY <1>2, <2>1, <2>2
<1>7. CASE CloseWait(g) \/ CloseReturn(g) \/ Destroy(g) \/ CloseFunc(g) \/ CloseSignal(g)
  <2>1. fdmu' = fdmu /\ fpc[g] # "release"
    BY <1>7 DEF CloseWait, CloseReturn, Destroy, CloseFunc, CloseSignal
  <2>2. fpc'[g] # "release"
    BY <1>3, <1>7 DEF CloseWait, CloseReturn, Destroy, CloseFunc, CloseSignal, FGoto, Done
  <2> QED BY <1>2, <2>1, <2>2
<1>8. CASE CloseRelease(g)
  BY <1>2, <1>8 DEF CloseRelease
<1>9. CASE CloseEvict(g)
  BY <1>2, <1>3, <1>9 DEF CloseEvict, FGoto
<1>10. CASE RwLock(g)
  <2>1. fdmu' = fdmu \/ SetWord(g, rwlock(fdmu[f], n)) \/ SetWord(g, rwwait(fdmu[f], n))
    BY <1>2, <1>10 DEF RwLock
  <2>2. fpc[g] # "release" /\ fpc'[g] # "release"
    BY <1>2, <1>3, <1>10 DEF RwLock, FGoto, Done
  <2> QED BY <1>2, <1>3, <1>4, <1>5, <2>1, <2>2
<1>11. CASE RwUnlock(g)
  <2>1. fdmu' = fdmu \/ SetWord(g, rwunlock(fdmu[f], n))
    BY <1>2, <1>11 DEF RwUnlock
  <2>2. fpc[g] # "release" /\ fpc'[g] # "release"
    BY <1>2, <1>3, <1>11 DEF RwUnlock, AfterUse, FGoto, Done
  <2> QED BY <1>2, <1>3, <1>4, <1>5, <2>1, <2>2
<1>12. CASE Incref(g)
  <2>1. fdmu' = fdmu \/ SetWord(g, incref(fdmu[f]))
    BY <1>2, <1>12 DEF Incref
  <2>2. fpc[g] # "release" /\ fpc'[g] # "release"
    BY <1>2, <1>3, <1>12 DEF Incref, FGoto, Done
  <2> QED BY <1>2, <1>3, <1>4, <1>5, <2>1, <2>2
<1>13. CASE Decref(g)
  <2>1. fdmu' = fdmu \/ SetWord(g, decref(fdmu[f]))
    BY <1>2, <1>13 DEF Decref
  <2>2. fpc[g] # "release" /\ fpc'[g] # "release"
    BY <1>2, <1>3, <1>13 DEF Decref, AfterUse, FGoto, Done
  <2> QED BY <1>2, <1>3, <1>4, <1>5, <2>1, <2>2
<1>14. CASE IncrefAndClose(g)
  <2>1. fpc[g] = "close" /\ ((fdmu' = fdmu /\ fpc'[g] # "release")
           \/ (~fdmu[f].closed /\ fdmu' = [fdmu EXCEPT ![f] = increfAndClose(fdmu[f])] /\ fpc'[g] = "release"))
    BY <1>2, <1>3, <1>14 DEF IncrefAndClose, FGoto, Done
  <2> QED BY <1>2, <1>4, <2>1
<1> QED BY <1>6, <1>7, <1>8, <1>9, <1>10, <1>11, <1>12, <1>13, <1>14 DEF FDStep

LEMMA ThrowStep ==
  ASSUME ThrowInv, NEW g \in Goroutines, FDStep(g)
  PROVE  LockInv' /\ WaitInv' /\ TimerInv' /\ NeverThrows'
<1> USE DEF ThrowInv, DescInv
<1>1. /\ npc[g] = "idle" /\ PollStill
      /\ Quiet \/ \E e, ms : \E p \in PollDescs : CallsPoll(g, e, p, ms)
  BY StepCalls
<1>2. /\ DOMAIN npc = Actors /\ npd \in [Actors -> PollDescs] /\ todo \in [Actors -> SUBSET Modes]
      /\ Goroutines \subseteq Actors /\ TimerProcs \subseteq Actors /\ g \notin TimerProcs
  BY PollAssumption DEF PollTypeOK, ControlOK, Actors
<1>3. \A a \in Actors \ {g} : npc'[a] = npc[a] /\ npd'[a] = npd[a] /\ todo'[a] = todo[a] /\ when'[a] = when[a]
  <2>1. \A a \in Actors \ {g} : npc'[a] = npc[a] /\ npd'[a] = npd[a] /\ todo'[a] = todo[a]
    BY <1>1, <1>2 DEF Quiet, CallsPoll
  <2> QED BY <2>1, StepWhen
<1>4. npc'[g] \in {"idle", "open", "evict", "close", "reset", "wait", "setdeadline"}
  BY <1>1, <1>2 DEF Quiet, CallsPoll, Entry
<1>5. LockInv'
  <2>1. \A a \in Actors : Holding(a)' => Holding(a) /\ npd'[a] = npd[a]
    BY <1>3, <1>4 DEF Holding
  <2> QED BY <1>1, <2>1, LockKeeps DEF PollStill
<1>6. WaitInv'
  <2>1. \A h \in Goroutines : npc[h] \in WaitingPc =>
          npc'[h] \in WaitingPc /\ npd'[h] = npd[h] /\ todo'[h] = todo[h]
    BY <1>1, <1>2, <1>3 DEF WaitingPc
  <2> QED BY <1>1, <2>1, WaitKeeps DEF PollStill
<1>7. TimerInv'
  BY <1>1, <1>2, <1>3, TimersKeep DEF PollStill
<1>8. NeverThrows'
  BY <1>3, <1>4 DEF NeverThrows
<1> QED BY <1>5, <1>6, <1>7, <1>8

LEMMA ClosingStep ==
  ASSUME ThrowInv, NEW g \in Goroutines, FDStep(g)
  PROVE  ClosingInv'
<1> USE DEF ThrowInv, DescInv
<1>1. /\ npc[g] = "idle" /\ PollStill
      /\ Quiet \/ \E e, ms : \E p \in PollDescs : CallsPoll(g, e, p, ms)
  BY StepCalls
<1>2. PICK l \in FPc : fpc[g] # "idle" /\ LifeStep(g, l)
  BY LifeSteps
<1>3. /\ fpc'[g] = l /\ (l # "idle" => op'[g] = op[g] /\ file(g)' = file(g))
      /\ \A h \in Goroutines \ {g} : fpc'[h] = fpc[h] /\ op'[h] = op[h] /\ file(h)' = file(h)
  BY <1>2 DEF LifeStep, Goes, FDInv, FDTypeOK, file
<1>4. /\ DOMAIN npc = Actors /\ npd \in [Actors -> PollDescs] /\ Goroutines \subseteq Actors
      /\ todo \in [Actors -> SUBSET Modes] /\ npd[g] \in PollDescs /\ closing' = closing
  BY <1>1, <1>2, CallFacts DEF PollTypeOK, ControlOK, Actors, PollStill
<1>5. \A h \in Goroutines \ {g} : npc'[h] = npc[h] /\ npd'[h] = npd[h]
  BY <1>1, <1>4 DEF Quiet, CallsPoll
<1>6. /\ ctx \in [Files -> PollDescs \cup {Nobody}] /\ fpc \in [Goroutines -> FPc]
      /\ Nobody \notin PollDescs
  BY PollAssumption DEF FDInv, FDTypeOK
<1>7. PICK f0 \in Files : f0 = file(g)
  BY <1>2, CallFacts
<1>8. \A h \in Goroutines \ {g} : (Evicting(h)' <=> Evicting(h)) /\ (OpenEvicted(h)' <=> OpenEvicted(h))
  BY <1>3, <1>5 DEF Evicting, OpenEvicted
<1>9. ~Evicting(g) \/ fpc[g] = "release"
  BY <1>1 DEF Evicting
\* Whether the file is evicted stays so.
<1>10. \A e \in Files \ {f0} : Evicted(e)' <=> Evicted(e)
  <2>1. \A e \in Files \ {f0} : fdmu'[e] = fdmu[e]
    BY <1>7, StepWords
  <2>2. Evicting(g)' => file(g)' = f0
    BY <1>3, <1>7 DEF Evicting
  <2> QED BY <1>3, <1>7, <1>8, <2>1, <2>2 DEF Evicted
<1>11. Pollable(f0) => (Evicted(f0)' <=> Evicted(f0))
  <2>1. SUFFICES ASSUME Pollable(f0)
                 PROVE  Evicted(f0)' <=> Evicted(f0)
    OBVIOUS
  <2>2. CASE ~fdmu[f0].closed /\ fpc'[g] = "release"
    <3>1. Evicting(g)' /\ file(g)' = f0
      BY <1>3, <1>7, <2>2 DEF Evicting
    <3> QED BY <2>2, <3>1 DEF Evicted
  <2>3. CASE fdmu'[f0].closed = fdmu[f0].closed /\ ~(~fdmu[f0].closed /\ fpc'[g] = "release")
    <3>1. CASE fpc[g] = "release"
      <4>1. fpc'[g] = "release" \/ (CloseEvict(g) /\ fpc'[g] = "decref")
        BY <3>1, StepWords
      <4>2. CloseEvict(g) => npc'[g] = "evict"
        BY <1>4, <1>7, <2>1 DEF CloseEvict, CallPollUnblock, CallPoll
      <4>3. Evicting(g) /\ Evicting(g)' /\ file(g)' = file(g)
        BY <1>3, <3>1, <4>1, <4>2 DEF Evicting
      <4> QED BY <1>3, <1>7, <1>8, <2>3, <4>3 DEF Evicted
    <3>2. CASE fpc[g] # "release"
      <4>1. fpc'[g] # "release"
        <5>1. fpc'[g] = "release" => fpc[g] = "close" /\ ~fdmu[f0].closed
          BY <1>2, <1>3, <1>7, <3>2 DEF LifeStep
        <5> QED BY <2>3, <5>1
      <4>2. ~(fpc'[g] = "decref" /\ npc'[g] = "evict")
        BY <1>1, <1>4, <3>2 DEF Quiet, CallsPoll, Entry
      <4>3. ~Evicting(g) /\ ~Evicting(g)'
        BY <1>9, <3>2, <4>1, <4>2 DEF Evicting
      <4> QED BY <1>3, <1>7, <1>8, <2>3, <4>3 DEF Evicted
    <3> QED BY <3>1, <3>2
  <2> QED BY <1>7, <2>2, <2>3, StepWords
<1>12. ASSUME NEW f \in Files, NEW p \in PollDescs, FileHas(f, p)'
       PROVE  closing'[p] <=> Evicted(f)'
  <2>1. CASE FileHas(f, p)
    <3>1. closing[p] <=> Evicted(f)
      BY <2>1 DEF ClosingInv
    <3>2. Pollable(f)
      BY <1>6, <2>1 DEF FileHas, Pollable
    <3> QED BY <1>4, <1>10, <1>11, <3>1, <3>2
  <2>2. CASE ~FileHas(f, p)
    <3>1. Opened(g) /\ f = f0 /\ p = npd[g]
      <4>1. ctx'[f] = p /\ Keeps(f)'
        BY <1>12 DEF FileHas
      <4>2. CASE Opened(g)
        <5>1. fpc[g] = "opening" /\ npc' = npc /\ ctx' = [ctx EXCEPT ![f0] = npd[g]]
          BY <1>7, <4>2 DEF Opened, Returned
        <5>2. Keeps(f)
          BY <1>3, <1>5, <4>1, <5>1 DEF Keeps
        <5> QED BY <1>6, <2>2, <4>1, <4>2, <5>1, <5>2 DEF FileHas
      <4>3. CASE ~Opened(g)
        <5>1. fpc[g] = "closefunc" => ctx' = [ctx EXCEPT ![f0] = Nobody]
          BY <1>7, StepAt DEF CloseFunc
        <5>2. \A e \in Files : ctx'[e] = ctx[e] \/ ctx'[e] = Nobody
          <6>1. CASE fpc[g] \in OpenPc
            BY <4>3, <6>1, StepAt DEF Open, OpenFails, OpenUnpoll, OpenedBlocking, fileVars
          <6>2. CASE fpc[g] \notin OpenPc
            BY <1>2, <1>6, <6>2 DEF LifeStep
          <6> QED BY <6>1, <6>2
        <5>3. ctx[f] = p /\ (fpc[g] = "closefunc" => f0 # f)
          BY <1>6, <4>1, <5>1, <5>2
        <5>4. ASSUME NEW h \in Goroutines, fpc[h] = "closefunc", file(h) = f
              PROVE  npc[h] # "idle"
          BY <1>3, <1>5, <1>7, <4>1, <5>3, <5>4 DEF Keeps
        <5> QED BY <2>2, <5>3, <5>4 DEF FileHas, Keeps
      <4> QED BY <4>2, <4>3
    <3>2. fpc[g] = "opening" /\ fdmu' = fdmu
      BY <3>1 DEF Opened
    <3>3. ~closing[p]
      <4>1. OpenerHas(g, p) /\ npc[g] # "open" /\ ~OpenEvicted(g)
        BY <1>1, <3>1, <3>2 DEF OpenerHas, OpenEvicted
      <4> QED BY <4>1 DEF ClosingInv
    <3>4. ~fdmu[f].closed
      BY <1>7, <3>1, <3>2 DEF LifeInv, OpenInv, OpenPc
    <3> QED BY <1>4, <3>2, <3>3, <3>4 DEF Evicted
  <2> QED BY <2>1, <2>2
<1>13. ASSUME NEW h \in Goroutines, NEW p \in PollDescs, OpenerHas(h, p)', npc'[h] # "open"
       PROVE  closing'[p] <=> OpenEvicted(h)'
  <2>1. CASE h # g
    <3>1. OpenerHas(h, p) /\ npc[h] # "open"
      BY <1>3, <1>5, <1>13, <2>1 DEF OpenerHas
    <3> QED BY <1>4, <1>8, <2>1, <3>1 DEF ClosingInv
  <2>2. CASE h = g
    <3>1. l \in {"opening", "unpoll", "unpolled"} /\ l \in OpenPc /\ l # "idle"
      BY <1>3, <1>13, <2>2 DEF OpenerHas, OpenPc
    <3>2. OpenFails(g) \/ OpenUnpoll(g)
      <4>1. fpc[g] \in OpenPc
        BY <1>2, <3>1 DEF LifeStep
      <4>2. ~OpenedBlocking(g) /\ ~Opened(g)
        BY <1>3, <1>6, <3>1 DEF Opened, OpenedBlocking, Done
      <4>3. ~Open(g)
        BY <1>4, <1>13, <2>2 DEF Open, PollOpen
      <4> QED BY <4>1, <4>2, <4>3, StepAt
    <3>3. npd'[g] = npd[g] /\ p = npd[g]
      BY <1>4, <1>13, <2>2, <3>2 DEF OpenFails, OpenUnpoll, CallPollUnblock, CallPollClose, CallPoll, OpenerHas
    <3>4. CASE OpenFails(g)
      <4>1. fpc[g] = "opening" /\ fpc'[g] = "unpoll" /\ npc'[g] = "evict"
        BY <1>4, <1>6, <3>4 DEF OpenFails, CallPollUnblock, CallPoll, FGoto
      <4> QED BY <1>1, <1>4, <2>2, <3>3, <4>1 DEF ClosingInv, OpenerHas, OpenEvicted
    <3>5. CASE OpenUnpoll(g)
      <4>1. fpc[g] = "unpoll" /\ fpc'[g] = "unpolled"
        BY <1>6, <3>5 DEF OpenUnpoll, FGoto
      <4> QED BY <1>1, <1>4, <2>2, <3>3, <4>1 DEF ClosingInv, OpenerHas, OpenEvicted
    <3> QED BY <3>2, <3>4, <3>5
  <2> QED BY <2>1, <2>2
<1> QED BY <1>12, <1>13 DEF ClosingInv

-----------------------------------------------------------------------------
(* Steps in the poller.                                                    *)

\* What closing tells does not change in most of them.
LEMMA ClosingPoll ==
  ASSUME ClosingInv, UNCHANGED fdVars, closing' = closing,
         \A g \in Goroutines : /\ npc[g] = "idle" => npc'[g] = "idle"
                               /\ npd'[g] = npd[g]
                               /\ npc[g] = "open" => npc'[g] = "open"
                               /\ npc'[g] = "evict" <=> npc[g] = "evict"
  PROVE  ClosingInv'
<1>1. UNCHANGED <<fpc, op, ctx, fdmu>>
  BY DEF fdVars
<1>2. \A g \in Goroutines : file(g)' = file(g) /\ (Evicting(g)' <=> Evicting(g)) /\ (OpenEvicted(g)' <=> OpenEvicted(g))
  BY <1>1 DEF file, Evicting, OpenEvicted
<1>3. \A f \in Files : Evicted(f)' <=> Evicted(f)
  BY <1>1, <1>2 DEF Evicted
<1>4. \A f \in Files, p \in PollDescs : FileHas(f, p)' => FileHas(f, p)
  BY <1>1, <1>2 DEF FileHas, Keeps
<1>5. \A g \in Goroutines, p \in PollDescs : OpenerHas(g, p)' /\ npc'[g] # "open" =>
        OpenerHas(g, p) /\ npc[g] # "open"
  BY <1>1 DEF OpenerHas
<1> QED BY <1>2, <1>3, <1>4, <1>5, ClosingKeeps

LEMMA ClosingHop ==
  ASSUME PollTypeOK, ClosingInv, UNCHANGED fdVars, closing' = closing,
         NEW a \in Actors, NEW l, Hop(a, l), npc[a] \notin {"open", "evict"}
  PROVE  ClosingInv'
<1>1. npc'[a] = l /\ npd' = npd /\ (npc[a] = "idle" => a \in Pollers) /\ l # "evict"
  BY HopFact
<1>2. \A b \in Actors \ {a} : npc'[b] = npc[b]
  BY HopFact
<1>3. Goroutines \cap Pollers = {} /\ Goroutines \subseteq Actors
  BY PollAssumption DEF Actors
<1>4. ASSUME NEW g \in Goroutines
      PROVE  /\ npc[g] = "idle" => npc'[g] = "idle"
             /\ npd'[g] = npd[g]
             /\ npc[g] = "open" => npc'[g] = "open"
             /\ npc'[g] = "evict" <=> npc[g] = "evict"
  <2>1. CASE g = a
    BY <1>1, <1>3, <2>1
  <2>2. CASE g # a
    BY <1>1, <1>2, <1>3, <2>2
  <2> QED BY <2>1, <2>2
<1> QED BY <1>4, ClosingPoll

\* Who is about to park goes on to, or is the one whose announcement is replaced.
LEMMA WaitMoves ==
  ASSUME PollTypeOK, WaitInv, NEW a \in Actors, NEW l, Hop(a, l),
         \A p \in PollDescs, m \in Modes : sem'[p][m] = "wait" =>
           \/ /\ sem[p][m] = "wait"
              /\ ~(npd[a] = p /\ mode(a) = m) \/ l \in WaitingPc \/ npc[a] \notin WaitingPc
           \/ npd[a] = p /\ mode(a) = m /\ l \in WaitingPc /\ a \in Goroutines
  PROVE  WaitInv'
<1>1. npc'[a] = l /\ npd' = npd /\ (l \in WaitingPc => todo' = todo)
  BY HopFact DEF Hop, WaitPc, WaitingPc
<1>2. \A b \in Actors \ {a} : npc'[b] = npc[b] /\ todo'[b] = todo[b]
  BY HopFact
<1>3. Goroutines \subseteq Actors
  BY DEF Actors
<1>4. SUFFICES ASSUME NEW p \in PollDescs, NEW m \in Modes, sem'[p][m] = "wait"
               PROVE  \E g \in Goroutines : npc'[g] \in WaitingPc /\ npd'[g] = p /\ mode(g)' = m
  BY DEF WaitInv
<1>5. CASE npd[a] = p /\ mode(a) = m /\ l \in WaitingPc /\ a \in Goroutines
  BY <1>1, <1>5 DEF mode
<1>6. CASE /\ sem[p][m] = "wait"
           /\ ~(npd[a] = p /\ mode(a) = m) \/ l \in WaitingPc \/ npc[a] \notin WaitingPc
  <2>1. PICK g \in Goroutines : npc[g] \in WaitingPc /\ npd[g] = p /\ mode(g) = m
    BY <1>6 DEF WaitInv
  <2>2. CASE g = a
    BY <1>1, <1>6, <2>1, <2>2 DEF mode
  <2>3. CASE g # a
    BY <1>1, <1>2, <1>3, <2>1, <2>3 DEF mode
  <2> QED BY <2>2, <2>3
<1> QED BY <1>4, <1>5, <1>6

\* The argument of a timer function changes only with its own steps.
LEMMA OthersWhen ==
  ASSUME PollTypeOK, NEW a \in Actors
  PROVE  /\ \A r : PollReturn(a, r) => \A b \in Actors \ {a} : when'[b] = when[b]
         /\ \A l : NGoto(a, l) => \A b \in Actors \ {a} : when'[b] = when[b]
<1>1. when \in [Actors -> Int]
  BY DEF PollTypeOK, ControlOK
<1> QED BY <1>1 DEF PollReturn, NGoto

LEMMA TimersHop ==
  ASSUME PollTypeOK, TimerInv, UNCHANGED <<closing, seq, deadline, timer>>, NEW a \in Actors, NEW l, Hop(a, l),
         a \notin TimerProcs, \A b \in Actors \ {a} : when'[b] = when[b]
  PROVE  TimerInv'
<1>1. npd' = npd /\ \A b \in Actors \ {a} : npc'[b] = npc[b] /\ todo'[b] = todo[b]
  BY HopFact
<1>2. TimerProcs \subseteq Actors
  BY DEF Actors
<1> QED BY <1>1, <1>2, TimersKeep

LEMMA LockHop ==
  ASSUME PollTypeOK, LockInv, pdLock' = pdLock, NEW a \in Actors, NEW l, Hop(a, l),
         l \in {"unblock", "evict2", "expire"} => Holding(a)
  PROVE  LockInv'
<1>1. npc'[a] = l /\ npd' = npd
  BY HopFact
<1>2. \A b \in Actors \ {a} : npc'[b] = npc[b]
  BY HopFact
<1>3. ASSUME NEW b \in Actors, Holding(b)'
      PROVE  Holding(b) /\ npd'[b] = npd[b]
  <2>1. CASE b = a
    BY <1>1, <1>3, <2>1 DEF Holding
  <2>2. CASE b # a
    BY <1>1, <1>2, <1>3, <2>2 DEF Holding
  <2> QED BY <2>1, <2>2
<1> QED BY <1>3, LockKeeps

LEMMA NeverHop ==
  ASSUME PollTypeOK, NeverThrows, NEW a \in Actors, NEW l, Hop(a, l), l # "throw"
  PROVE  NeverThrows'
<1>1. npc'[a] = l
  BY HopFact
<1>2. \A b \in Actors \ {a} : npc'[b] = npc[b]
  BY HopFact
<1> QED BY <1>1, <1>2 DEF NeverThrows

\* Who waits finds no other waiter at its place.
LEMMA OwnPlace ==
  ASSUME ThrowInv, NEW g \in Goroutines, npc[g] \in {"block", "resume"}, NEW s, s = sem[npd[g]][mode(g)]
  PROVE  /\ s \notin Goroutines
         /\ npc[g] = "block" => s # "wait"
         /\ s \in SemType
<1> USE DEF ThrowInv
<1>1. npc[g] \in WaitPc
  BY DEF WaitPc
<1>2. PICK p \in PollDescs, m \in Modes : p = npd[g] /\ m = mode(g)
  BY <1>1, WaiterFacts
<1>3. s \notin Goroutines
  <2>1. SUFFICES ASSUME s \in Goroutines
                 PROVE  FALSE
    OBVIOUS
  <2>2. PICK h \in Goroutines : h = s
    BY <2>1
  <2>3. npc[h] = "parked" /\ npd[h] = p /\ mode(h) = m
    BY <1>2, <2>2 DEF DescInv, SleepInv
  <2>4. npc[h] \in WaitPc
    BY <2>3 DEF WaitPc
  <2>5. g = h
    BY <1>1, <1>2, <2>3, <2>4, Alone
  <2> QED BY <2>3, <2>5
<1>4. ASSUME npc[g] = "block", s = "wait"
      PROVE  FALSE
  <2>0. sem[p][m] = "wait"
    BY <1>2, <1>4
  <2>1. PICK h \in Goroutines : npc[h] \in WaitingPc /\ npd[h] = p /\ mode(h) = m
    BY <2>0 DEF WaitInv
  <2>2. npc[h] \in WaitPc /\ h # g
    BY <1>4, <2>1 DEF WaitPc, WaitingPc
  <2> QED BY <1>1, <1>2, <2>1, <2>2, Alone
<1>5. s \in SemType
  BY <1>2 DEF DescInv, PollTypeOK
<1> QED BY <1>3, <1>4, <1>5

LEMMA ThrowWait ==
  ASSUME ThrowInv, UNCHANGED fdVars, NEW g \in Goroutines,
         PollReset(g) \/ PollResetStore(g) \/ PollWait(g) \/ NetpollBlock(g) \/ NetpollRecheck(g)
           \/ NetpollBlockCommit(g) \/ NetpollResume(g)
  PROVE  LockInv' /\ WaitInv' /\ ClosingInv' /\ TimerInv' /\ NeverThrows'
<1> USE DEF ThrowInv, DescInv
<1>1. PICK l : Hop(g, l) /\ npc[g] \in WaitPc /\ npc[g] # "parked"
  BY WaitHops
<1>2. g \in Actors /\ g \notin TimerProcs /\ sem \in [PollDescs -> [Modes -> SemType]]
      /\ Trans(npc[g], l) /\ npc'[g] = l /\ DOMAIN npc = Actors
  BY <1>1, PollAssumption, HopFact DEF Actors, PollTypeOK, ControlOK, Hop
<1>3. PICK p \in PollDescs, m \in Modes : p = npd[g] /\ m = mode(g)
  BY <1>1, WaiterFacts
<1>4. UNCHANGED <<pdLock, closing, seq, deadline, timer>>
  BY DEF PollReset, PollResetStore, PollWait, NetpollBlock, NetpollRecheck, NetpollBlockCommit,
         NetpollResume, descVars
<1>5. \A b \in Actors \ {g} : when'[b] = when[b]
  BY <1>2, OthersWhen DEF PollReset, PollResetStore, PollWait, NetpollBlock, NetpollRecheck,
         NetpollBlockCommit, NetpollResume
<1>6. l \notin {"unblock", "evict2", "expire"} /\ npc[g] \notin {"open", "evict"}
  BY <1>1, <1>2 DEF Trans, WaitPc
<1>7. LockInv' /\ ClosingInv' /\ TimerInv'
  BY <1>1, <1>2, <1>4, <1>5, <1>6, LockHop, ClosingHop, TimersHop
<1>8. WaitInv' /\ l # "throw"
  <2>1. CASE PollReset(g) \/ PollWait(g)
    <3>1. sem' = sem /\ npc[g] \notin WaitingPc /\ npc[g] \in {"reset", "wait"}
      BY <2>1 DEF PollReset, PollWait, descVars, WaitingPc
    <3>2. WaitInv'
      BY <1>1, <1>2, <3>1, WaitMoves
    <3> QED BY <1>2, <3>1, <3>2 DEF Trans
  <2>2. CASE PollResetStore(g)
    <3>1. sem' = [sem EXCEPT ![p][m] = "nil"] /\ npc[g] = "reset2" /\ npc[g] \notin WaitingPc
      BY <1>3, <2>2 DEF PollResetStore, SetSem, WaitingPc
    <3>2. \A q \in PollDescs, n \in Modes : sem'[q][n] = "wait" => sem[q][n] = "wait"
      BY <1>2, <3>1
    <3>3. WaitInv'
      BY <1>1, <1>2, <3>1, <3>2, WaitMoves
    <3> QED BY <1>2, <3>1, <3>3 DEF Trans
  <2>3. CASE NetpollBlock(g)
    <3>1. PICK s : s = sem[p][m]
      OBVIOUS
    <3>2. npc[g] = "block" /\ s = sem[npd[g]][mode(g)]
      BY <1>3, <2>3, <3>1 DEF NetpollBlock
    <3>3. s \in SemType /\ s \notin Goroutines /\ s # "wait"
      BY <3>2, OwnPlace
    <3>4. s \in {"nil", "ready"} /\ npc[g] \notin WaitingPc
      BY <3>2, <3>3 DEF SemType, WaitingPc
    <3>5. CASE s = "ready"
      <4>1. sem' = [sem EXCEPT ![p][m] = "nil"] /\ npc'[g] = "idle"
        BY <1>2, <1>3, <2>3, <3>1, <3>5 DEF NetpollBlock, SetSem, PollReturn
      <4>2. \A q \in PollDescs, n \in Modes : sem'[q][n] = "wait" => sem[q][n] = "wait"
        BY <1>2, <4>1
      <4> QED BY <1>1, <1>2, <3>4, <4>1, <4>2, WaitMoves
    <3>6. CASE s = "nil"
      <4>1. sem' = [sem EXCEPT ![p][m] = "wait"] /\ npc'[g] = "recheck"
        BY <1>2, <1>3, <2>3, <3>1, <3>6 DEF NetpollBlock, SetSem, NGoto
      <4>2. l \in WaitingPc /\ l # "throw"
        BY <1>2, <4>1 DEF WaitingPc
      <4>3. \A q \in PollDescs, n \in Modes : sem'[q][n] = "wait" => sem[q][n] = "wait" \/ (q = p /\ n = m)
        BY <1>2, <4>1
      <4> QED BY <1>1, <1>2, <1>3, <3>4, <4>2, <4>3, WaitMoves
    <3> QED BY <3>4, <3>5, <3>6
  <2>4. CASE NetpollRecheck(g)
    <3>1. sem' = sem /\ npc[g] = "recheck" /\ l \in WaitingPc /\ l # "throw"
      BY <1>2, <2>4 DEF NetpollRecheck, descVars, WaitingPc, Trans
    <3> QED BY <1>1, <1>2, <3>1, WaitMoves
  <2>5. CASE NetpollBlockCommit(g)
    <3>1. npc[g] = "commit" /\ l # "throw"
      BY <1>2, <2>5 DEF NetpollBlockCommit, Trans
    <3>2. CASE sem[p][m] = "wait"
      <4>1. sem' = [sem EXCEPT ![p][m] = g] /\ g # "wait"
        BY <1>3, <2>5, <3>2, PollAssumption DEF NetpollBlockCommit, SetSem
      <4>2. \A q \in PollDescs, n \in Modes : sem'[q][n] = "wait" => sem[q][n] = "wait" /\ ~(p = q /\ m = n)
        BY <1>2, <4>1
      <4> QED BY <1>1, <1>2, <1>3, <3>1, <4>2, WaitMoves
    <3>3. CASE sem[p][m] # "wait"
      <4>1. sem' = sem /\ npc'[g] = "resume"
        BY <1>2, <1>3, <2>5, <3>3 DEF NetpollBlockCommit, NGoto
      <4>2. l \in WaitingPc
        BY <1>2, <4>1 DEF WaitingPc
      <4> QED BY <1>1, <1>2, <3>1, <4>1, <4>2, WaitMoves
    <3> QED BY <3>2, <3>3
  <2>6. CASE NetpollResume(g)
    <3>1. npc[g] = "resume" /\ sem' = [sem EXCEPT ![p][m] = "nil"]
      BY <1>3, <2>6 DEF NetpollResume, SetSem
    <3>2. sem[npd[g]][mode(g)] \notin Goroutines
      BY <3>1, OwnPlace
    <3>3. l # "throw"
      BY <1>2, <2>6, <3>2 DEF NetpollResume, NGoto, PollReturn
    <3>4. \A q \in PollDescs, n \in Modes : sem'[q][n] = "wait" => sem[q][n] = "wait" /\ ~(p = q /\ m = n)
      BY <1>2, <3>1
    <3>5. WaitInv'
      BY <1>1, <1>2, <1>3, <3>4, WaitMoves
    <3> QED BY <3>3, <3>5
  <2> QED BY <2>1, <2>2, <2>3, <2>4, <2>5, <2>6
<1>9. NeverThrows'
  BY <1>1, <1>2, <1>8, NeverHop
<1> QED BY <1>7, <1>8, <1>9

LEMMA ThrowGoready ==
  ASSUME ThrowInv, UNCHANGED fdVars, NEW a \in Actors, NetpollGoready(a)
  PROVE  LockInv' /\ WaitInv' /\ ClosingInv' /\ TimerInv' /\ NeverThrows'
<1> USE DEF ThrowInv, DescInv
<1>1. /\ npc[a] = "ready" /\ npd' = npd /\ todo' = todo /\ sem' = sem /\ a \notin woken[a]
      /\ npc'[a] = "idle"
  <2>1. a \notin woken[a]
    BY GoreadyFacts DEF PollTypeOK
  <2> QED BY <2>1, GoreadyFacts
<1>2. /\ \A g \in Goroutines : g \in woken[a] => npc[g] = "parked" /\ npc'[g] = "resume"
      /\ \A b \in Actors \ {a} : npc'[b] = IF b \in woken[a] THEN "resume" ELSE npc[b]
  BY GoreadyFacts
<1>3. /\ Goroutines \subseteq Actors /\ TimerProcs \subseteq Actors
      /\ Goroutines \cap TimerProcs = {} /\ woken[a] \subseteq Goroutines
  BY PollAssumption DEF Actors, PollTypeOK
<1>4. \A b \in Actors : npc'[b] = npc[b] \/ npc'[b] = "idle" \/ (npc'[b] = "resume" /\ npc[b] = "parked")
  BY <1>1, <1>2, <1>3
<1>5. UNCHANGED <<pdLock, closing, seq, deadline, timer>> /\ \A b \in Actors \ {a} : when'[b] = when[b]
  BY DEF NetpollGoready, descVars, PollTypeOK, ControlOK
<1>6. LockInv'
  BY <1>1, <1>4, <1>5, LockKeeps DEF Holding
<1>7. WaitInv'
  <2>1. ASSUME NEW g \in Goroutines, npc[g] \in WaitingPc
        PROVE  npc'[g] \in WaitingPc /\ npd'[g] = npd[g] /\ todo'[g] = todo[g]
    <3>1. g # a /\ g \notin woken[a]
      BY <1>1, <1>2, <2>1 DEF WaitingPc
    <3> QED BY <1>1, <1>2, <1>3, <2>1, <3>1
  <2> QED BY <1>1, <2>1, WaitKeeps
<1>8. ClosingInv'
  <2>1. ASSUME NEW g \in Goroutines
        PROVE  /\ npc[g] = "idle" => npc'[g] = "idle"
               /\ npd'[g] = npd[g]
               /\ npc[g] = "open" => npc'[g] = "open"
               /\ npc'[g] = "evict" <=> npc[g] = "evict"
    BY <1>1, <1>2, <1>3
  <2> QED BY <1>5, <2>1, ClosingPoll
<1>9. TimerInv'
  <2>1. ASSUME NEW t \in TimerProcs
        PROVE  \/ npc'[t] \notin FiringPc
               \/ npc'[t] = npc[t] /\ npd'[t] = npd[t] /\ todo'[t] = todo[t] /\ when'[t] = when[t]
    <3>1. CASE t = a
      BY <1>1, <3>1 DEF FiringPc
    <3>2. CASE t # a
      BY <1>1, <1>2, <1>3, <1>5, <3>2
    <3> QED BY <3>1, <3>2
  <2> QED BY <1>5, <2>1, TimersKeep
<1>10. NeverThrows'
  BY <1>4 DEF NeverThrows
<1> QED BY <1>6, <1>7, <1>8, <1>9, <1>10

LEMMA ThrowStays ==
  ASSUME ThrowInv, UNCHANGED fdVars, UNCHANGED <<closing, seq, deadline, timer, pdLock, sem, npc, npd, todo, when>>
  PROVE  LockInv' /\ WaitInv' /\ ClosingInv' /\ TimerInv' /\ NeverThrows'
<1> USE DEF ThrowInv
<1>1. LockInv' /\ WaitInv' /\ TimerInv'
  BY LockKeeps, WaitKeeps, TimersKeep DEF Holding
<1>2. ClosingInv'
  BY ClosingPoll
<1> QED BY <1>1, <1>2 DEF NeverThrows

LEMMA ThrowCallNext ==
  ASSUME ThrowInv, NEW g \in Goroutines, CallNext(g)
  PROVE  LockInv' /\ WaitInv' /\ ClosingInv' /\ TimerInv' /\ NeverThrows'
<1> USE DEF ThrowInv
<1>1. PICK o \in Op : /\ fpc[g] = "idle" /\ fpc' = [fpc EXCEPT ![g] = FirstPc[o.kind]]
                      /\ op' = [op EXCEPT ![g] = o]
  BY CallNextFact DEF DescInv
<1>2. PICK l \in {"open", "rwlock", "incref", "close"} : l = FirstPc[o.kind]
  <2>1. o.kind \in {"open", "io", "setdeadline", "misc", "close"}
    BY DEF Op
  <2> QED BY <2>1 DEF FirstPc
<1>3. UNCHANGED <<ctx, fdmu, closing, seq, deadline, timer, pdLock, sem, npc, npd, todo, when>>
  BY DEF CallNext, Invoke, fileVars, pollVars
<1>4. /\ fpc'[g] = l
      /\ \A h \in Goroutines \ {g} : fpc'[h] = fpc[h] /\ op'[h] = op[h] /\ file(h)' = file(h)
  BY <1>1, <1>2 DEF DescInv, FDInv, FDTypeOK, file
<1>5. LockInv' /\ WaitInv' /\ TimerInv'
  BY <1>3, LockKeeps, WaitKeeps, TimersKeep DEF Holding
<1>6. ClosingInv'
  <2>1. ~Evicting(g) /\ ~Evicting(g)'
    BY <1>1, <1>4 DEF Evicting
  <2>2. \A h \in Goroutines \ {g} : Evicting(h)' <=> Evicting(h)
    BY <1>3, <1>4 DEF Evicting
  <2>3. \A f \in Files : Evicted(f)' <=> Evicted(f)
    BY <1>3, <1>4, <2>1, <2>2 DEF Evicted
  <2>4. ASSUME NEW f \in Files, NEW p \in PollDescs, FileHas(f, p)'
        PROVE  FileHas(f, p)
    <3>1. \A h \in Goroutines : fpc[h] = "closefunc" => h # g
      BY <1>1
    <3> QED BY <1>3, <1>4, <2>4, <3>1 DEF FileHas, Keeps
  <2>5. ASSUME NEW h \in Goroutines, NEW p \in PollDescs, OpenerHas(h, p)'
        PROVE  OpenerHas(h, p) /\ (OpenEvicted(h)' <=> OpenEvicted(h))
    <3>1. h # g
      BY <1>2, <1>4, <2>5 DEF OpenerHas
    <3> QED BY <1>3, <1>4, <2>5, <3>1 DEF OpenerHas, OpenEvicted
  <2> QED BY <1>3, <2>3, <2>4, <2>5, ClosingKeeps
<1> QED BY <1>3, <1>5, <1>6 DEF NeverThrows

\* Who destroys a file has its descriptor until it is freed.
LEMMA DestroyerHas ==
  ASSUME DescInv, NEW g \in Goroutines, fpc[g] = "closefunc", npc[g] # "idle"
  PROVE  /\ file(g) \in Files /\ FileHas(file(g), npd[g]) /\ fdmu[file(g)].closed
         /\ fdmu[file(g)].refs = 0
<1> USE DEF DescInv
<1>1. file(g) \in Files /\ npd[g] = ctx[file(g)]
  BY CallFacts DEF CallInv, OpenPc
<1>2. \A h \in Goroutines : fpc[h] = "closefunc" /\ file(h) = file(g) => h = g
  BY DEF LifeInv, DestroyInv, DestroyPc
<1> QED BY <1>1, <1>2 DEF FileHas, Keeps, LifeInv, DestroyInv, DestroyPc

\* Who uses a file: its descriptor stays.
LEMMA UserHas ==
  ASSUME DescInv, NEW g \in Goroutines, fpc[g] \in ReferencePc, npc[g] # "idle"
  PROVE  /\ file(g) \in Files /\ FileHas(file(g), npd[g]) /\ fdmu[file(g)].refs # 0
<1> USE DEF DescInv
<1>1. fpc[g] # "idle" /\ fpc[g] \notin OpenPc
  BY DEF ReferencePc, LockedPc, OpenPc
<1>2. PICK f \in Files : f = file(g) /\ fdmu[f].refs # 0
  BY <1>1, Here
<1>3. npd[g] = ctx[f]
  BY <1>1, <1>2 DEF CallInv
<1>4. Keeps(f)
  BY <1>2 DEF Keeps, LifeInv, DestroyInv, DestroyPc
<1> QED BY <1>2, <1>3, <1>4 DEF FileHas

\* One Close evicts a file.
LEMMA EvictsAlone ==
  ASSUME DescInv, NEW g \in Goroutines, fpc[g] = "decref", op[g].kind = "close"
  PROVE  /\ fdmu[file(g)].closed
         /\ \A h \in Goroutines \ {g} : file(h) = file(g) => ~Evicting(h)
<1> USE DEF DescInv
<1>1. Closer(g)
  BY DEF Closer
<1>2. fdmu[file(g)].closed /\ \A h \in Goroutines : Closer(h) /\ file(h) = file(g) => h = g
  BY <1>1 DEF LifeInv, CloserInv
<1>3. \A h \in Goroutines : Evicting(h) => Closer(h)
  BY DEF Evicting, Closer, CallInv, InPoll, WaitPc
<1> QED BY <1>2, <1>3

\* The descriptor that is closed is a closing one, and nobody waits there.
LEMMA ReadyToClose ==
  ASSUME ThrowInv, NEW g \in Goroutines, npc[g] = "close"
  PROVE  npd[g] \in PollDescs /\ closing[npd[g]] /\ ~Blocked(npd[g])
<1> USE DEF ThrowInv, DescInv
<1>1. fpc[g] \in {"unpolled", "closefunc"}
  BY DEF CallInv, InPoll, WaitPc
<1>2. PICK p \in PollDescs : p = npd[g]
  BY DEF PollTypeOK, ControlOK, Actors
<1>3. CASE fpc[g] = "unpolled"
  <2>1. OpenerHas(g, p) /\ OpenEvicted(g)
    BY <1>2, <1>3 DEF OpenerHas, OpenEvicted
  <2>2. closing[p]
    BY <2>1 DEF ClosingInv
  <2>3. \A h \in Goroutines : npc[h] \in WaitPc => npd[h] # p
    BY <2>1, WaiterFacts DEF OwnInv
  <2> QED BY <1>2, <2>2, <2>3, NoWaiters
<1>4. CASE fpc[g] = "closefunc"
  <2>1. PICK f \in Files : f = file(g) /\ FileHas(f, p) /\ fdmu[f].closed /\ fdmu[f].refs = 0
    BY <1>2, <1>4, DestroyerHas
  <2>2. ASSUME NEW h \in Goroutines, file(h) = f
        PROVE  fpc[h] \notin ReferencePc /\ ~Evicting(h) /\ ~(npc[h] \in WaitPc /\ npd[h] = p)
    <3>1. fpc[h] \notin ReferencePc
      <4>1. fpc[h] \in ReferencePc => fpc[h] # "idle"
        BY DEF ReferencePc, LockedPc
      <4> QED BY <2>1, <2>2, <4>1, Here
    <3>2. fpc[h] \notin {"release", "decref", "prepared"}
      BY <3>1 DEF ReferencePc, LockedPc
    <3> QED BY <3>1, <3>2, WaiterFacts DEF Evicting
  <2>3. Evicted(f)
    BY <2>1, <2>2 DEF Evicted
  <2>4. closing[p]
    BY <2>1, <2>3 DEF ClosingInv
  <2>5. \A h \in Goroutines : npc[h] \in WaitPc => npd[h] # p
    <3>1. SUFFICES ASSUME NEW h \in Goroutines, npc[h] \in WaitPc, npd[h] = p
                   PROVE  FALSE
      OBVIOUS
    <3>2. pdFile[p] = file(h) /\ pdFile[p] = f
      BY <2>1, <3>1, WaiterFacts DEF OwnInv
    <3> QED BY <2>2, <3>1, <3>2
  <2> QED BY <1>2, <2>4, <2>5, NoWaiters
<1> QED BY <1>1, <1>3, <1>4

LEMMA ThrowRegister ==
  ASSUME ThrowInv, UNCHANGED fdVars, NEW g \in Goroutines,
         PollOpenRegister(g) \/ PollClose(g) \/ PollFree(g)
  PROVE  LockInv' /\ WaitInv' /\ ClosingInv' /\ TimerInv' /\ NeverThrows'
<1> USE DEF ThrowInv, DescInv
<1>1. PICK l : Hop(g, l)
  BY LifeHops
<1>2. g \in Actors /\ g \notin TimerProcs /\ npc'[g] = l /\ Trans(npc[g], l)
  BY <1>1, PollAssumption, HopFact DEF Actors, Hop
<1>3. npc[g] \in {"register", "close", "free"} /\ UNCHANGED <<pdLock, closing, seq, deadline, timer, sem>>
  BY DEF PollOpenRegister, PollClose, PollFree, descVars
<1>4. l # "throw"
  <2>1. CASE PollClose(g)
    <3>1. npc[g] = "close"
      BY <2>1 DEF PollClose
    <3>2. closing[npd[g]] /\ ~Blocked(npd[g])
      BY <3>1, ReadyToClose
    <3>3. NGoto(g, "free")
      BY <2>1, <3>2 DEF PollClose
    <3> QED BY <1>2, <3>3 DEF NGoto, PollTypeOK, ControlOK
  <2>2. CASE PollOpenRegister(g) \/ PollFree(g)
    BY <1>2, <2>2 DEF PollOpenRegister, PollFree, Trans
  <2> QED BY <2>1, <2>2
<1>5. \A b \in Actors \ {g} : when'[b] = when[b]
  BY <1>2, OthersWhen DEF PollOpenRegister, PollClose, PollFree
<1>6. l \notin {"unblock", "evict2", "expire"} /\ npc[g] \notin WaitingPc
  BY <1>2, <1>3 DEF Trans, WaitingPc
<1>7. LockInv' /\ ClosingInv' /\ TimerInv' /\ NeverThrows'
  BY <1>1, <1>2, <1>3, <1>4, <1>5, <1>6, LockHop, ClosingHop, TimersHop, NeverHop
<1>8. WaitInv'
  BY <1>1, <1>2, <1>3, <1>6, WaitMoves
<1> QED BY <1>7, <1>8

\* The timers of a descriptor whose seq grows count no more.
LEMMA TimerNew ==
  ASSUME PollTypeOK, LockInv, NEW p \in PollDescs, TimerAges(p), ~Locked(p),
         seq'[p] = seq[p] + 1, timer'[p] = timer[p],
         \A t \in TimerProcs : npc'[t] = npc[t] /\ npd'[t] = npd[t] /\ when'[t] = when[t]
  PROVE  TimerAges(p)' /\ TimerOne(p)'
<1>1. /\ seq[p] \in Nat /\ TimerProcs \subseteq Actors /\ \A a \in Actors : when[a] \in Int
      /\ \A n \in Modes : timer[p][n].seq \in Nat
  BY DEF PollTypeOK, ControlOK, Actors, TimerType
<1>2. \A t \in TimerProcs : npd'[t] = p => npc'[t] \notin {"unblock", "evict2", "expire"}
  BY <1>1, PollAssumption DEF LockInv, Locked, Holding, Actors
<1>3. \A n \in Modes : timer'[p][n].armed => timer'[p][n].seq < seq'[p]
  BY <1>1 DEF TimerAges
<1>4. \A t \in TimerProcs : npc'[t] = "deadline" /\ npd'[t] = p => when'[t] < seq'[p]
  BY <1>1 DEF TimerAges
<1>5. \A n \in Modes : ~Armed(p, n)'
  BY <1>1, <1>3 DEF Armed
<1>6. \A t \in TimerProcs : ~Due(p, t)'
  BY <1>1, <1>4 DEF Due
<1>7. \A t \in TimerProcs, m \in Modes : ~Firing(p, m, t)'
  BY <1>2, <1>6 DEF Firing
<1>8. TimerAges(p)'
  BY <1>1, <1>2, <1>3, <1>4, <1>5, <1>6 DEF TimerAges
<1>9. TimerOne(p)'
  BY <1>5, <1>7 DEF TimerOne, ArmedFor
<1> QED BY <1>8, <1>9

\* The timers that are set for a pair of deadlines.
LEMMA TimersForFacts ==
  ASSUME NEW dl \in [Modes -> Int], NEW s \in Nat, NEW T, T = TimersFor(dl, s)
  PROVE  /\ \A n \in Modes : T[n].armed => T[n].seq = s /\ T[n].f # {}
         /\ \A n, m \in Modes : m \in T[n].f => dl[m] > 0
         /\ \A n, k, m \in Modes : m \in T[n].f /\ m \in T[k].f => n = k
<1> DEFINE set(fs) == [f |-> fs, armed |-> TRUE, seq |-> s]
<1>1. /\ \A fs : set(fs).f = fs /\ set(fs).seq = s
      /\ NoTimer.f = {} /\ ~NoTimer.armed
  BY DEF NoTimer
<1>2. CASE dl["r"] > 0 /\ dl["r"] = dl["w"]
  <2>1. T = [m \in Modes |-> IF m = "r" THEN set(Modes) ELSE NoTimer]
    BY <1>2 DEF TimersFor
  <2>2. T["r"] = set(Modes) /\ T["w"] = NoTimer
    BY <2>1 DEF Modes
  <2> HIDE DEF set
  <2> QED BY <1>1, <1>2, <2>2 DEF Modes
<1>3. CASE ~(dl["r"] > 0 /\ dl["r"] = dl["w"])
  <2>1. T = [m \in Modes |-> IF dl[m] > 0 THEN set({m}) ELSE NoTimer]
    BY <1>3 DEF TimersFor
  <2>2. \A m \in Modes : T[m] = IF dl[m] > 0 THEN set({m}) ELSE NoTimer
    BY <2>1
  <2> HIDE DEF set
  <2>3. \A n \in Modes : dl[n] > 0 => T[n] = set({n})
    BY <2>2
  <2>4. \A n \in Modes : ~(dl[n] > 0) => T[n] = NoTimer
    BY <2>2
  <2>5. ASSUME NEW n \in Modes
        PROVE  /\ T[n].armed => T[n].seq = s /\ T[n].f # {}
               /\ \A m \in Modes : m \in T[n].f => dl[m] > 0 /\ m = n
    <3>1. CASE dl[n] > 0
      <4>1. T[n] = set({n})
        BY <2>3, <3>1
      <4>2. T[n].f = {n} /\ T[n].seq = s
        BY <1>1, <4>1, Zenon
      <4>3. n \in {n} /\ \A m \in {n} : m = n
        OBVIOUS
      <4>4. T[n].f # {} /\ \A m \in Modes : m \in T[n].f => m = n
        BY <4>2, <4>3
      <4> QED BY <3>1, <4>2, <4>4
    <3>2. CASE ~(dl[n] > 0)
      BY <1>1, <2>4, <3>2
    <3> QED BY <3>1, <3>2
  <2> QED BY <2>5
<1> QED BY <1>2, <1>3

LEMMA ThrowOpenReset ==
  ASSUME ThrowInv, UNCHANGED fdVars, NEW g \in Goroutines, PollOpenReset(g, file(g))
  PROVE  LockInv' /\ WaitInv' /\ ClosingInv' /\ TimerInv' /\ NeverThrows'
<1> USE DEF ThrowInv, DescInv
<1>1. PICK l : Hop(g, l)
  BY LifeHops
<1>2. g \in Actors /\ g \notin TimerProcs /\ npc'[g] = l /\ npd' = npd /\ TimerProcs \subseteq Actors
      /\ Goroutines \subseteq Actors
  BY <1>1, PollAssumption, HopFact DEF Actors
<1>3. \A b \in Actors \ {g} : npc'[b] = npc[b] /\ todo'[b] = todo[b]
  BY <1>1, <1>2, HopFact
<1>4. npc[g] = "open" /\ ~Locked(npd[g])
  BY DEF PollOpenReset
<1>5. fpc[g] = "opening"
  BY <1>4 DEF CallInv, InPoll, WaitPc
<1>6. PICK p \in PollDescs : p = npd[g]
  BY <1>2 DEF PollTypeOK, ControlOK
<1>7. OpenerHas(g, p)
  BY <1>5, <1>6 DEF OpenerHas
<1>8. ~Blocked(p)
  <2>1. \A h \in Goroutines : npc[h] \in WaitPc => npd[h] # p
    BY <1>7, WaiterFacts DEF OwnInv
  <2> QED BY <2>1, NoWaiters
<1>9. /\ closing' = [closing EXCEPT ![p] = FALSE] /\ seq' = [seq EXCEPT ![p] = seq[p] + 1]
      /\ sem' = [sem EXCEPT ![p] = [m \in Modes |-> "nil"]]
      /\ deadline' = [deadline EXCEPT ![p] = [m \in Modes |-> 0]]
      /\ NGoto(g, "register") /\ UNCHANGED <<timer, pdLock>>
  BY <1>6, <1>8 DEF PollOpenReset
<1>10. l = "register" /\ when' = when
  BY <1>2, <1>9 DEF NGoto, PollTypeOK, ControlOK
<1>11. LockInv' /\ NeverThrows'
  BY <1>1, <1>2, <1>9, <1>10, LockHop, NeverHop
<1>12. WaitInv'
  <2>1. sem \in [PollDescs -> [Modes -> SemType]] /\ npc[g] \notin WaitingPc
    BY <1>4 DEF PollTypeOK, WaitingPc
  <2>2. \A q \in PollDescs, n \in Modes : sem'[q][n] = "wait" => sem[q][n] = "wait"
    BY <1>9, <2>1
  <2> QED BY <1>1, <1>2, <2>1, <2>2, WaitMoves
<1>13. ClosingInv'
  <2>1. UNCHANGED <<fpc, op, ctx, fdmu>>
    BY DEF fdVars
  <2>2. \A h \in Goroutines : file(h)' = file(h) /\ (Evicting(h)' <=> Evicting(h)) /\ (OpenEvicted(h)' <=> OpenEvicted(h))
    BY <1>2, <1>3, <1>5, <2>1 DEF file, Evicting, OpenEvicted
  <2>3. \A f \in Files : Evicted(f)' <=> Evicted(f)
    BY <2>1, <2>2 DEF Evicted
  <2>4. /\ closing'[p] = FALSE /\ \A q \in PollDescs : q # p => closing'[q] = closing[q]
    BY <1>9 DEF PollTypeOK
  <2>5. ASSUME NEW f \in Files, NEW q \in PollDescs, FileHas(f, q)'
        PROVE  closing'[q] <=> Evicted(f)'
    <3>1. FileHas(f, q)
      BY <1>2, <1>3, <1>4, <2>1, <2>2, <2>5 DEF FileHas, Keeps
    <3>2. q # p
      BY <1>7, <3>1 DEF OwnInv
    <3> QED BY <2>3, <2>4, <3>1, <3>2 DEF ClosingInv
  <2>6. ASSUME NEW h \in Goroutines, NEW q \in PollDescs, OpenerHas(h, q)', npc'[h] # "open"
        PROVE  closing'[q] <=> OpenEvicted(h)'
    <3>1. CASE h = g
      BY <1>2, <1>5, <1>6, <2>1, <2>4, <2>6, <3>1 DEF OpenerHas, OpenEvicted
    <3>2. CASE h # g
      <4>1. OpenerHas(h, q) /\ npc[h] # "open"
        BY <1>2, <1>3, <2>1, <2>6, <3>2 DEF OpenerHas
      <4>2. q # p
        BY <1>7, <3>2, <4>1 DEF OwnInv
      <4> QED BY <2>2, <2>4, <4>1, <4>2 DEF ClosingInv
    <3> QED BY <3>1, <3>2
  <2> QED BY <2>5, <2>6 DEF ClosingInv
<1>14. TimerInv'
  <2>1. \A t \in TimerProcs : npc'[t] = npc[t] /\ npd'[t] = npd[t] /\ when'[t] = when[t] /\ todo'[t] = todo[t]
    BY <1>2, <1>3, <1>10
  <2>2. seq'[p] = seq[p] + 1
    BY <1>9 DEF PollTypeOK
  <2>3. TimerAges(p)' /\ TimerOne(p)'
    BY <1>4, <1>6, <1>9, <2>1, <2>2, TimerNew DEF TimerInv
  <2>4. ASSUME NEW q \in PollDescs \ {p}
        PROVE  TimerAges(q)' /\ TimerOne(q)'
    <3>1. closing'[q] = closing[q] /\ seq'[q] = seq[q] /\ deadline'[q] = deadline[q] /\ timer'[q] = timer[q]
      BY <1>9 DEF PollTypeOK
    <3> QED BY <2>1, <3>1, TimerSame DEF TimerInv
  <2> QED BY <2>3, <2>4 DEF TimerInv
<1> QED BY <1>11, <1>12, <1>13, <1>14

LEMMA ThrowUnblock ==
  ASSUME ThrowInv, UNCHANGED fdVars, NEW g \in Goroutines, PollUnblock(g)
  PROVE  LockInv' /\ WaitInv' /\ ClosingInv' /\ TimerInv' /\ NeverThrows'
<1> USE DEF ThrowInv, DescInv
<1>1. PICK l : Hop(g, l)
  BY LifeHops
<1>2. g \in Actors /\ g \notin TimerProcs /\ npc'[g] = l /\ npd' = npd /\ TimerProcs \subseteq Actors
      /\ Goroutines \subseteq Actors
  BY <1>1, PollAssumption, HopFact DEF Actors
<1>3. \A b \in Actors \ {g} : npc'[b] = npc[b] /\ todo'[b] = todo[b]
  BY <1>1, <1>2, HopFact
<1>4. npc[g] = "evict" /\ ~Locked(npd[g])
  BY DEF PollUnblock
<1>5. fpc[g] = "unpoll" \/ (fpc[g] = "decref" /\ op[g].kind = "close")
  BY <1>4 DEF CallInv, InPoll, WaitPc
<1>6. PICK p \in PollDescs : p = npd[g]
  BY <1>2 DEF PollTypeOK, ControlOK
<1>7. fpc[g] = "unpoll" => OpenerHas(g, p)
  BY <1>6 DEF OpenerHas
<1>8. fpc[g] = "decref" => FileHas(file(g), p) /\ file(g) \in Files
  BY <1>4, <1>6, UserHas DEF ReferencePc
<1>9. ~closing[p]
  <2>1. fpc[g] = "unpoll" => ~OpenEvicted(g)
    BY <1>4 DEF OpenEvicted
  <2>2. fpc[g] = "decref" => ~Evicted(file(g))
    BY <1>4 DEF Evicted, Evicting
  <2> QED BY <1>4, <1>5, <1>7, <1>8, <2>1, <2>2 DEF ClosingInv
<1>10. /\ closing' = [closing EXCEPT ![p] = TRUE] /\ seq' = [seq EXCEPT ![p] = seq[p] + 1]
       /\ pdLock' = [pdLock EXCEPT ![npd[g]] = g] /\ NGoto(g, "evict2")
       /\ UNCHANGED <<sem, deadline, timer>>
  BY <1>6, <1>9 DEF PollUnblock
<1>11. l = "evict2" /\ when' = when /\ todo' = todo
  BY <1>2, <1>10 DEF NGoto, PollTypeOK, ControlOK
<1>12. LockInv' /\ NeverThrows'
  BY <1>1, <1>2, <1>3, <1>4, <1>10, <1>11, LockTakes, NeverHop
<1>13. WaitInv'
  <2>1. npc[g] \notin WaitingPc
    BY <1>4 DEF WaitingPc
  <2> QED BY <1>1, <1>2, <1>10, <2>1, WaitMoves
<1>14. ClosingInv'
  <2>1. UNCHANGED <<fpc, op, ctx, fdmu>>
    BY DEF fdVars
  <2>2. /\ \A h \in Goroutines : file(h)' = file(h)
        /\ \A h \in Goroutines \ {g} : (Evicting(h)' <=> Evicting(h)) /\ (OpenEvicted(h)' <=> OpenEvicted(h))
        /\ ~Evicting(g)'
    BY <1>2, <1>3, <1>5, <1>11, <2>1 DEF file, Evicting, OpenEvicted
  <2>3. /\ closing'[p] = TRUE /\ \A q \in PollDescs : q # p => closing'[q] = closing[q]
    BY <1>10 DEF PollTypeOK
  <2>4. ASSUME NEW f \in Files, NEW q \in PollDescs, FileHas(f, q)'
        PROVE  closing'[q] <=> Evicted(f)'
    <3>1. FileHas(f, q)
      BY <1>2, <1>3, <1>4, <2>1, <2>2, <2>4 DEF FileHas, Keeps
    <3>2. CASE fpc[g] = "decref" /\ f = file(g)
      <4>1. q = p
        BY <1>8, <3>1, <3>2 DEF FileHas
      <4>2. Evicted(f)'
        BY <1>5, <2>1, <2>2, <3>2, EvictsAlone DEF Evicted
      <4> QED BY <2>3, <4>1, <4>2
    <3>3. CASE ~(fpc[g] = "decref" /\ f = file(g))
      <4>1. q # p
        BY <1>5, <1>7, <1>8, <3>1, <3>3 DEF OwnInv
      <4>2. file(g) = f => ~Evicting(g)
        BY <1>5, <3>3 DEF Evicting
      <4>3. Evicted(f)' <=> Evicted(f)
        BY <2>1, <2>2, <4>2 DEF Evicted
      <4> QED BY <2>3, <3>1, <4>1, <4>3 DEF ClosingInv
    <3> QED BY <3>2, <3>3
  <2>5. ASSUME NEW h \in Goroutines, NEW q \in PollDescs, OpenerHas(h, q)', npc'[h] # "open"
        PROVE  closing'[q] <=> OpenEvicted(h)'
    <3>1. OpenerHas(h, q) /\ npc[h] # "open"
      BY <1>2, <1>3, <1>4, <2>1, <2>5 DEF OpenerHas
    <3>2. CASE h = g
      <4>1. fpc[g] = "unpoll" /\ q = p
        BY <1>5, <1>6, <3>1, <3>2 DEF OpenerHas
      <4> QED BY <1>2, <1>11, <2>1, <2>3, <3>2, <4>1 DEF OpenEvicted
    <3>3. CASE h # g
      <4>1. q # p
        BY <1>5, <1>7, <1>8, <3>1, <3>3 DEF OwnInv
      <4> QED BY <2>2, <2>3, <3>1, <3>3, <4>1 DEF ClosingInv
    <3> QED BY <3>2, <3>3
  <2> QED BY <2>4, <2>5 DEF ClosingInv
<1>15. TimerInv'
  <2>1. \A t \in TimerProcs : npc'[t] = npc[t] /\ npd'[t] = npd[t] /\ when'[t] = when[t] /\ todo'[t] = todo[t]
    BY <1>2, <1>3, <1>11
  <2>2. seq'[p] = seq[p] + 1
    BY <1>10 DEF PollTypeOK
  <2>3. TimerAges(p)' /\ TimerOne(p)'
    BY <1>4, <1>6, <1>10, <2>1, <2>2, TimerNew DEF TimerInv
  <2>4. ASSUME NEW q \in PollDescs \ {p}
        PROVE  TimerAges(q)' /\ TimerOne(q)'
    <3>1. closing'[q] = closing[q] /\ seq'[q] = seq[q] /\ deadline'[q] = deadline[q] /\ timer'[q] = timer[q]
      BY <1>10 DEF PollTypeOK
    <3> QED BY <2>1, <3>1, TimerSame DEF TimerInv
  <2> QED BY <2>3, <2>4 DEF TimerInv
<1> QED BY <1>12, <1>13, <1>14, <1>15

\* The deadlines that a call sets have timers of their own, of the new seq.
LEMMA TimerSets ==
  ASSUME PollTypeOK, LockInv, NEW p \in PollDescs, TimerAges(p), ~Locked(p), ~closing'[p],
         seq'[p] = seq[p] + 1, NEW dl \in [Modes -> Int], deadline'[p] = dl,
         timer'[p] = TimersFor(dl, seq[p] + 1),
         \A t \in TimerProcs : npc'[t] = npc[t] /\ npd'[t] = npd[t] /\ when'[t] = when[t]
  PROVE  TimerAges(p)' /\ TimerOne(p)'
<1>1. seq[p] \in Nat /\ TimerProcs \subseteq Actors /\ \A a \in Actors : when[a] \in Int
  BY DEF PollTypeOK, ControlOK, Actors
<1>2. PICK T, s : T = timer'[p] /\ s = seq[p] + 1 /\ s = seq'[p]
  OBVIOUS
<1>3. /\ \A n \in Modes : T[n].armed => T[n].seq = s /\ T[n].f # {}
      /\ \A n, m \in Modes : m \in T[n].f => dl[m] > 0
      /\ \A n, k, m \in Modes : m \in T[n].f /\ m \in T[k].f => n = k
  <2>1. s \in Nat
    BY <1>1, <1>2
  <2>2. T = TimersFor(dl, s)
    BY <1>2
  <2> QED BY <2>1, <2>2, TimersForFacts
<1>4. \A t \in TimerProcs : npd'[t] = p => npc'[t] \notin {"unblock", "evict2", "expire"}
  BY <1>1, PollAssumption DEF LockInv, Locked, Holding, Actors
<1>5. \A t \in TimerProcs : npc'[t] = "deadline" /\ npd'[t] = p => when'[t] < seq'[p]
  BY <1>1 DEF TimerAges
<1>6. \A t \in TimerProcs : ~Due(p, t)'
  BY <1>1, <1>5 DEF Due
<1>7. \A t \in TimerProcs, m \in Modes : ~Firing(p, m, t)'
  BY <1>4, <1>6 DEF Firing
<1>8. TimerAges(p)'
  <2>1. \A n \in Modes : timer'[p][n].armed => timer'[p][n].seq <= seq'[p] /\ timer'[p][n].f # {}
    BY <1>1, <1>2, <1>3
  <2>2. \A t \in TimerProcs : npc'[t] = "deadline" /\ npd'[t] = p => when'[t] <= seq'[p]
    BY <1>1, <1>5
  <2> QED BY <1>4, <1>6, <2>1, <2>2 DEF TimerAges, Armed
<1>9. TimerOne(p)'
  <2>1. \A m, n \in Modes : ArmedFor(p, m, n)' => m \in T[n].f
    BY <1>2 DEF ArmedFor
  <2>2. ASSUME NEW m \in Modes, NEW n \in Modes, ArmedFor(p, m, n)'
        PROVE  deadline'[p][m] > 0 /\ \A k \in Modes : ArmedFor(p, m, k)' => k = n
    BY <1>3, <2>1, <2>2
  <2> QED BY <1>7, <2>2 DEF TimerOne
<1> QED BY <1>8, <1>9

LEMMA ThrowSetDeadline ==
  ASSUME ThrowInv, UNCHANGED fdVars, NEW g \in Goroutines, PollSetDeadline(g)
  PROVE  LockInv' /\ WaitInv' /\ ClosingInv' /\ TimerInv' /\ NeverThrows'
<1> USE DEF ThrowInv, DescInv
<1>1. PICK l : Hop(g, l)
  BY LifeHops
<1>2. g \in Actors /\ g \notin TimerProcs /\ npc'[g] = l /\ npd' = npd /\ TimerProcs \subseteq Actors
      /\ Trans(npc[g], l)
  BY <1>1, PollAssumption, HopFact DEF Actors, Hop
<1>3. \A b \in Actors \ {g} : npc'[b] = npc[b] /\ todo'[b] = todo[b]
  BY <1>1, <1>2, HopFact
<1>4. npc[g] = "setdeadline" /\ ~Locked(npd[g]) /\ UNCHANGED <<closing, sem>> /\ l \in {"idle", "unblock"}
  BY <1>2 DEF PollSetDeadline, Trans
<1>5. PICK p \in PollDescs : p = npd[g]
  BY <1>2 DEF PollTypeOK, ControlOK
<1>6. \A b \in Actors \ {g} : when'[b] = when[b]
  BY <1>2, OthersWhen DEF PollSetDeadline
<1>7. ClosingInv' /\ NeverThrows' /\ WaitInv'
  <2>1. npc[g] \notin WaitingPc
    BY <1>4 DEF WaitingPc
  <2> QED BY <1>1, <1>2, <1>4, <2>1, ClosingHop, NeverHop, WaitMoves
<1>8. CASE closing[p]
  <2>1. PollReturn(g, "ok") /\ UNCHANGED <<seq, deadline, timer, pdLock>>
    BY <1>5, <1>8 DEF PollSetDeadline
  <2>2. l = "idle"
    BY <1>2, <2>1 DEF PollReturn, PollTypeOK, ControlOK
  <2> QED BY <1>1, <1>2, <1>4, <1>6, <1>7, <2>1, <2>2, LockHop, TimersHop
<1>9. CASE ~closing[p]
  <2>1. PICK dl \in [Modes -> Int] :
          /\ seq' = [seq EXCEPT ![p] = seq[p] + 1] /\ deadline' = [deadline EXCEPT ![p] = dl]
          /\ timer' = [timer EXCEPT ![p] = TimersFor(dl, seq[p] + 1)]
          /\ \/ PollReturn(g, "ok") /\ pdLock' = pdLock
             \/ npc' = [npc EXCEPT ![g] = "unblock"] /\ pdLock' = [pdLock EXCEPT ![npd[g]] = g]
    <3>1. PICK dl : dl = [m \in Modes |-> IF m \in todo[g] THEN when[g] ELSE deadline[p][m]]
      OBVIOUS
    <3>2. dl \in [Modes -> Int]
      BY <1>2, <3>1 DEF PollTypeOK, ControlOK
    <3> QED BY <1>5, <1>9, <3>1, <3>2 DEF PollSetDeadline
  <2>2. LockInv'
    <3>1. CASE PollReturn(g, "ok") /\ pdLock' = pdLock
      <4>1. l = "idle"
        BY <1>2, <3>1 DEF PollReturn, PollTypeOK, ControlOK
      <4> QED BY <1>1, <1>2, <3>1, <4>1, LockHop
    <3>2. CASE pdLock' = [pdLock EXCEPT ![npd[g]] = g]
      BY <1>2, <1>3, <1>4, <3>2, LockTakes
    <3> QED BY <2>1, <3>1, <3>2
  <2>3. TimerInv'
    <3>1. \A t \in TimerProcs : npc'[t] = npc[t] /\ npd'[t] = npd[t] /\ when'[t] = when[t] /\ todo'[t] = todo[t]
      BY <1>2, <1>3, <1>6
    <3>2. /\ seq'[p] = seq[p] + 1 /\ deadline'[p] = dl /\ timer'[p] = TimersFor(dl, seq[p] + 1)
          /\ ~closing'[p]
      BY <1>4, <1>9, <2>1 DEF PollTypeOK
    <3>3. TimerAges(p)' /\ TimerOne(p)'
      BY <1>4, <1>5, <3>1, <3>2, TimerSets DEF TimerInv
    <3>4. ASSUME NEW q \in PollDescs \ {p}
          PROVE  TimerAges(q)' /\ TimerOne(q)'
      <4>1. closing'[q] = closing[q] /\ seq'[q] = seq[q] /\ deadline'[q] = deadline[q] /\ timer'[q] = timer[q]
        BY <1>4, <2>1 DEF PollTypeOK
      <4> QED BY <3>1, <4>1, TimerSame DEF TimerInv
    <3> QED BY <3>3, <3>4 DEF TimerInv
  <2> QED BY <1>7, <2>2, <2>3
<1> QED BY <1>8, <1>9

\* The timers of a descriptor go on with their work.
LEMMA TimerWorks ==
  ASSUME NEW p \in PollDescs, TimerAges(p), TimerOne(p),
         closing'[p] = closing[p], seq'[p] = seq[p], deadline'[p] = deadline[p], timer'[p] = timer[p],
         \A t \in TimerProcs :
           /\ npc'[t] = "deadline" /\ npd'[t] = p =>
                npc[t] = "deadline" /\ npd[t] = p /\ todo'[t] = todo[t] /\ when'[t] = when[t]
           /\ npc'[t] = "expire" /\ npd'[t] = p => todo'[t] # {}
           /\ \A m \in Modes : Firing(p, m, t)' => Firing(p, m, t)
  PROVE  TimerAges(p)' /\ TimerOne(p)'
<1>1. \A n \in Modes : (Armed(p, n)' <=> Armed(p, n)) /\ timer'[p][n] = timer[p][n]
  BY DEF Armed
<1>2. \A m, n \in Modes : ArmedFor(p, m, n)' <=> ArmedFor(p, m, n)
  BY <1>1 DEF ArmedFor
<1>3. \A t \in TimerProcs : Due(p, t)' => Due(p, t) /\ todo'[t] = todo[t]
  BY DEF Due
<1>4. \A m \in Modes : TimerSet(p, m)' <=> TimerSet(p, m)
  BY <1>1 DEF TimerSet
<1>5. TimerAges(p)'
  BY <1>1, <1>3 DEF TimerAges
<1>6. TimerOne(p)'
  BY <1>2, <1>4 DEF TimerOne
<1> QED BY <1>5, <1>6

\* Who has the lock of a descriptor is alone at work on it.
LEMMA HolderAlone ==
  ASSUME PollTypeOK, LockInv, NEW a \in Actors, Holding(a), NEW b \in Actors \ {a}, Holding(b)
  PROVE  npd[b] # npd[a]
BY DEF LockInv

LEMMA LockGives ==
  ASSUME PollTypeOK, LockInv, NEW a \in Actors, Holding(a), pdLock' = [pdLock EXCEPT ![npd[a]] = Nobody],
         npd' = npd, ~Holding(a)', \A b \in Actors \ {a} : npc'[b] = npc[b]
  PROVE  LockInv'
<1>1. SUFFICES ASSUME NEW b \in Actors, Holding(b)'
               PROVE  pdLock'[npd'[b]] = b
  BY DEF LockInv
<1>2. b # a /\ Holding(b)
  BY <1>1 DEF Holding
<1>3. npd[b] # npd[a] /\ pdLock[npd[b]] = b /\ npd[b] \in PollDescs
  BY <1>2, HolderAlone DEF LockInv, PollTypeOK, ControlOK
<1> QED BY <1>3 DEF PollTypeOK

\* The timers of a file that is being closed do not count.
LEMMA EvictsClosing ==
  ASSUME ThrowInv, NEW g \in Goroutines, npc[g] = "evict2"
  PROVE  closing[npd[g]]
<1> USE DEF ThrowInv, DescInv
<1>1. fpc[g] = "unpoll" \/ (fpc[g] = "decref" /\ op[g].kind = "close")
  BY DEF CallInv, InPoll, WaitPc
<1>2. PICK p \in PollDescs : p = npd[g]
  BY DEF PollTypeOK, ControlOK, Actors
<1>3. CASE fpc[g] = "unpoll"
  BY <1>2, <1>3 DEF ClosingInv, OpenerHas, OpenEvicted
<1>4. CASE fpc[g] = "decref" /\ op[g].kind = "close"
  <2>1. FileHas(file(g), p) /\ file(g) \in Files
    BY <1>2, <1>4, UserHas DEF ReferencePc
  <2>2. ~Evicting(g)
    BY <1>4 DEF Evicting
  <2>3. Evicted(file(g))
    BY <1>4, <2>2, EvictsAlone DEF Evicted
  <2> QED BY <1>2, <2>1, <2>3 DEF ClosingInv
<1> QED BY <1>1, <1>3, <1>4

LEMMA ThrowUnblocks ==
  ASSUME ThrowInv, UNCHANGED fdVars, NEW a \in Actors, Unblock(a)
  PROVE  LockInv' /\ WaitInv' /\ ClosingInv' /\ TimerInv' /\ NeverThrows'
<1> USE DEF ThrowInv, DescInv
<1>0. a \in TimerProcs => npc[a] # "evict2"
  BY DEF CallInv
<1>1. PICK l : Hop(a, l) /\ npc[a] \in {"unblock", "evict2"} /\ l \in {"unblock", "evict2", "expire", "ready"}
  BY <1>0, UnblockHops
<1>2. npc'[a] = l /\ npd' = npd /\ Holding(a) /\ DOMAIN npc = Actors /\ TimerProcs \subseteq Actors
      /\ (l = "expire" => a \in TimerProcs)
  BY <1>1, HopFact DEF PollTypeOK, ControlOK, Holding, Actors, Hop
<1>3. \A b \in Actors \ {a} : npc'[b] = npc[b] /\ todo'[b] = todo[b]
  BY <1>1, HopFact
<1>4. PICK p \in PollDescs, m \in Modes, rest \in SUBSET Modes :
        p = npd[a] /\ m = mode(a) /\ rest = todo[a] \ {mode(a)}
  BY ModeFact DEF PollTypeOK, ControlOK
<1>5. /\ UNCHANGED <<closing, seq, deadline, when>> /\ todo' = [todo EXCEPT ![a] = rest]
      /\ sem' = [sem EXCEPT ![p][m] = Unblocked(sem[p][m], FALSE)]
      /\ pdLock' = IF rest = {} THEN [pdLock EXCEPT ![p] = Nobody] ELSE pdLock
      /\ timer' = IF rest = {} /\ npc[a] = "evict2"
                    THEN [timer EXCEPT ![p] = [n \in Modes |-> NoTimer]] ELSE timer
  BY <1>4 DEF Unblock, NetpollUnblock, SetSem
<1>6. npc'[a] = IF rest = {} THEN "ready" ELSE IF a \in TimerProcs THEN "expire" ELSE npc[a]
  BY <1>2, <1>4 DEF Unblock
<1>7. todo'[a] = rest
  BY <1>5 DEF PollTypeOK, ControlOK
<1>8. ClosingInv' /\ NeverThrows'
  BY <1>1, <1>5, ClosingHop, NeverHop
<1>9. WaitInv'
  <2>1. npc[a] \notin WaitingPc /\ sem \in [PollDescs -> [Modes -> SemType]]
    BY <1>1 DEF WaitingPc, PollTypeOK
  <2>2. PICK s : s = sem[p][m]
    OBVIOUS
  <2>3. Unblocked(s, FALSE) = "wait" => FALSE
    BY DEF Unblocked
  <2>4. \A q \in PollDescs, n \in Modes : sem'[q][n] = "wait" => sem[q][n] = "wait"
    BY <1>5, <2>1, <2>2, <2>3
  <2> QED BY <1>1, <2>1, <2>4, WaitMoves
<1>10. LockInv'
  <2>1. CASE rest = {}
    <3>1. ~Holding(a)'
      BY <1>6, <2>1 DEF Holding
    <3> QED BY <1>2, <1>3, <1>4, <1>5, <2>1, <3>1, LockGives
  <2>2. CASE rest # {}
    BY <1>1, <1>2, <1>5, <2>2, LockHop
  <2> QED BY <2>1, <2>2
<1>11. ASSUME NEW t \in TimerProcs
       PROVE  \/ t = a /\ npc[a] = "unblock"
              \/ npc'[t] = npc[t] /\ npd'[t] = npd[t] /\ todo'[t] = todo[t] /\ when'[t] = when[t]
  BY <1>0, <1>1, <1>2, <1>3, <1>5
<1>12. ASSUME a \in TimerProcs
       PROVE  /\ npc'[a] # "deadline" /\ (npc'[a] = "expire" => todo'[a] # {})
              /\ \A q \in PollDescs, n \in Modes : Firing(q, n, a)' => Firing(q, n, a)
  <2>1. npc[a] = "unblock" /\ npc'[a] \in {"ready", "expire"}
    BY <1>0, <1>1, <1>6, <1>12
  <2>2. npc'[a] = "expire" => todo'[a] # {}
    BY <1>6, <1>7
  <2>3. \A q \in PollDescs, n \in Modes : Firing(q, n, a)' => Firing(q, n, a)
    BY <1>2, <1>4, <1>7, <2>1 DEF Firing, Due
  <2> QED BY <2>1, <2>2, <2>3
<1>13. ASSUME timer' = timer
       PROVE  TimerInv'
  <2>1. SUFFICES ASSUME NEW q \in PollDescs
                 PROVE  TimerAges(q)' /\ TimerOne(q)'
    BY DEF TimerInv
  <2>2. ASSUME NEW t \in TimerProcs
        PROVE  /\ npc'[t] = "deadline" /\ npd'[t] = q =>
                    npc[t] = "deadline" /\ npd[t] = q /\ todo'[t] = todo[t] /\ when'[t] = when[t]
               /\ npc'[t] = "expire" /\ npd'[t] = q => todo'[t] # {}
               /\ \A n \in Modes : Firing(q, n, t)' => Firing(q, n, t)
    <3>1. CASE t = a
      BY <1>12, <3>1
    <3>2. CASE t # a
      <4>1. npc'[t] = npc[t] /\ npd'[t] = npd[t] /\ todo'[t] = todo[t] /\ when'[t] = when[t]
        BY <1>11, <3>2
      <4>2. npc[t] = "expire" /\ npd[t] = q => todo[t] # {}
        BY DEF TimerInv, TimerAges
      <4>3. \A n \in Modes : Firing(q, n, t)' <=> Firing(q, n, t)
        BY <1>5, <4>1 DEF Firing, Due, mode
      <4> QED BY <4>1, <4>2, <4>3
    <3> QED BY <3>1, <3>2
  <2> QED BY <1>5, <1>13, <2>2, TimerWorks DEF TimerInv
<1>14. ASSUME npc[a] = "evict2", timer' = [timer EXCEPT ![p] = [n \in Modes |-> NoTimer]]
       PROVE  TimerInv'
  <2>1. a \in Goroutines /\ a \notin TimerProcs
    BY <1>14, PollAssumption DEF CallInv, Actors
  <2>2. closing[p]
    BY <1>4, <1>14, <2>1, EvictsClosing
  <2>3. \A t \in TimerProcs : npc'[t] = npc[t] /\ npd'[t] = npd[t] /\ todo'[t] = todo[t] /\ when'[t] = when[t]
    BY <1>11, <2>1
  <2>4. /\ \A n \in Modes : ~timer'[p][n].armed
        /\ \A q \in PollDescs \ {p} : timer'[q] = timer[q]
    BY <1>14 DEF PollTypeOK, NoTimer
  <2>5. \A t \in TimerProcs : ~(Holding(t) /\ npd[t] = p)
    BY <1>2, <1>4, <2>1, HolderAlone
  <2>6. \A t \in TimerProcs : ~Due(p, t)'
    <3>1. \A t \in TimerProcs : ~Due(p, t)
      BY <2>2 DEF TimerInv, TimerAges
    <3> QED BY <1>5, <2>3, <3>1 DEF Due
  <2>7. \A t \in TimerProcs, n \in Modes : ~Firing(p, n, t)'
    BY <2>3, <2>5, <2>6 DEF Firing, Holding
  <2>8. \A n, k \in Modes : ~Armed(p, n)' /\ ~ArmedFor(p, k, n)'
    BY <2>4 DEF Armed, ArmedFor
  <2>9. TimerAges(p)' /\ TimerOne(p)'
    <3>1. \A t \in TimerProcs : npc'[t] = "deadline" /\ npd'[t] = p => when'[t] <= seq'[p]
      BY <1>5, <2>3 DEF TimerInv, TimerAges
    <3>2. TimerAges(p)'
      BY <2>3, <2>4, <2>5, <2>6, <2>8, <3>1 DEF TimerAges, Holding
    <3>3. TimerOne(p)'
      BY <2>7, <2>8 DEF TimerOne
    <3> QED BY <3>2, <3>3
  <2>10. ASSUME NEW q \in PollDescs \ {p}
         PROVE  TimerAges(q)' /\ TimerOne(q)'
    BY <1>5, <2>3, <2>4, TimerSame DEF TimerInv
  <2> QED BY <2>9, <2>10 DEF TimerInv
<1> QED BY <1>5, <1>8, <1>9, <1>10, <1>13, <1>14

LEMMA ThrowDeadline ==
  ASSUME ThrowInv, UNCHANGED fdVars, NEW t \in TimerProcs, DeadlineImpl(t)
  PROVE  LockInv' /\ WaitInv' /\ ClosingInv' /\ TimerInv' /\ NeverThrows'
<1> USE DEF ThrowInv, DescInv
<1>1. PICK l : Hop(t, l) /\ npc[t] \in {"deadline", "expire"}
  BY TimerHops
<1>2. t \in Actors /\ npc'[t] = l /\ npd' = npd /\ DOMAIN npc = Actors /\ TimerProcs \subseteq Actors
      /\ Trans(npc[t], l)
  BY <1>1, HopFact DEF PollTypeOK, ControlOK, Actors, Hop
<1>3. \A b \in Actors \ {t} : npc'[b] = npc[b] /\ todo'[b] = todo[b]
  BY <1>1, <1>2, HopFact
<1>4. PICK p \in PollDescs : p = npd[t]
  BY <1>2 DEF PollTypeOK, ControlOK
<1>5. /\ npc[t] = "deadline" /\ ~Locked(npd[t]) /\ UNCHANGED <<closing, seq, sem, deadline, timer>>
      /\ l \in {"idle", "expire"}
  BY <1>2 DEF DeadlineImpl, Trans
<1>6. \A b \in Actors \ {t} : when'[b] = when[b]
  BY <1>2, OthersWhen DEF DeadlineImpl, PollTypeOK, ControlOK
<1>7. ClosingInv' /\ NeverThrows' /\ WaitInv'
  <2>1. npc[t] \notin WaitingPc /\ npc[t] \notin {"open", "evict"} /\ l # "throw"
    BY <1>5 DEF WaitingPc
  <2> QED BY <1>1, <1>2, <1>5, <2>1, ClosingHop, NeverHop, WaitMoves
<1>8. CASE StaleTimer(t)
  <2>1. npc'[t] = "idle" /\ pdLock' = pdLock
    BY <1>2, <1>8 DEF DeadlineImpl
  <2>2. LockInv'
    BY <1>1, <1>2, <2>1, LockHop
  <2>3. \A u \in TimerProcs :
           \/ npc'[u] \notin FiringPc
           \/ npc'[u] = npc[u] /\ npd'[u] = npd[u] /\ todo'[u] = todo[u] /\ when'[u] = when[u]
    BY <1>2, <1>3, <1>6, <2>1 DEF FiringPc
  <2> QED BY <1>5, <1>7, <2>2, <2>3, TimersKeep
<1>9. CASE ~StaleTimer(t)
  <2>1. npc'[t] = "expire" /\ pdLock' = [pdLock EXCEPT ![npd[t]] = t] /\ todo' = todo
    BY <1>2, <1>9 DEF DeadlineImpl, NGoto
  <2>2. LockInv'
    BY <1>2, <1>3, <1>5, <2>1, LockTakes
  <2>3. Due(p, t)
    BY <1>4, <1>5, <1>9 DEF StaleTimer, Due
  <2>4. SUFFICES ASSUME NEW q \in PollDescs
                 PROVE  TimerAges(q)' /\ TimerOne(q)'
    BY <1>7, <2>2 DEF TimerInv
  <2>5. ASSUME NEW u \in TimerProcs
        PROVE  /\ npc'[u] = "deadline" /\ npd'[u] = q =>
                    npc[u] = "deadline" /\ npd[u] = q /\ todo'[u] = todo[u] /\ when'[u] = when[u]
               /\ npc'[u] = "expire" /\ npd'[u] = q => todo'[u] # {}
               /\ \A n \in Modes : Firing(q, n, u)' => Firing(q, n, u)
    <3>1. CASE u = t
      <4>1. todo[t] # {}
        BY <2>3 DEF TimerInv, TimerAges
      <4>2. \A n \in Modes : Firing(q, n, t)' => Firing(q, n, t)
        BY <1>2, <1>4, <2>1, <2>3 DEF Firing, Due
      <4> QED BY <2>1, <3>1, <4>1, <4>2
    <3>2. CASE u # t
      <4>1. npc'[u] = npc[u] /\ npd'[u] = npd[u] /\ todo'[u] = todo[u] /\ when'[u] = when[u]
        BY <1>2, <1>3, <1>6, <3>2
      <4>2. npc[u] = "expire" /\ npd[u] = q => todo[u] # {}
        BY DEF TimerInv, TimerAges
      <4>3. \A n \in Modes : Firing(q, n, u)' <=> Firing(q, n, u)
        BY <1>5, <4>1 DEF Firing, Due, mode
      <4> QED BY <4>1, <4>2, <4>3
    <3> QED BY <3>1, <3>2
  <2> QED BY <1>5, <2>5, TimerWorks DEF TimerInv
<1> QED BY <1>8, <1>9

LEMMA ThrowExpire ==
  ASSUME ThrowInv, UNCHANGED fdVars, NEW t \in TimerProcs, Expire(t)
  PROVE  LockInv' /\ WaitInv' /\ ClosingInv' /\ TimerInv' /\ NeverThrows'
<1> USE DEF ThrowInv, DescInv
<1>1. PICK l : Hop(t, l)
  BY TimerHops
<1>2. t \in Actors /\ npc'[t] = l /\ npd' = npd /\ DOMAIN npc = Actors /\ TimerProcs \subseteq Actors
  BY <1>1, HopFact DEF PollTypeOK, ControlOK, Actors
<1>3. \A b \in Actors \ {t} : npc'[b] = npc[b] /\ todo'[b] = todo[b]
  BY <1>1, <1>2, HopFact
<1>4. PICK p \in PollDescs, m \in Modes : p = npd[t] /\ m = mode(t)
  BY <1>2, ModeFact DEF PollTypeOK, ControlOK
<1>5. npc[t] = "expire" /\ Holding(t) /\ UNCHANGED <<closing, seq, sem, pdLock>>
  BY DEF Expire, Holding
<1>6. m \in todo[t]
  <2>1. todo[t] # {} /\ todo[t] \in SUBSET Modes
    BY <1>2, <1>4, <1>5 DEF TimerInv, TimerAges, PollTypeOK, ControlOK
  <2> QED BY <1>4, <2>1, ModeFact DEF mode
<1>7. Firing(p, m, t)
  BY <1>4, <1>5, <1>6 DEF Firing
<1>8. /\ deadline[p][m] > 0 /\ TimerSet(p, m) /\ \A u \in TimerProcs : Firing(p, m, u) => u = t
      /\ \A n \in Modes : ~ArmedFor(p, m, n)
  BY <1>7 DEF TimerInv, TimerOne
<1>9. /\ deadline' = [deadline EXCEPT ![p][m] = -1]
      /\ timer' = [timer EXCEPT ![p] = [n \in Modes |-> [timer[p][n] EXCEPT !.f = @ \ {m}]]]
      /\ NGoto(t, "unblock")
  <2>1. ~(deadline[p][m] <= 0)
    BY <1>8 DEF PollTypeOK
  <2> QED BY <1>4, <1>8, <2>1 DEF Expire
<1>10. l = "unblock" /\ when' = when /\ todo' = todo
  BY <1>2, <1>9 DEF NGoto
<1>11. LockInv' /\ ClosingInv' /\ NeverThrows' /\ WaitInv'
  <2>1. npc[t] \notin WaitingPc /\ npc[t] \notin {"open", "evict"}
    BY <1>5 DEF WaitingPc
  <2> QED BY <1>1, <1>2, <1>5, <1>10, <2>1, LockHop, ClosingHop, NeverHop, WaitMoves
<1>12. \A u \in TimerProcs \ {t} : npc'[u] = npc[u] /\ npd'[u] = npd[u] /\ todo'[u] = todo[u] /\ when'[u] = when[u]
  BY <1>2, <1>3, <1>10
<1>13. npc'[t] = "unblock" /\ npd'[t] = p /\ todo'[t] = todo[t] /\ mode(t)' = m
  BY <1>2, <1>4, <1>10 DEF mode
\* The timers of p lose m, which none of those that are armed expires.
<1>14. /\ \A n \in Modes : /\ timer'[p][n].armed = timer[p][n].armed /\ timer'[p][n].seq = timer[p][n].seq
                           /\ timer'[p][n].f = timer[p][n].f \ {m}
       /\ \A k \in Modes \ {m} : deadline'[p][k] = deadline[p][k]
       /\ \A q \in PollDescs \ {p} : timer'[q] = timer[q] /\ deadline'[q] = deadline[q]
  <2>1. \A n \in Modes : timer'[p][n] = [timer[p][n] EXCEPT !.f = timer[p][n].f \ {m}]
    BY <1>9 DEF PollTypeOK
  <2>2. \A n \in Modes : timer[p][n] \in TimerType
    BY DEF PollTypeOK
  <2>3. \A n \in Modes : /\ timer'[p][n].armed = timer[p][n].armed /\ timer'[p][n].seq = timer[p][n].seq
                         /\ timer'[p][n].f = timer[p][n].f \ {m}
    BY <2>1, <2>2 DEF TimerType
  <2> QED BY <1>9, <2>3 DEF PollTypeOK
<1>15. \A n \in Modes : Armed(p, n)' <=> Armed(p, n)
  BY <1>5, <1>14 DEF Armed
<1>16. \A k, n \in Modes : ArmedFor(p, k, n)' => ArmedFor(p, k, n) /\ k # m
  BY <1>14, <1>15 DEF ArmedFor
<1>17. \A k \in Modes : k # m => (TimerSet(p, k)' <=> TimerSet(p, k))
  BY <1>14 DEF TimerSet
<1>18. \A k \in Modes, u \in TimerProcs : Firing(p, k, u)' => Firing(p, k, u) /\ k # m
  <2>1. SUFFICES ASSUME NEW k \in Modes, NEW u \in TimerProcs, Firing(p, k, u)'
                 PROVE  Firing(p, k, u) /\ k # m
    OBVIOUS
  <2>2. CASE u = t
    <3>1. k \in todo[t] \ {m}
      BY <1>13, <2>1, <2>2 DEF Firing, Due
    <3> QED BY <1>4, <1>5, <2>2, <3>1 DEF Firing
  <2>3. CASE u # t
    <3>1. Firing(p, k, u)
      BY <1>5, <1>12, <2>1, <2>3 DEF Firing, Due, mode
    <3> QED BY <1>8, <2>3, <3>1
  <2> QED BY <2>2, <2>3
<1>19. TimerAges(p)'
  <2>1. \A u \in TimerProcs : npc'[u] = "deadline" /\ npd'[u] = p => when'[u] <= seq'[p]
    BY <1>5, <1>12, <1>13 DEF TimerInv, TimerAges
  <2>2. \A n \in Modes : timer'[p][n].armed => timer'[p][n].seq <= seq'[p]
    BY <1>5, <1>14 DEF TimerInv, TimerAges
  <2>3. \A n \in Modes : Armed(p, n)' => timer'[p][n].f # {} /\ ~closing'[p]
    <3>1. SUFFICES ASSUME NEW n \in Modes, Armed(p, n)'
                   PROVE  timer'[p][n].f # {} /\ ~closing'[p]
      OBVIOUS
    <3>2. Armed(p, n) /\ timer[p][n].f # {} /\ ~closing[p]
      BY <1>15, <3>1 DEF TimerInv, TimerAges
    <3>3. m \notin timer[p][n].f
      BY <1>8, <3>2 DEF ArmedFor
    <3> QED BY <1>5, <1>14, <3>2, <3>3
  <2>4. \A u \in TimerProcs : Due(p, u)' => todo'[u] # {} /\ ~closing'[p]
    BY <1>5, <1>12, <1>13 DEF Due, TimerInv, TimerAges
  <2>5. \A u \in TimerProcs : npc'[u] = "expire" /\ npd'[u] = p => todo'[u] # {}
    BY <1>12, <1>13 DEF TimerInv, TimerAges
  <2> QED BY <2>1, <2>2, <2>3, <2>4, <2>5 DEF TimerAges
<1>20. TimerOne(p)'
  <2>1. ASSUME NEW k \in Modes, NEW n \in Modes, ArmedFor(p, k, n)'
        PROVE  /\ deadline'[p][k] > 0
               /\ \A j \in Modes : ArmedFor(p, k, j)' => j = n
               /\ \A u \in TimerProcs : ~Firing(p, k, u)'
    BY <1>14, <1>16, <1>18, <2>1 DEF TimerInv, TimerOne
  <2>2. ASSUME NEW k \in Modes, NEW u \in TimerProcs, Firing(p, k, u)'
        PROVE  /\ deadline'[p][k] > 0 /\ TimerSet(p, k)'
               /\ \A v \in TimerProcs : Firing(p, k, v)' => v = u
    BY <1>14, <1>17, <1>18, <2>2 DEF TimerInv, TimerOne
  <2> QED BY <2>1, <2>2 DEF TimerOne
<1>21. ASSUME NEW q \in PollDescs \ {p}
       PROVE  TimerAges(q)' /\ TimerOne(q)'
  <2>1. \A u \in TimerProcs :
           \/ npc'[u] \notin FiringPc \/ npd'[u] # q
           \/ npc'[u] = npc[u] /\ npd'[u] = npd[u] /\ todo'[u] = todo[u] /\ when'[u] = when[u]
    BY <1>12, <1>13
  <2> QED BY <1>5, <1>14, <2>1, TimerSame DEF TimerInv
<1>22. TimerInv'
  BY <1>19, <1>20, <1>21 DEF TimerInv
<1> QED BY <1>11, <1>22

LEMMA ThrowFires ==
  ASSUME ThrowInv, UNCHANGED fdVars, NEW t \in TimerProcs, TimerFires(t)
  PROVE  LockInv' /\ WaitInv' /\ ClosingInv' /\ TimerInv' /\ NeverThrows'
<1> USE DEF ThrowInv, DescInv
<1>1. PICK p \in PollDescs, m \in Modes :
        /\ timer[p][m].armed /\ npc[t] = "idle"
        /\ timer' = [timer EXCEPT ![p][m].armed = FALSE]
        /\ npc' = [npc EXCEPT ![t] = "deadline"] /\ npd' = [npd EXCEPT ![t] = p]
        /\ todo' = [todo EXCEPT ![t] = timer[p][m].f] /\ when' = [when EXCEPT ![t] = timer[p][m].seq]
  BY DEF TimerFires
<1>2. /\ Goroutines \subseteq Actors /\ TimerProcs \subseteq Actors /\ t \notin Goroutines
      /\ DOMAIN npc = Actors /\ npd \in [Actors -> PollDescs] /\ todo \in [Actors -> SUBSET Modes]
      /\ when \in [Actors -> Int]
  BY PollAssumption DEF Actors, PollTypeOK, ControlOK
<1>3. PICK s : s = timer[p][m]
  OBVIOUS
<1>4. /\ npc'[t] = "deadline" /\ npd'[t] = p /\ todo'[t] = s.f /\ when'[t] = s.seq
      /\ s.f \in SUBSET Modes /\ s.seq \in Nat /\ s.armed
  BY <1>1, <1>2, <1>3 DEF PollTypeOK, TimerType
<1>5. \A b \in Actors \ {t} :
        npc'[b] = npc[b] /\ npd'[b] = npd[b] /\ todo'[b] = todo[b] /\ when'[b] = when[b]
  BY <1>1, <1>2
<1>6. UNCHANGED <<closing, seq, deadline, pdLock, sem>>
  BY DEF TimerFires
<1>7. LockInv'
  <2>1. ASSUME NEW b \in Actors, Holding(b)'
        PROVE  Holding(b) /\ npd'[b] = npd[b]
    <3>1. b # t
      BY <1>4, <2>1 DEF Holding
    <3> QED BY <1>5, <2>1, <3>1 DEF Holding
  <2> QED BY <1>6, <2>1, LockKeeps
<1>8. \A g \in Goroutines : npc'[g] = npc[g] /\ npd'[g] = npd[g] /\ todo'[g] = todo[g]
  BY <1>2, <1>5
<1>9. WaitInv' /\ ClosingInv'
  BY <1>6, <1>8, WaitKeeps, ClosingPoll
<1>10. NeverThrows'
  BY <1>2, <1>4, <1>5 DEF NeverThrows
<1>11. \A q \in PollDescs \ {p} : TimerAges(q)' /\ TimerOne(q)'
  <2>1. SUFFICES ASSUME NEW q \in PollDescs \ {p}
                 PROVE  TimerAges(q)' /\ TimerOne(q)'
    OBVIOUS
  <2>2. timer'[q] = timer[q]
    BY <1>1
  <2>3. TimerAges(q) /\ TimerOne(q)
    BY DEF TimerInv
  <2>4. ASSUME NEW u \in TimerProcs
        PROVE  \/ npc'[u] \notin FiringPc \/ npd'[u] # q
               \/ npc'[u] = npc[u] /\ npd'[u] = npd[u] /\ todo'[u] = todo[u] /\ when'[u] = when[u]
    BY <1>2, <1>4, <1>5
  <2> QED BY <1>6, <2>2, <2>3, <2>4, TimerSame
<1>12. TimerAges(p) /\ TimerOne(p)
  BY DEF TimerInv
<1>13. /\ ~timer'[p][m].armed
       /\ \A n \in Modes : timer'[p][n].f = timer[p][n].f /\ timer'[p][n].seq = timer[p][n].seq
       /\ \A n \in Modes \ {m} : timer'[p][n] = timer[p][n]
  <2>1. timer' = [timer EXCEPT ![p][m] = [s EXCEPT !.armed = FALSE]]
    BY <1>1, <1>3
  <2>2. PICK r : r = [s EXCEPT !.armed = FALSE]
    OBVIOUS
  <2>3. s \in TimerType
    BY <1>3 DEF PollTypeOK
  <2>4. ~r.armed /\ r.f = s.f /\ r.seq = s.seq
    BY <2>2, <2>3 DEF TimerType
  <2>5. timer' = [timer EXCEPT ![p][m] = r]
    BY <2>1, <2>2
  <2>6. timer'[p][m] = r /\ \A n \in Modes \ {m} : timer'[p][n] = timer[p][n]
    BY <2>5 DEF PollTypeOK
  <2> QED BY <1>3, <2>4, <2>6
<1>14. \A n \in Modes : (Armed(p, n)' => Armed(p, n) /\ n # m) /\ (timer'[p][n].armed => timer[p][n].armed)
  BY <1>6, <1>13 DEF Armed
<1>15. \A n, k \in Modes : ArmedFor(p, k, n)' => ArmedFor(p, k, n) /\ n # m
  BY <1>13, <1>14 DEF ArmedFor
<1>16. Due(p, t)' => Armed(p, m)
  BY <1>3, <1>4, <1>6 DEF Due, Armed
<1>17. \A k \in Modes : Firing(p, k, t)' => ArmedFor(p, k, m)
  BY <1>3, <1>4, <1>16 DEF Firing, ArmedFor
<1>18. \A u \in TimerProcs \ {t} : /\ Due(p, u)' <=> Due(p, u)
                                  /\ \A k \in Modes : Firing(p, k, u)' <=> Firing(p, k, u)
  BY <1>2, <1>5, <1>6 DEF Due, Firing, mode
<1>19. \A k \in Modes : TimerSet(p, k)' <=> TimerSet(p, k)
  BY <1>13 DEF TimerSet
<1>20. TimerAges(p)'
  <2>1. \A n \in Modes : timer'[p][n].armed => timer'[p][n].seq <= seq'[p]
    BY <1>6, <1>12, <1>13, <1>14 DEF TimerAges
  <2>2. s.seq <= seq[p]
    BY <1>3, <1>4, <1>12 DEF TimerAges
  <2>3. \A u \in TimerProcs : npc'[u] = "deadline" /\ npd'[u] = p => when'[u] <= seq'[p]
    BY <1>2, <1>4, <1>5, <1>6, <1>12, <2>2 DEF TimerAges
  <2>4. \A n \in Modes : Armed(p, n)' => timer'[p][n].f # {} /\ ~closing'[p]
    BY <1>6, <1>12, <1>13, <1>14 DEF TimerAges
  <2>5. \A u \in TimerProcs : Due(p, u)' => todo'[u] # {} /\ ~closing'[p]
    <3>1. Due(p, t)' => todo'[t] # {} /\ ~closing'[p]
      BY <1>3, <1>4, <1>6, <1>12, <1>16 DEF TimerAges
    <3>2. ASSUME NEW u \in TimerProcs \ {t}
          PROVE  Due(p, u)' => todo'[u] # {} /\ ~closing'[p]
      BY <1>2, <1>5, <1>6, <1>12, <1>18 DEF TimerAges
    <3> QED BY <3>1, <3>2
  <2>6. \A u \in TimerProcs : npc'[u] = "expire" /\ npd'[u] = p => todo'[u] # {}
    BY <1>2, <1>4, <1>5, <1>12 DEF TimerAges
  <2> QED BY <2>1, <2>3, <2>4, <2>5, <2>6 DEF TimerAges
<1>21. TimerOne(p)'
  <2>1. SUFFICES ASSUME NEW k \in Modes
                 PROVE  /\ \A n \in Modes : ArmedFor(p, k, n)' =>
                             /\ deadline'[p][k] > 0
                             /\ \A i \in Modes : ArmedFor(p, k, i)' => i = n
                             /\ \A u \in TimerProcs : ~Firing(p, k, u)'
                        /\ \A u \in TimerProcs : Firing(p, k, u)' =>
                             /\ deadline'[p][k] > 0 /\ TimerSet(p, k)'
                             /\ \A v \in TimerProcs : Firing(p, k, v)' => v = u
    BY DEF TimerOne
  <2>2. ASSUME NEW n \in Modes, ArmedFor(p, k, n)'
        PROVE  /\ deadline'[p][k] > 0
               /\ \A i \in Modes : ArmedFor(p, k, i)' => i = n
               /\ \A u \in TimerProcs : ~Firing(p, k, u)'
    <3>1. ArmedFor(p, k, n) /\ n # m
      BY <1>15, <2>2
    <3>2. /\ deadline[p][k] > 0 /\ \A i \in Modes : ArmedFor(p, k, i) => i = n
          /\ \A u \in TimerProcs : ~Firing(p, k, u)
      BY <1>12, <3>1 DEF TimerOne
    <3>3. ~Firing(p, k, t)'
      BY <1>17, <3>1, <3>2
    <3> QED BY <1>6, <1>15, <1>18, <3>2, <3>3
  <2>3. ASSUME NEW u \in TimerProcs, Firing(p, k, u)'
        PROVE  /\ deadline'[p][k] > 0 /\ TimerSet(p, k)'
               /\ \A v \in TimerProcs : Firing(p, k, v)' => v = u
    <3>1. CASE u = t
      <4>1. ArmedFor(p, k, m)
        BY <1>17, <2>3, <3>1
      <4>2. deadline[p][k] > 0 /\ \A v \in TimerProcs : ~Firing(p, k, v)
        BY <1>12, <4>1 DEF TimerOne
      <4>3. TimerSet(p, k)
        BY <4>1 DEF ArmedFor, TimerSet
      <4> QED BY <1>6, <1>18, <1>19, <3>1, <4>2, <4>3
    <3>2. CASE u # t
      <4>1. Firing(p, k, u)
        BY <1>18, <2>3, <3>2
      <4>2. /\ deadline[p][k] > 0 /\ TimerSet(p, k)
            /\ \A v \in TimerProcs : Firing(p, k, v) => v = u
        BY <1>12, <4>1 DEF TimerOne
      <4>3. ~ArmedFor(p, k, m)
        BY <1>12, <4>1 DEF TimerOne
      <4>4. ~Firing(p, k, t)'
        BY <1>17, <4>3
      <4> QED BY <1>6, <1>18, <1>19, <4>2, <4>4
    <3> QED BY <3>1, <3>2
  <2> QED BY <2>2, <2>3
<1>22. TimerInv'
  BY <1>11, <1>20, <1>21 DEF TimerInv
<1> QED BY <1>7, <1>9, <1>10, <1>22

LEMMA ThrowPoller ==
  ASSUME ThrowInv, UNCHANGED fdVars, NEW n \in Pollers, EpollWait(n) \/ NetpollReady(n)
  PROVE  LockInv' /\ WaitInv' /\ ClosingInv' /\ TimerInv' /\ NeverThrows'
<1> USE DEF ThrowInv, DescInv
<1>1. PICK l : Hop(n, l) /\ npc[n] \in {"idle", "events"}
  BY PollerHops
<1>2. n \in Actors /\ n \notin TimerProcs /\ sem \in [PollDescs -> [Modes -> SemType]]
      /\ npc'[n] = l /\ DOMAIN npc = Actors
  BY <1>1, PollAssumption, HopFact DEF Actors, PollTypeOK, ControlOK
<1>3. UNCHANGED <<pdLock, closing, seq, deadline, timer>>
  BY DEF EpollWait, NetpollReady, descVars
<1>4. \A b \in Actors \ {n} : when'[b] = when[b]
  BY <1>2, OthersWhen DEF EpollWait, NetpollReady
<1>5. l \in {"events", "ready"}
  <2>1. l = npc'[n]
    BY <1>2
  <2> QED BY <1>2, <2>1 DEF EpollWait, NetpollReady, NGoto
<1>6. LockInv' /\ ClosingInv' /\ TimerInv' /\ NeverThrows'
  BY <1>1, <1>2, <1>3, <1>4, <1>5, LockHop, ClosingHop, TimersHop, NeverHop
<1>7. \A p \in PollDescs, m \in Modes : sem'[p][m] = "wait" => sem[p][m] = "wait"
  <2>1. CASE EpollWait(n)
    BY <2>1 DEF EpollWait, descVars
  <2>2. CASE NetpollReady(n)
    <3>1. PICK e \in events[n] : NetpollUnblock(n, e.pd, e.mode, TRUE)
      BY <2>2 DEF NetpollReady
    <3>2. e.pd \in PollDescs /\ e.mode \in Modes
      BY DEF EdgeInv, Edges
    <3>3. PICK q \in PollDescs, k \in Modes : sem' = [sem EXCEPT ![q][k] = Unblocked(sem[q][k], TRUE)]
      BY <3>1, <3>2 DEF NetpollUnblock, SetSem
    <3>4. Unblocked(sem[q][k], TRUE) = "ready"
      BY DEF Unblocked
    <3>5. sem' = [sem EXCEPT ![q][k] = "ready"]
      BY <3>3, <3>4
    <3> QED BY <1>2, <3>5
  <2> QED BY <2>1, <2>2
<1>8. npc[n] \notin WaitingPc
  BY <1>1 DEF WaitingPc
<1>9. WaitInv'
  BY <1>1, <1>2, <1>7, <1>8, WaitMoves
<1> QED BY <1>6, <1>9

-----------------------------------------------------------------------------

LEMMA NextKeepsThrow ==
  ASSUME ThrowInv, [Next]_vars
  PROVE  ThrowInv'
<1>1. DescInv'
  BY NextKeepsDesc DEF ThrowInv
<1>2. ASSUME NEW g \in Goroutines, CallNext(g)
      PROVE  ThrowInv'
  BY <1>1, <1>2, ThrowCallNext DEF ThrowInv
<1>3. ASSUME NEW g \in Goroutines, Run(g)
      PROVE  ThrowInv'
  <2>1. CASE FDStep(g)
    BY <1>1, <2>1, ThrowStep, ClosingStep DEF ThrowInv
  <2>2. CASE GoroutineInPoll(g, file(g)) /\ UNCHANGED <<semaphoreVars, fdVars>>
    <3>1. g \in Actors /\ UNCHANGED fdVars
      BY <2>2 DEF Actors
    <3>2. CASE \/ PollReset(g) \/ PollResetStore(g)
               \/ PollWait(g) \/ NetpollBlock(g) \/ NetpollRecheck(g) \/ NetpollBlockCommit(g)
               \/ NetpollResume(g)
      BY <1>1, <3>1, <3>2, ThrowWait DEF ThrowInv
    <3>3. CASE PollOpenReset(g, file(g)) \/ PollSetDeadline(g) \/ PollUnblock(g)
      BY <1>1, <3>1, <3>3, ThrowOpenReset, ThrowSetDeadline, ThrowUnblock DEF ThrowInv
    <3>4. CASE PollOpenRegister(g) \/ PollClose(g) \/ PollFree(g)
      BY <1>1, <3>1, <3>4, ThrowRegister DEF ThrowInv
    <3>5. CASE Unblock(g) \/ NetpollGoready(g)
      BY <1>1, <3>1, <3>5, ThrowUnblocks, ThrowGoready DEF ThrowInv
    <3> QED BY <2>2, <3>2, <3>3, <3>4, <3>5 DEF GoroutineInPoll
  <2> QED BY <1>3, <2>1, <2>2 DEF Run
<1>4. ASSUME NEW t \in TimerProcs, Fire(t) \/ RunTimer(t)
      PROVE  ThrowInv'
  <2>1. t \in Actors /\ UNCHANGED fdVars
    BY <1>4 DEF Actors, Fire, RunTimer
  <2>2. CASE TimerFires(t)
    BY <1>1, <2>1, <2>2, ThrowFires DEF ThrowInv
  <2>3. CASE DeadlineImpl(t) \/ Expire(t)
    BY <1>1, <2>1, <2>3, ThrowDeadline, ThrowExpire DEF ThrowInv
  <2>4. CASE Unblock(t) \/ NetpollGoready(t)
    BY <1>1, <2>1, <2>4, ThrowUnblocks, ThrowGoready DEF ThrowInv
  <2> QED BY <1>4, <2>2, <2>3, <2>4 DEF Fire, RunTimer, TimerProcStep
<1>5. ASSUME NEW n \in Pollers, RunPoller(n)
      PROVE  ThrowInv'
  <2>1. n \in Actors /\ UNCHANGED fdVars
    BY <1>5 DEF Actors, RunPoller
  <2>2. CASE EpollWait(n) \/ NetpollReady(n)
    BY <1>1, <2>1, <2>2, ThrowPoller DEF ThrowInv
  <2>3. CASE NetpollGoready(n)
    BY <1>1, <2>1, <2>3, ThrowGoready DEF ThrowInv
  <2> QED BY <1>5, <2>2, <2>3 DEF RunPoller, PollerStep
<1>6. ASSUME NEW f \in Files, NEW m \in Modes, Ready(f, m)
      PROVE  ThrowInv'
  <2>1. UNCHANGED fdVars /\ UNCHANGED <<closing, seq, deadline, timer, pdLock, sem, npc, npd, todo, when>>
    BY <1>6 DEF Ready, BecomesReady, descVars, callVars
  <2> QED BY <1>1, <2>1, ThrowStays DEF ThrowInv
<1>7. CASE UNCHANGED vars
  <2>1. UNCHANGED fdVars /\ UNCHANGED <<closing, seq, deadline, timer, pdLock, sem, npc, npd, todo, when>>
    BY <1>7 DEF vars, pollVars
  <2> QED BY <1>1, <2>1, ThrowStays DEF ThrowInv
<1> QED BY <1>2, <1>3, <1>4, <1>5, <1>6, <1>7 DEF Next

LEMMA InitThrow ==
  ASSUME Init
  PROVE  ThrowInv
<1>1. DescInv
  BY InitDesc
<1>2. /\ \A g \in Goroutines : fpc[g] = "idle"
      /\ \A f \in Files : ctx[f] = Nobody
  BY DEF Init, FDInit
<1>3. /\ \A a \in Actors : npc[a] = "idle"
      /\ \A p \in PollDescs, m \in Modes : sem[p][m] = "nil"
      /\ \A p \in PollDescs, m \in Modes : ~timer[p][m].armed
  BY DEF Init, PollInit, NoTimer
<1>4. LockInv /\ WaitInv /\ NeverThrows
  BY <1>3 DEF LockInv, Holding, WaitInv, NeverThrows
<1>5. ClosingInv
  <2>1. \A f \in Files, p \in PollDescs : ~FileHas(f, p)
    BY <1>2, PollAssumption DEF FileHas
  <2>2. \A g \in Goroutines, p \in PollDescs : ~OpenerHas(g, p)
    BY <1>2 DEF OpenerHas
  <2> QED BY <2>1, <2>2 DEF ClosingInv
<1>6. TimerInv
  <2>1. TimerProcs \subseteq Actors
    BY DEF Actors
  <2>2. /\ \A p \in PollDescs, n \in Modes : ~Armed(p, n)
        /\ \A p \in PollDescs, t \in TimerProcs : ~Due(p, t)
    BY <1>3, <2>1 DEF Armed, Due
  <2>3. \A p \in PollDescs, m \in Modes, t \in TimerProcs : ~Firing(p, m, t)
    BY <1>3, <2>1, <2>2 DEF Firing
  <2> QED BY <1>3, <2>1, <2>2, <2>3 DEF TimerInv, TimerAges, TimerOne, ArmedFor
<1> QED BY <1>1, <1>4, <1>5, <1>6 DEF ThrowInv

\* The poller does not throw: a free descriptor has no waiter (netpoll.go:108,
\* 111), one that is closed has been evicted (netpoll.go:130-136) and one that is
\* evicted was not before (netpoll.go:267), a netpollblock finds its place to
\* itself (netpoll.go:355, 371), and a timer function that is not stale has a
\* deadline to expire (netpoll.go:417, 426).
THEOREM FDNeverThrows == Spec => []NeverThrows
<1>1. Init => ThrowInv
  BY InitThrow
<1>2. ThrowInv /\ [Next]_vars => ThrowInv'
  BY NextKeepsThrow
<1>3. ThrowInv => NeverThrows
  BY DEF ThrowInv
<1> QED BY <1>1, <1>2, <1>3, PTL DEF Spec

-----------------------------------------------------------------------------
(* Who is parked is parked for a reason.                                   *)

\* A parked goroutine is named by its descriptor, or is on its way back.
Named(g) ==
  npc[g] = "parked" => sem[npd[g]][mode(g)] = g \/ \E a \in Actors : g \in woken[a]

\* A goroutine that waits has an error ahead of it only if somebody is at work who
\* will take it out.
Spared(p, m) == CheckErr(p, m) = "ok" \/ Unblocker(p, m)
Excused(g) ==
  npc[g] \in {"commit", "parked"} /\ sem[npd[g]][mode(g)] \in {"wait", g} => Spared(npd[g], mode(g))

\* What its file is ready for is on its way to it, or has come.
ToldPc == WaitPc \ {"reset", "reset2"}
Told(g) ==
  npc[g] \in ToldPc /\ mode(g) \in readable[file(g)] =>
    Reported(npd[g], mode(g)) \/ sem[npd[g]][mode(g)] = "ready"

Reason(g) == Named(g) /\ Excused(g) /\ Told(g)

\* A Close goes for both modes, a timer function at work finds the descriptor open,
\* and netpoll starts with an empty list.
WorkInv ==
  /\ \A a \in Actors : npc[a] = "evict" => todo[a] = Modes
  /\ \A t \in TimerProcs : npc[t] \in {"expire", "unblock"} => ~closing[npd[t]]
  /\ \A n \in Pollers : npc[n] # "events" => events[n] = {}

\* What epoll has is of descriptors in use, with the files that they are for.
FreePd(g) == npc[g] = "free"
RegInv ==
  /\ \A f \in Files : registered[f] # Nobody => pdFile[registered[f]] = f
  /\ \A p \in freeDescs : pdFile[p] = Nobody
  /\ \A g \in Goroutines : npc[g] = "open" => pdFile[npd[g]] = Nobody
  /\ \A e \in epoll : pdFile[e.pd] = e.file
  /\ \A g \in Goroutines : FreePd(g) =>
       registered[pdFile[npd[g]]] = Nobody /\ \A e \in epoll : e.pd # npd[g]

\* A file that is in use, or on its way there, is registered.
InUse(f, p) ==
  ctx[f] = p /\ \A g \in Goroutines : fpc[g] = "closefunc" /\ file(g) = f => npc[g] = "close"
Accepted(g) == fpc[g] = "opening" /\ npc[g] = "idle" /\ result[g] = "ok"
UseInv ==
  /\ \A f \in Files, p \in PollDescs : InUse(f, p) => registered[f] = p
  /\ \A g \in Goroutines : Accepted(g) => registered[file(g)] = npd[g]

ReasonInv == ThrowInv /\ WorkInv /\ RegInv /\ UseInv /\ \A g \in Goroutines : Reason(g)

\* A goroutine of which nothing changes.
LEMMA ReasonStays ==
  ASSUME NEW h \in Goroutines, Reason(h), NEW p, NEW m, p = npd[h], m = mode(h),
         npc'[h] = npc[h], npd'[h] = npd[h], todo'[h] = todo[h], file(h)' = file(h),
         sem'[p][m] = sem[p][m], readable'[file(h)] \subseteq readable[file(h)],
         \A a \in Actors : h \in woken[a] => h \in woken'[a],
         Reported(p, m) => Reported(p, m)', Spared(p, m) => Spared(p, m)'
  PROVE  Reason(h)'
<1>1. mode(h)' = m /\ npd'[h] = p
  BY DEF mode
<1>2. Named(h)'
  BY <1>1 DEF Reason, Named
<1>3. Excused(h)'
  BY <1>1 DEF Reason, Excused
<1>4. Told(h)'
  BY <1>1 DEF Reason, Told
<1> QED BY <1>2, <1>3, <1>4 DEF Reason

LEMMA WorkHop ==
  ASSUME PollTypeOK, WorkInv, NEW a \in Actors, NEW l, Hop(a, l), UNCHANGED <<closing, events>>, a \notin Pollers,
         a \in TimerProcs /\ l \in {"expire", "unblock"} => ~closing[npd[a]]
  PROVE  WorkInv'
<1>1. npc'[a] = l /\ npd' = npd /\ l # "evict" /\ \A b \in Actors \ {a} : npc'[b] = npc[b] /\ todo'[b] = todo[b]
  BY HopFact
<1>2. TimerProcs \subseteq Actors /\ Pollers \subseteq Actors
  BY DEF Actors
<1> QED BY <1>1, <1>2 DEF WorkInv

LEMMA RegHop ==
  ASSUME PollTypeOK, RegInv, NEW a \in Actors, NEW l, Hop(a, l), UNCHANGED <<pdFile, registered, freeDescs>>,
         epoll' \subseteq epoll, l # "free"
  PROVE  RegInv'
<1>1. npc'[a] = l /\ npd' = npd /\ l # "open" /\ \A b \in Actors \ {a} : npc'[b] = npc[b]
  BY HopFact
<1>2. \A g \in Goroutines : (npc'[g] = "open" => npc[g] = "open") /\ (FreePd(g)' => FreePd(g))
  BY <1>1 DEF Actors, FreePd
<1> QED BY <1>1, <1>2 DEF RegInv

LEMMA UseHop ==
  ASSUME PollTypeOK, UseInv, UNCHANGED fdVars, NEW a \in Actors, NEW l, Hop(a, l), registered' = registered,
         a \in Goroutines => fpc[a] # "opening" \/ l # "idle",
         \A g \in Goroutines \ {a} : result'[g] = result[g], l # "close"
  PROVE  UseInv'
<1>1. npc'[a] = l /\ npd' = npd /\ \A b \in Actors \ {a} : npc'[b] = npc[b]
  BY HopFact
<1>2. UNCHANGED <<fpc, op, ctx>> /\ \A g \in Goroutines : file(g)' = file(g)
  BY DEF fdVars, file
<1>3. ASSUME NEW f \in Files, NEW p \in PollDescs, InUse(f, p)'
      PROVE  InUse(f, p)
  BY <1>1, <1>2, <1>3 DEF InUse, Actors
<1>4. \A g \in Goroutines : Accepted(g)' => Accepted(g)
  BY <1>1, <1>2 DEF Accepted, Actors
<1> QED BY <1>1, <1>2, <1>3, <1>4 DEF UseInv

\* Two goroutines that wait do so at two places.
LEMMA Elsewhere ==
  ASSUME DescInv, NEW g \in Goroutines, NEW h \in Goroutines \ {g}, npc[g] \in WaitPc, npc[h] \in WaitPc
  PROVE  npd[g] # npd[h] \/ mode(g) # mode(h)
BY Alone

-----------------------------------------------------------------------------

LEMMA ReasonWait ==
  ASSUME ReasonInv, UNCHANGED fdVars, NEW g \in Goroutines,
         PollReset(g) \/ PollResetStore(g) \/ PollWait(g) \/ NetpollBlock(g) \/ NetpollRecheck(g)
           \/ NetpollBlockCommit(g) \/ NetpollResume(g)
  PROVE  WorkInv' /\ RegInv' /\ UseInv' /\ \A h \in Goroutines : Reason(h)'
<1> USE DEF ReasonInv, ThrowInv, DescInv
<1>1. PICK l : Hop(g, l) /\ npc[g] \in WaitPc /\ npc[g] # "parked"
  BY WaitHops
<1>2. /\ g \in Actors /\ g \notin TimerProcs /\ g \notin Pollers /\ Goroutines \subseteq Actors
      /\ sem \in [PollDescs -> [Modes -> SemType]] /\ DOMAIN result = Goroutines
      /\ Trans(npc[g], l) /\ npc'[g] = l /\ npd' = npd /\ DOMAIN npc = Actors
  BY <1>1, PollAssumption, HopFact DEF Actors, PollTypeOK, ControlOK, Hop
<1>3. \A b \in Actors \ {g} : npc'[b] = npc[b] /\ todo'[b] = todo[b]
  BY <1>1, <1>2, HopFact
<1>4. PICK p \in PollDescs, m \in Modes : p = npd[g] /\ m = mode(g)
  BY <1>1, WaiterFacts
<1>5. UNCHANGED <<pdFile, closing, deadline, freeDescs, readable, registered, epoll, events, woken>>
  BY DEF PollReset, PollResetStore, PollWait, NetpollBlock, NetpollRecheck, NetpollBlockCommit,
         NetpollResume, descVars, kernelVars
<1>6. \A h \in Goroutines \ {g} : result'[h] = result[h]
  BY <1>2 DEF PollReset, PollResetStore, PollWait, NetpollBlock, NetpollRecheck, NetpollBlockCommit,
              NetpollResume, NGoto, PollReturn
<1>7. fpc[g] = "prepared" /\ l \notin {"free", "close", "unblock", "evict2"}
  BY <1>1, <1>2, WaiterFacts DEF Trans, WaitPc
<1>8. WorkInv' /\ RegInv' /\ UseInv'
  BY <1>1, <1>2, <1>5, <1>6, <1>7, WorkHop, RegHop, UseHop
<1>9. \A q \in PollDescs, n \in Modes : q # p \/ n # m => sem'[q][n] = sem[q][n]
  <2>1. \A s : sem' = [sem EXCEPT ![p][m] = s] =>
          \A q \in PollDescs, n \in Modes : q # p \/ n # m => sem'[q][n] = sem[q][n]
    BY <1>2
  <2>2. CASE PollReset(g) \/ PollWait(g) \/ NetpollRecheck(g)
    BY <2>2 DEF PollReset, PollWait, NetpollRecheck, descVars
  <2>3. CASE PollResetStore(g) \/ NetpollBlock(g) \/ NetpollBlockCommit(g) \/ NetpollResume(g)
    <3>1. sem' = sem \/ \E s : sem' = [sem EXCEPT ![p][m] = s]
      BY <1>4, <2>3 DEF PollResetStore, NetpollBlock, NetpollBlockCommit, NetpollResume, SetSem
    <3> QED BY <2>1, <3>1
  <2> QED BY <2>2, <2>3
<1>10. UNCHANGED <<fpc, op>> /\ \A h \in Goroutines : file(h)' = file(h)
  BY DEF fdVars, file
<1>11. \A q \in PollDescs, n \in Modes : (Reported(q, n) => Reported(q, n)') /\ (Spared(q, n) => Spared(q, n)')
  <2>1. \A a \in Actors : npc[a] \in {"unblock", "evict2"} => npc'[a] = npc[a] /\ todo'[a] = todo[a]
    BY <1>1, <1>3 DEF WaitPc
  <2>2. \A q \in PollDescs, n \in Modes : Unblocker(q, n) => Unblocker(q, n)'
    BY <1>2, <2>1 DEF Unblocker
  <2> QED BY <1>5, <2>2 DEF Reported, Spared, CheckErr
<1>12. ASSUME NEW h \in Goroutines \ {g}
       PROVE  Reason(h)'
  <2>1. CASE npc[h] \in WaitPc
    <3>1. PICK q \in PollDescs, n \in Modes : q = npd[h] /\ n = mode(h)
      BY <2>1, WaiterFacts
    <3>2. sem'[q][n] = sem[q][n]
      BY <1>1, <1>4, <1>9, <2>1, <3>1, Elsewhere
    <3> QED BY <1>2, <1>3, <1>5, <1>10, <1>11, <3>1, <3>2, ReasonStays
  <2>2. CASE npc[h] \notin WaitPc
    <3>1. npc'[h] \notin WaitPc
      BY <1>2, <1>3, <2>2
    <3> QED BY <3>1 DEF Reason, Named, Excused, Told, ToldPc, WaitPc
  <2> QED BY <2>1, <2>2
<1>13. Reason(g)'
  <2>1. CASE l = "idle"
    BY <1>2, <2>1 DEF Reason, Named, Excused, Told, ToldPc, WaitPc
  <2>2. CASE l # "idle"
    <3>1. todo' = todo /\ mode(g)' = m /\ npd'[g] = p
      <4>1. l \in WaitPc
        <5>1. l # "throw"
          BY <1>2, ThrowWait DEF NeverThrows
        <5> QED BY <1>1, <1>2, <2>2, <5>1 DEF Trans, WaitPc
      <4>2. todo' = todo
        BY <1>1, <4>1 DEF Hop
      <4> QED BY <1>2, <1>4, <4>2 DEF mode
    <3>2. Named(g)' /\ Excused(g)'
      <4>1. l = "parked" => sem[p][m] = "wait" /\ sem'[p][m] = g /\ npc[g] = "commit"
        <5>1. SUFFICES ASSUME l = "parked"
                       PROVE  sem[p][m] = "wait" /\ sem'[p][m] = g /\ npc[g] = "commit"
          OBVIOUS
        <5>2. npc[g] = "commit"
          BY <1>1, <1>2, <5>1 DEF Trans, WaitPc
        <5>3. NetpollBlockCommit(g)
          BY <5>2 DEF PollReset, PollResetStore, PollWait, NetpollBlock, NetpollRecheck, NetpollResume
        <5>4. sem[p][m] = "wait"
          BY <1>2, <1>4, <5>1, <5>3 DEF NetpollBlockCommit, NGoto
        <5>5. sem' = [sem EXCEPT ![p][m] = g]
          BY <1>4, <5>3, <5>4 DEF NetpollBlockCommit, SetSem
        <5> QED BY <1>2, <5>2, <5>4, <5>5
      <4>2. l = "commit" => CheckErr(p, m) = "ok"
        <5>1. SUFFICES ASSUME l = "commit"
                       PROVE  CheckErr(p, m) = "ok"
          OBVIOUS
        <5>2. npc[g] = "recheck"
          BY <1>1, <1>2, <5>1 DEF Trans, WaitPc
        <5>3. NetpollRecheck(g)
          BY <5>2 DEF PollReset, PollResetStore, PollWait, NetpollBlock, NetpollBlockCommit, NetpollResume
        <5> QED BY <1>2, <1>4, <5>1, <5>2, <5>3 DEF NetpollRecheck, NGoto
      <4>3. l = "parked" => Spared(p, m)
        BY <1>4, <4>1 DEF Reason, Excused
      <4>4. l \in {"commit", "parked"} => Spared(p, m)'
        BY <1>11, <4>2, <4>3 DEF Spared
      <4> QED BY <1>2, <3>1, <4>1, <4>4 DEF Named, Excused
    <3>3. Told(g)'
      <4>1. SUFFICES ASSUME l \in ToldPc, m \in readable[file(g)]
                     PROVE  Reported(p, m)' \/ sem'[p][m] = "ready"
        BY <1>2, <1>5, <1>10, <3>1 DEF Told
      <4>2. npc[g] \in ToldPc
        BY <1>1, <1>2, <4>1 DEF Trans, ToldPc, WaitPc
      <4>3. Reported(p, m) \/ sem[p][m] = "ready"
        BY <1>4, <4>1, <4>2 DEF Reason, Told
      <4>4. ASSUME sem[p][m] = "ready"
            PROVE  sem'[p][m] = "ready"
        <5>1. sem[npd[g]][mode(g)] = "ready" /\ "ready" \notin Goroutines /\ npc'[g] # "idle"
          BY <1>2, <1>4, <2>2, <4>4, PollAssumption
        <5>2. CASE PollWait(g) \/ NetpollRecheck(g)
          BY <4>4, <5>2 DEF PollWait, NetpollRecheck, descVars
        <5>3. CASE PollReset(g) \/ PollResetStore(g)
          BY <4>2, <5>3 DEF PollReset, PollResetStore, ToldPc
        <5>4. CASE NetpollBlock(g)
          BY <1>2, <5>1, <5>4 DEF NetpollBlock, PollReturn, PollTypeOK, ControlOK
        <5>5. CASE NetpollBlockCommit(g)
          BY <4>4, <5>1, <5>5 DEF NetpollBlockCommit
        <5>6. CASE NetpollResume(g)
          BY <1>2, <5>1, <5>6 DEF NetpollResume, PollReturn, PollTypeOK, ControlOK
        <5> QED BY <5>2, <5>3, <5>4, <5>5, <5>6
      <4> QED BY <1>11, <4>3, <4>4
    <3> QED BY <3>2, <3>3 DEF Reason
  <2> QED BY <2>1, <2>2
<1> QED BY <1>8, <1>12, <1>13

-----------------------------------------------------------------------------

\* The goroutines that wait while another actor takes a step.
LEMMA ReasonOthers ==
  ASSUME DescInv, \A h \in Goroutines : Reason(h), UNCHANGED fdVars, readable' = readable,
         NEW a \in Actors, NEW l, Hop(a, l), npc[a] \notin WaitPc,
         \A h \in Goroutines, b \in Actors : h \in woken[b] => h \in woken'[b],
         \A h \in Goroutines, p \in PollDescs, m \in Modes :
           h # a /\ npc[h] \in WaitPc /\ p = npd[h] /\ m = mode(h) =>
             \/ Reason(h)'
             \/ /\ sem'[p][m] = sem[p][m]
                /\ Reported(p, m) => Reported(p, m)'
                /\ Spared(p, m) => Spared(p, m)'
  PROVE  \A h \in Goroutines : Reason(h)'
<1> USE DEF DescInv
<1>1. /\ npc'[a] = l /\ npd' = npd /\ Trans(npc[a], l)
      /\ \A b \in Actors \ {a} : npc'[b] = npc[b] /\ todo'[b] = todo[b]
  BY HopFact DEF Hop
<1>2. l \notin WaitPc
  BY <1>1 DEF Trans, WaitPc
<1>3. Goroutines \subseteq Actors /\ \A h \in Goroutines : file(h)' = file(h)
  BY DEF Actors, fdVars, file
<1>4. SUFFICES ASSUME NEW h \in Goroutines
               PROVE  Reason(h)'
  OBVIOUS
<1>5. CASE h = a \/ npc[h] \notin WaitPc
  <2>1. npc'[h] \notin WaitPc
    BY <1>1, <1>2, <1>3, <1>5
  <2> QED BY <2>1 DEF Reason, Named, Excused, Told, ToldPc, WaitPc
<1>6. CASE h # a /\ npc[h] \in WaitPc
  <2>1. PICK p \in PollDescs, m \in Modes : p = npd[h] /\ m = mode(h)
    BY <1>6, WaiterFacts
  <2> QED BY <1>1, <1>3, <1>6, <2>1, ReasonStays
<1> QED BY <1>5, <1>6

\* Who is not called to unblock does not change who will be.
LEMMA SparesStay ==
  ASSUME PollTypeOK, NEW a \in Actors, NEW l, Hop(a, l), npc[a] \notin {"unblock", "evict2"},
         NEW p, closing'[p] = closing[p], deadline'[p] = deadline[p]
  PROVE  \A m \in Modes : Spared(p, m) => Spared(p, m)'
<1>1. npd' = npd /\ \A b \in Actors \ {a} : npc'[b] = npc[b] /\ todo'[b] = todo[b]
  BY HopFact
<1>2. \A m \in Modes : Unblocker(p, m) => Unblocker(p, m)'
  BY <1>1 DEF Unblocker
<1> QED BY <1>2 DEF Spared, CheckErr

\* Who opens a descriptor has no waiters there; nor has who frees one.
LEMMA OwnerAlone ==
  ASSUME DescInv, NEW g \in Goroutines,
         fpc[g] \in {"opening", "unpoll"} \/ (fpc[g] \in {"unpolled", "closefunc"} /\ npc[g] # "idle")
  PROVE  \A h \in Goroutines : npc[h] \in WaitPc => npd[h] # npd[g] /\ file(h) # file(g)
<1> USE DEF DescInv
<1>1. SUFFICES ASSUME NEW h \in Goroutines, npc[h] \in WaitPc
               PROVE  npd[h] # npd[g] /\ file(h) # file(g)
  OBVIOUS
<1>2. PICK f \in Files, p \in PollDescs :
        f = file(h) /\ p = npd[h] /\ FileHas(f, p) /\ pdFile[p] = f /\ fdmu[f].refs # 0
  BY <1>1, WaiterFacts
<1>3. CASE fpc[g] = "closefunc"
  <2>1. FileHas(file(g), npd[g]) /\ fdmu[file(g)].refs = 0 /\ file(g) \in Files
    BY <1>3, DestroyerHas
  <2>2. file(g) # f
    BY <1>2, <2>1
  <2>3. npd[g] = p => pdFile[p] = file(g)
    BY <2>1 DEF OwnInv
  <2> QED BY <1>2, <2>2, <2>3
<1>4. CASE fpc[g] # "closefunc"
  <2>1. npd[g] # p
    BY <1>2, <1>4 DEF OwnInv, OpenerHas
  <2>2. sysfd[file(g)] = "none"
    BY <1>4 DEF LifeInv, OpenInv, OpenPc
  <2>3. sysfd[f] = "open"
    <3>1. ctx[f] # Nobody
      BY <1>2, PollAssumption DEF FileHas
    <3> QED BY <3>1 DEF LifeInv, OpenInv
  <2> QED BY <1>2, <2>1, <2>2, <2>3
<1> QED BY <1>3, <1>4

LEMMA ReasonOpenReset ==
  ASSUME ReasonInv, UNCHANGED fdVars, NEW g \in Goroutines, PollOpenReset(g, file(g)), npc'[g] # "throw"
  PROVE  WorkInv' /\ RegInv' /\ UseInv' /\ \A h \in Goroutines : Reason(h)'
<1> USE DEF ReasonInv, ThrowInv, DescInv
<1>1. PICK l : Hop(g, l) /\ npc[g] \notin WaitPc
  BY LifeHops
<1>2. /\ g \in Actors /\ g \notin TimerProcs /\ g \notin Pollers /\ npc'[g] = l /\ npd' = npd
      /\ npc[g] = "open" /\ DOMAIN npc = Actors /\ TimerProcs \subseteq Actors /\ Pollers \subseteq Actors
      /\ Goroutines \subseteq Actors
  BY <1>1, PollAssumption, HopFact DEF Actors, PollTypeOK, ControlOK, PollOpenReset
<1>3. \A b \in Actors \ {g} : npc'[b] = npc[b] /\ todo'[b] = todo[b]
  BY <1>1, <1>2, HopFact
<1>4. PICK p \in PollDescs : p = npd[g]
  BY <1>2 DEF PollTypeOK, ControlOK
<1>5. /\ pdFile' = [pdFile EXCEPT ![p] = file(g)] /\ closing' = [closing EXCEPT ![p] = FALSE]
      /\ sem' = [sem EXCEPT ![p] = [m \in Modes |-> "nil"]]
      /\ deadline' = [deadline EXCEPT ![p] = [m \in Modes |-> 0]]
      /\ UNCHANGED <<freeDescs, readable, registered, epoll, events, woken, result>> /\ l = "register"
  BY <1>2, <1>4 DEF PollOpenReset, NGoto, kernelVars
<1>6. fpc[g] = "opening" /\ file(g) \in Files
  <2>1. fpc[g] = "opening"
    BY <1>2 DEF CallInv, InPoll, WaitPc
  <2> QED BY <2>1, CallFacts
<1>7. WorkInv'
  <2>1. \A q \in PollDescs : ~closing[q] => ~closing'[q]
    BY <1>5 DEF PollTypeOK
  <2>2. npd \in [Actors -> PollDescs]
    BY DEF PollTypeOK, ControlOK
  <2> QED BY <1>2, <1>3, <1>5, <2>1, <2>2 DEF WorkInv
<1>8. pdFile[p] = Nobody /\ p \notin freeDescs
  <2>1. OpenerHas(g, p)
    BY <1>4, <1>6 DEF OpenerHas
  <2> QED BY <1>2, <1>4, <2>1 DEF RegInv, OwnInv
<1>9. RegInv'
  <2>1. pdFile \in [PollDescs -> Files \cup {Nobody}] /\ registered \in [Files -> PollDescs \cup {Nobody}]
    BY DEF PollTypeOK
  <2>2. \A q \in PollDescs \ {p} : pdFile'[q] = pdFile[q]
    BY <1>5, <2>1
  <2>3. \A f \in Files : registered[f] # p
    BY <1>8, PollAssumption DEF RegInv
  <2>4. \A e \in epoll : e.pd \in PollDescs \ {p}
    BY <1>8, PollAssumption DEF RegInv, EdgeInv, Edges
  <2>5. freeDescs \subseteq PollDescs \ {p}
    BY <1>8 DEF PollTypeOK
  <2>6. \A h \in Goroutines : npc'[h] = "open" => npc[h] = "open" /\ npd[h] \in PollDescs \ {p}
    <3>1. SUFFICES ASSUME NEW h \in Goroutines, npc'[h] = "open"
                   PROVE  npc[h] = "open" /\ npd[h] \in PollDescs \ {p}
      OBVIOUS
    <3>2. h # g /\ npc[h] = "open"
      BY <1>2, <1>3, <1>5, <3>1
    <3>3. OpenerHas(h, npd[h]) /\ OpenerHas(g, p)
      BY <1>4, <1>6, <3>2 DEF OpenerHas, CallInv, InPoll, WaitPc
    <3>4. npd[h] \in PollDescs
      BY <1>2 DEF PollTypeOK, ControlOK
    <3> QED BY <3>2, <3>3, <3>4 DEF OwnInv
  <2>7. \A h \in Goroutines : FreePd(h)' => FreePd(h) /\ npd[h] \in PollDescs \ {p}
    <3>1. SUFFICES ASSUME NEW h \in Goroutines, FreePd(h)'
                   PROVE  FreePd(h) /\ npd[h] \in PollDescs \ {p}
      OBVIOUS
    <3>2. h # g /\ npc[h] = "free"
      BY <1>2, <1>3, <1>5, <3>1 DEF FreePd
    <3>3. fpc[h] \in {"unpolled", "closefunc"}
      BY <3>2 DEF CallInv, InPoll, WaitPc
    <3>4. OpenerHas(h, npd[h]) \/ (FileHas(file(h), npd[h]) /\ file(h) \in Files)
      BY <3>2, <3>3, DestroyerHas DEF OpenerHas
    <3>5. OpenerHas(g, p) /\ npd[h] \in PollDescs
      BY <1>2, <1>4, <1>6 DEF OpenerHas, PollTypeOK, ControlOK
    <3>6. npd[h] # p
      BY <3>2, <3>4, <3>5 DEF OwnInv
    <3> QED BY <3>2, <3>5, <3>6 DEF FreePd
  <2>8. \A f \in Files : registered'[f] # Nobody => pdFile'[registered'[f]] = f
    BY <1>5, <2>1, <2>2, <2>3 DEF RegInv
  <2>9. \A h \in Goroutines : FreePd(h)' =>
          registered'[pdFile'[npd'[h]]] = Nobody /\ \A e \in epoll' : e.pd # npd'[h]
    BY <1>2, <1>5, <2>2, <2>7 DEF RegInv
  <2>10. /\ \A q \in freeDescs' : pdFile'[q] = Nobody
         /\ \A h \in Goroutines : npc'[h] = "open" => pdFile'[npd'[h]] = Nobody
         /\ \A e \in epoll' : pdFile'[e.pd] = e.file
    BY <1>2, <1>5, <2>2, <2>4, <2>5, <2>6 DEF RegInv
  <2> QED BY <2>8, <2>9, <2>10 DEF RegInv
<1>10. UseInv'
  BY <1>1, <1>2, <1>5, UseHop
<1>11. \A h \in Goroutines : Reason(h)'
  <2>1. ASSUME NEW h \in Goroutines, NEW q \in PollDescs, NEW n \in Modes, npc[h] \in WaitPc, q = npd[h], n = mode(h)
        PROVE  /\ sem'[q][n] = sem[q][n]
               /\ Reported(q, n) => Reported(q, n)'
               /\ Spared(q, n) => Spared(q, n)'
    <3>1. q # p
      BY <1>4, <1>6, <2>1, OwnerAlone
    <3>2. sem'[q] = sem[q] /\ closing'[q] = closing[q] /\ deadline'[q] = deadline[q]
      BY <1>5, <3>1 DEF PollTypeOK
    <3>3. Spared(q, n) => Spared(q, n)'
      BY <1>1, <1>2, <3>2, SparesStay
    <3> QED BY <1>5, <3>2, <3>3 DEF Reported
  <2> QED BY <1>1, <1>2, <1>5, <2>1, ReasonOthers
<1> QED BY <1>7, <1>9, <1>10, <1>11

LEMMA ReasonSetDeadline ==
  ASSUME ReasonInv, UNCHANGED fdVars, NEW g \in Goroutines, PollSetDeadline(g)
  PROVE  WorkInv' /\ RegInv' /\ UseInv' /\ \A h \in Goroutines : Reason(h)'
<1> USE DEF ReasonInv, ThrowInv, DescInv
<1>1. PICK l : Hop(g, l) /\ npc[g] \notin WaitPc
  BY LifeHops
<1>2. /\ g \in Actors /\ g \notin TimerProcs /\ g \notin Pollers /\ npc'[g] = l /\ npd' = npd
      /\ npc[g] = "setdeadline" /\ DOMAIN npc = Actors /\ Trans(npc[g], l) /\ DOMAIN result = Goroutines
  BY <1>1, PollAssumption, HopFact DEF Actors, PollTypeOK, ControlOK, PollSetDeadline, Hop
<1>3. UNCHANGED <<pdFile, closing, sem, freeDescs, readable, registered, epoll, events, woken>>
  BY DEF PollSetDeadline, kernelVars
<1>4. \A h \in Goroutines \ {g} : result'[h] = result[h]
  BY <1>2 DEF PollSetDeadline, PollReturn
<1>5. fpc[g] # "opening" /\ l \notin {"free", "close"}
  BY <1>2 DEF CallInv, InPoll, WaitPc, Trans
<1>6. WorkInv' /\ RegInv' /\ UseInv'
  BY <1>1, <1>2, <1>3, <1>4, <1>5, WorkHop, RegHop, UseHop
<1>7. PICK p \in PollDescs : p = npd[g]
  BY <1>2 DEF PollTypeOK, ControlOK
<1>8. ASSUME NEW q \in PollDescs, NEW n \in Modes, Spared(q, n)
      PROVE  Spared(q, n)'
  <2>1. CASE deadline'[q] = deadline[q]
    BY <1>1, <1>2, <1>3, <1>8, <2>1, SparesStay
  <2>2. CASE deadline'[q] # deadline[q]
    <3>1. PICK dl : dl = [k \in Modes |-> IF k \in todo[g] THEN when[g] ELSE deadline[p][k]]
      OBVIOUS
    <3>2. PICK past : past = {k \in Modes : dl[k] < 0}
      OBVIOUS
    <3>3. ~closing[p] /\ deadline' = [deadline EXCEPT ![p] = dl]
      <4>1. ~closing[p]
        BY <1>7, <2>2 DEF PollSetDeadline
      <4> QED BY <1>7, <3>1, <4>1 DEF PollSetDeadline
    <3>4. q = p /\ deadline'[p] = dl
      BY <2>2, <3>3 DEF PollTypeOK
    <3>5. past # {} => npc' = [npc EXCEPT ![g] = "unblock"] /\ todo' = [todo EXCEPT ![g] = past]
      BY <1>7, <3>1, <3>2, <3>3 DEF PollSetDeadline
    <3>6. CASE n \in past
      <4>1. npc'[g] = "unblock" /\ todo'[g] = past
        BY <1>2, <3>5, <3>6 DEF PollTypeOK, ControlOK
      <4> QED BY <1>2, <1>7, <3>4, <3>6, <4>1 DEF Spared, Unblocker
    <3>7. CASE n \notin past
      <4>1. ~(deadline'[p][n] < 0) /\ ~closing'[p]
        BY <1>3, <3>2, <3>3, <3>4, <3>7
      <4> QED BY <3>4, <4>1 DEF Spared, CheckErr
    <3> QED BY <3>6, <3>7
  <2> QED BY <2>1, <2>2
<1>9. \A h \in Goroutines : Reason(h)'
  <2>1. \A q \in PollDescs, n \in Modes : Reported(q, n) => Reported(q, n)'
    BY <1>3 DEF Reported
  <2> QED BY <1>1, <1>2, <1>3, <1>8, <2>1, ReasonOthers
<1> QED BY <1>6, <1>9

LEMMA ReasonUnblock ==
  ASSUME ReasonInv, UNCHANGED fdVars, NEW g \in Goroutines, PollUnblock(g), npc'[g] # "throw"
  PROVE  WorkInv' /\ RegInv' /\ UseInv' /\ \A h \in Goroutines : Reason(h)'
<1> USE DEF ReasonInv, ThrowInv, DescInv
<1>1. PICK l : Hop(g, l) /\ npc[g] \notin WaitPc
  BY LifeHops
<1>2. /\ g \in Actors /\ g \notin TimerProcs /\ g \notin Pollers /\ npc'[g] = l /\ npd' = npd
      /\ npc[g] = "evict" /\ DOMAIN npc = Actors /\ TimerProcs \subseteq Actors /\ Pollers \subseteq Actors
  BY <1>1, PollAssumption, HopFact DEF Actors, PollTypeOK, ControlOK, PollUnblock
<1>3. \A b \in Actors \ {g} : npc'[b] = npc[b] /\ todo'[b] = todo[b]
  BY <1>1, <1>2, HopFact
<1>4. PICK p \in PollDescs : p = npd[g]
  BY <1>2 DEF PollTypeOK, ControlOK
<1>5. /\ closing' = [closing EXCEPT ![p] = TRUE] /\ todo' = todo /\ l = "evict2" /\ ~Locked(p)
      /\ UNCHANGED <<pdFile, deadline, sem, freeDescs, readable, registered, epoll, events, woken, result>>
  BY <1>2, <1>4 DEF PollUnblock, NGoto, kernelVars
<1>6. fpc[g] # "opening"
  BY <1>2 DEF CallInv, InPoll, WaitPc
<1>7. RegInv' /\ UseInv'
  BY <1>1, <1>2, <1>5, <1>6, RegHop, UseHop
<1>8. WorkInv'
  <2>1. ASSUME NEW t \in TimerProcs, npc'[t] \in {"expire", "unblock"}
        PROVE  ~closing'[npd'[t]]
    <3>1. npc[t] = npc'[t] /\ Holding(t) /\ t \in Actors
      BY <1>2, <1>3, <2>1 DEF Holding
    <3>2. pdLock[npd[t]] = t /\ t # Nobody
      BY <3>1, PollAssumption DEF LockInv
    <3>3. npd[t] # p /\ npd[t] \in PollDescs
      BY <1>5, <3>1, <3>2 DEF Locked, PollTypeOK, ControlOK
    <3>4. ~closing[npd[t]]
      BY <2>1, <3>1 DEF WorkInv
    <3> QED BY <1>2, <1>5, <3>3, <3>4 DEF PollTypeOK
  <2> QED BY <1>2, <1>3, <1>5, <2>1 DEF WorkInv
<1>9. ASSUME NEW q \in PollDescs, NEW n \in Modes, Spared(q, n)
      PROVE  Spared(q, n)'
  <2>1. CASE q # p
    <3>1. closing'[q] = closing[q]
      BY <1>5, <2>1 DEF PollTypeOK
    <3> QED BY <1>1, <1>2, <1>5, <1>9, <3>1, SparesStay
  <2>2. CASE q = p
    <3>1. todo'[g] = Modes
      BY <1>2, <1>5 DEF WorkInv
    <3> QED BY <1>2, <1>4, <1>5, <2>2, <3>1 DEF Spared, Unblocker
  <2> QED BY <2>1, <2>2
<1>10. \A h \in Goroutines : Reason(h)'
  <2>1. \A q \in PollDescs, n \in Modes : Reported(q, n) => Reported(q, n)'
    BY <1>5 DEF Reported
  <2> QED BY <1>1, <1>2, <1>5, <1>9, <2>1, ReasonOthers
<1> QED BY <1>7, <1>8, <1>10

\* Who is giving a descriptor back, or has one that is registered, has it alone.
LEMMA FreeAlone ==
  ASSUME DescInv, NEW g \in Goroutines, npc[g] \in {"register", "close", "free"}
  PROVE  /\ file(g) \in Files /\ npd[g] \in PollDescs /\ pdFile[npd[g]] = file(g) /\ npd[g] \notin freeDescs
         /\ \A h \in Goroutines \ {g} : npc[h] \in {"open", "register", "close", "free"} =>
              npd[h] # npd[g] /\ file(h) # file(g)
<1> USE DEF DescInv
<1>1. npd \in [Actors -> PollDescs] /\ Goroutines \subseteq Actors
  BY DEF PollTypeOK, ControlOK, Actors
<1>2. \A h \in Goroutines : npc[h] \in {"open", "register", "close", "free"} =>
        /\ fpc[h] \in OpenPc \cup {"closefunc"} /\ file(h) \in Files
        /\ fpc[h] \in OpenPc => OpenerHas(h, npd[h]) /\ sysfd[file(h)] = "none"
        /\ fpc[h] = "closefunc" => FileHas(file(h), npd[h]) /\ sysfd[file(h)] = "open"
  <2>1. SUFFICES ASSUME NEW h \in Goroutines, npc[h] \in {"open", "register", "close", "free"}
                 PROVE  /\ fpc[h] \in OpenPc \cup {"closefunc"} /\ file(h) \in Files
                        /\ fpc[h] \in OpenPc => OpenerHas(h, npd[h]) /\ sysfd[file(h)] = "none"
                        /\ fpc[h] = "closefunc" => FileHas(file(h), npd[h]) /\ sysfd[file(h)] = "open"
    OBVIOUS
  <2>2. fpc[h] \in {"opening", "unpolled", "closefunc"} /\ npc[h] # "idle"
    BY <2>1 DEF CallInv, InPoll, WaitPc
  <2>3. file(h) \in Files
    BY <2>2, CallFacts
  <2> QED BY <2>2, <2>3, DestroyerHas DEF OpenPc, OpenerHas, LifeInv, OpenInv, DestroyInv, DestroyPc
<1>3. PICK p \in PollDescs, f \in Files : p = npd[g] /\ f = file(g)
  BY <1>1, <1>2
<1>4. pdFile[p] = f /\ p \notin freeDescs
  BY <1>2, <1>3 DEF OwnInv
<1>5. ASSUME NEW h \in Goroutines \ {g}, npc[h] \in {"open", "register", "close", "free"}
      PROVE  npd[h] # p /\ file(h) # f
  <2>1. file(h) # f
    <3>1. CASE fpc[g] = "closefunc" /\ fpc[h] = "closefunc"
      BY <1>3, <3>1 DEF LifeInv, DestroyInv, DestroyPc
    <3>2. CASE fpc[g] \in OpenPc /\ fpc[h] \in OpenPc
      BY <1>3, <3>2 DEF LifeInv, OpenInv
    <3> QED BY <1>2, <1>3, <1>5, <3>1, <3>2
  <2>2. npd[h] # p
    <3>1. CASE fpc[h] = "closefunc"
      <4>1. npd[h] = p => pdFile[p] = file(h)
        BY <1>2, <1>5, <3>1 DEF OwnInv
      <4> QED BY <1>4, <2>1, <4>1
    <3>2. CASE fpc[h] \in OpenPc
      BY <1>2, <1>3, <1>5, <3>2 DEF OwnInv
    <3> QED BY <1>2, <1>5, <3>1, <3>2
  <2> QED BY <2>1, <2>2
<1> QED BY <1>3, <1>4, <1>5

LEMMA ReasonRegister ==
  ASSUME ReasonInv, UNCHANGED fdVars, NEW g \in Goroutines, PollOpenRegister(g)
  PROVE  WorkInv' /\ RegInv' /\ UseInv' /\ \A h \in Goroutines : Reason(h)'
<1> USE DEF ReasonInv, ThrowInv, DescInv
<1>1. PICK l : Hop(g, l) /\ npc[g] \notin WaitPc
  BY LifeHops
<1>2. /\ g \in Actors /\ g \notin TimerProcs /\ g \notin Pollers /\ npc'[g] = l /\ npd' = npd
      /\ npc[g] = "register" /\ DOMAIN npc = Actors /\ Goroutines \subseteq Actors
      /\ DOMAIN result = Goroutines /\ l = "idle"
  <2>1. /\ npc'[g] = l /\ npd' = npd /\ Trans(npc[g], l)
        /\ DOMAIN npc = Actors /\ DOMAIN result = Goroutines /\ npc[g] = "register"
    BY <1>1, HopFact DEF Actors, PollTypeOK, ControlOK, PollOpenRegister, Hop
  <2> QED BY <2>1, PollAssumption DEF Actors, Trans
<1>3. \A b \in Actors \ {g} : npc'[b] = npc[b] /\ todo'[b] = todo[b]
  BY <1>1, <1>2, HopFact
<1>4. PICK p \in PollDescs, f \in Files : p = npd[g] /\ f = file(g) /\ pdFile[p] = f
  BY <1>2, FreeAlone
<1>5. fpc[g] = "opening"
  BY <1>2 DEF CallInv, InPoll, WaitPc
<1>6. UNCHANGED <<pdFile, closing, deadline, sem, freeDescs, readable, events, woken>>
  BY DEF PollOpenRegister, descVars
<1>7. \/ /\ registered' = [registered EXCEPT ![f] = p]
         /\ epoll' = epoll \cup {Edge(p, m, f) : m \in readable[f]}
         /\ result' = [result EXCEPT ![g] = "ok"]
      \/ UNCHANGED <<registered, epoll>> /\ result' = [result EXCEPT ![g] = "errno"]
  BY <1>4 DEF PollOpenRegister, PollReturn
<1>8. WorkInv'
  BY <1>1, <1>2, <1>6, WorkHop
<1>9. /\ \A e \in Files \ {f} : registered'[e] = registered[e]
      /\ registered'[f] = registered[f] \/ registered'[f] = p
      /\ result'[g] = "ok" => registered'[f] = p
      /\ \A h \in Goroutines \ {g} : result'[h] = result[h]
      /\ epoll \subseteq epoll' /\ \A e \in epoll' \ epoll : e.pd = p /\ e.file = f
  <2>1. registered \in [Files -> PollDescs \cup {Nobody}]
    BY DEF PollTypeOK
  <2>2. \A m : Edge(p, m, f).pd = p /\ Edge(p, m, f).file = f
    BY DEF Edge
  <2> QED BY <1>2, <1>7, <2>1, <2>2
<1>10. RegInv'
  <2>1. \A h \in Goroutines : (npc'[h] = "open" => npc[h] = "open") /\ (FreePd(h)' => FreePd(h) /\ h # g)
    BY <1>2, <1>3 DEF FreePd
  <2>2. ASSUME NEW h \in Goroutines, FreePd(h)'
        PROVE  registered'[pdFile'[npd'[h]]] = Nobody /\ \A e \in epoll' : e.pd # npd'[h]
    <3>1. FreePd(h) /\ h # g
      BY <2>1, <2>2
    <3>2. npd[h] # p /\ file(h) # f
      BY <1>2, <1>4, <3>1, FreeAlone DEF FreePd
    <3>3. pdFile[npd[h]] = file(h) /\ file(h) \in Files
      BY <3>1, FreeAlone DEF FreePd
    <3> QED BY <1>2, <1>6, <1>9, <3>1, <3>2, <3>3 DEF RegInv
  <2> QED BY <1>2, <1>4, <1>6, <1>9, <2>1, <2>2 DEF RegInv
<1>11. UseInv'
  <2>1. UNCHANGED <<fpc, op, ctx>> /\ \A h \in Goroutines : file(h)' = file(h)
    BY DEF fdVars, file
  <2>2. ASSUME NEW e \in Files, NEW q \in PollDescs, InUse(e, q)'
        PROVE  registered'[e] = q
    <3>1. ctx[e] = q /\ e # f
      <4>1. ctx[e] = q
        BY <2>1, <2>2 DEF InUse
      <4>2. sysfd[e] = "open"
        BY <4>1, PollAssumption DEF LifeInv, OpenInv
      <4>3. sysfd[f] = "none"
        BY <1>4, <1>5 DEF LifeInv, OpenInv, OpenPc
      <4> QED BY <4>1, <4>2, <4>3
    <3>2. InUse(e, q)
      <4>1. \A h \in Goroutines : fpc[h] = "closefunc" /\ file(h) = e => npc[h] = "close"
        BY <1>2, <1>3, <1>5, <2>1, <2>2 DEF InUse
      <4> QED BY <3>1, <4>1 DEF InUse
    <3> QED BY <1>9, <3>1, <3>2 DEF UseInv
  <2>3. ASSUME NEW h \in Goroutines, Accepted(h)'
        PROVE  registered'[file(h)] = npd[h]
    <3>1. CASE h = g
      BY <1>4, <1>9, <2>3, <3>1 DEF Accepted
    <3>2. CASE h # g
      <4>1. Accepted(h)
        BY <1>2, <1>3, <1>9, <2>1, <2>3, <3>2 DEF Accepted
      <4>2. file(h) # f
        BY <1>4, <1>5, <3>2, <4>1 DEF Accepted, LifeInv, OpenInv, OpenPc
      <4>3. file(h) \in Files
        BY <4>1, CallFacts DEF Accepted
      <4> QED BY <1>9, <4>1, <4>2, <4>3 DEF UseInv
    <3> QED BY <3>1, <3>2
  <2> QED BY <1>2, <2>1, <2>2, <2>3 DEF UseInv
<1>12. \A h \in Goroutines : Reason(h)'
  <2>1. \A q \in PollDescs, n \in Modes : Reported(q, n) => Reported(q, n)'
    BY <1>6, <1>9 DEF Reported
  <2>2. \A q \in PollDescs, n \in Modes : Spared(q, n) => Spared(q, n)'
    BY <1>1, <1>2, <1>6, SparesStay
  <2> QED BY <1>1, <1>2, <1>6, <2>1, <2>2, ReasonOthers
<1> QED BY <1>8, <1>10, <1>11, <1>12

LEMMA ReasonClose ==
  ASSUME ReasonInv, UNCHANGED fdVars, NEW g \in Goroutines, PollClose(g), npc'[g] # "throw"
  PROVE  WorkInv' /\ RegInv' /\ UseInv' /\ \A h \in Goroutines : Reason(h)'
<1> USE DEF ReasonInv, ThrowInv, DescInv
<1>1. PICK l : Hop(g, l) /\ npc[g] \notin WaitPc
  BY LifeHops
<1>2. /\ g \in Actors /\ g \notin TimerProcs /\ g \notin Pollers /\ npc'[g] = l /\ npd' = npd
      /\ npc[g] = "close" /\ DOMAIN npc = Actors /\ Goroutines \subseteq Actors
  <2>1. /\ npc'[g] = l /\ npd' = npd
        /\ DOMAIN npc = Actors /\ npc[g] = "close"
    BY <1>1, HopFact DEF Actors, PollTypeOK, ControlOK, PollClose
  <2> QED BY <2>1, PollAssumption DEF Actors
<1>3. \A b \in Actors \ {g} : npc'[b] = npc[b] /\ todo'[b] = todo[b]
  BY <1>1, <1>2, HopFact
<1>4. PICK p \in PollDescs, f \in Files : p = npd[g] /\ f = file(g) /\ pdFile[p] = f
  BY <1>2, FreeAlone
<1>5. /\ registered' = [registered EXCEPT ![f] = Nobody] /\ epoll' = {e \in epoll : e.file # f}
      /\ UNCHANGED <<pdFile, closing, deadline, sem, freeDescs, readable, events, woken, result>> /\ l = "free"
  BY <1>2, <1>4 DEF PollClose, NGoto, descVars
<1>6. fpc[g] \in {"unpolled", "closefunc"}
  BY <1>2 DEF CallInv, InPoll, WaitPc
<1>7. WorkInv'
  BY <1>1, <1>2, <1>5, WorkHop
<1>8. registered'[f] = Nobody /\ \A e \in Files \ {f} : registered'[e] = registered[e]
  BY <1>5 DEF PollTypeOK
<1>9. RegInv'
  <2>1. ASSUME NEW h \in Goroutines, FreePd(h)'
        PROVE  registered'[pdFile'[npd'[h]]] = Nobody /\ \A e \in epoll' : e.pd # npd'[h]
    <3>1. CASE h = g
      BY <1>2, <1>4, <1>5, <1>8, <3>1 DEF RegInv
    <3>2. CASE h # g
      <4>1. FreePd(h)
        BY <1>2, <1>3, <2>1, <3>2 DEF FreePd
      <4>2. npd[h] # p /\ file(h) # f
        BY <1>2, <1>4, <3>2, <4>1, FreeAlone DEF FreePd
      <4>3. pdFile[npd[h]] = file(h) /\ file(h) \in Files
        BY <4>1, FreeAlone DEF FreePd
      <4> QED BY <1>2, <1>5, <1>8, <4>1, <4>2, <4>3 DEF RegInv
    <3> QED BY <3>1, <3>2
  <2>2. \A h \in Goroutines : npc'[h] = "open" => npc[h] = "open"
    BY <1>2, <1>3, <1>5
  <2> QED BY <1>2, <1>5, <1>8, <2>1, <2>2 DEF RegInv
<1>10. UseInv'
  <2>1. UNCHANGED <<fpc, op, ctx>> /\ \A h \in Goroutines : file(h)' = file(h)
    BY DEF fdVars, file
  <2>2. ASSUME NEW e \in Files, NEW q \in PollDescs, InUse(e, q)'
        PROVE  registered'[e] = q
    <3>1. ctx[e] = q /\ e # f
      <4>1. ctx[e] = q
        BY <2>1, <2>2 DEF InUse
      <4>2. sysfd[e] = "open"
        BY <4>1, PollAssumption DEF LifeInv, OpenInv
      <4>3. CASE fpc[g] = "closefunc"
        BY <1>2, <1>4, <1>5, <2>1, <2>2, <4>1, <4>3 DEF InUse
      <4>4. CASE fpc[g] = "unpolled"
        <5>1. sysfd[f] = "none"
          BY <1>4, <4>4 DEF LifeInv, OpenInv, OpenPc
        <5> QED BY <4>1, <4>2, <5>1
      <4> QED BY <1>6, <4>1, <4>3, <4>4
    <3>2. InUse(e, q)
      <4>1. \A h \in Goroutines : fpc[h] = "closefunc" /\ file(h) = e => npc[h] = "close"
        BY <1>2, <1>3, <2>1, <2>2 DEF InUse
      <4> QED BY <3>1, <4>1 DEF InUse
    <3> QED BY <1>8, <3>1, <3>2 DEF UseInv
  <2>3. ASSUME NEW h \in Goroutines, Accepted(h)'
        PROVE  registered'[file(h)] = npd[h]
    <3>1. Accepted(h) /\ h # g
      BY <1>2, <1>3, <1>5, <2>1, <2>3 DEF Accepted
    <3>2. file(h) # f /\ file(h) \in Files
      <4>1. file(h) \in Files /\ sysfd[file(h)] = "none" /\ fpc[h] \in OpenPc
        BY <3>1, CallFacts DEF Accepted, LifeInv, OpenInv, OpenPc
      <4>2. CASE fpc[g] = "closefunc"
        <5>1. sysfd[f] = "open"
          BY <1>4, <4>2 DEF LifeInv, DestroyInv, DestroyPc
        <5> QED BY <4>1, <5>1
      <4>3. CASE fpc[g] = "unpolled"
        BY <1>4, <3>1, <4>1, <4>3 DEF LifeInv, OpenInv, OpenPc
      <4> QED BY <1>6, <4>2, <4>3
    <3> QED BY <1>8, <3>1, <3>2 DEF UseInv
  <2> QED BY <1>2, <2>1, <2>2, <2>3 DEF UseInv
<1>11. \A h \in Goroutines : Reason(h)'
  <2>1. ASSUME NEW h \in Goroutines, NEW q \in PollDescs, NEW n \in Modes, npc[h] \in WaitPc, q = npd[h], n = mode(h)
        PROVE  Reported(q, n) => Reported(q, n)'
    <3>1. file(h) # f /\ pdFile[q] = file(h)
      BY <1>2, <1>4, <1>6, <2>1, OwnerAlone, WaiterFacts
    <3>2. \A e \in epoll : e.pd = q => e.file # f
      BY <3>1 DEF RegInv
    <3> QED BY <1>5, <3>2 DEF Reported
  <2>2. \A q \in PollDescs, n \in Modes : Spared(q, n) => Spared(q, n)'
    BY <1>1, <1>2, <1>5, SparesStay
  <2> QED BY <1>1, <1>2, <1>5, <2>1, <2>2, ReasonOthers
<1> QED BY <1>7, <1>9, <1>10, <1>11

LEMMA ReasonFree ==
  ASSUME ReasonInv, UNCHANGED fdVars, NEW g \in Goroutines, PollFree(g)
  PROVE  WorkInv' /\ RegInv' /\ UseInv' /\ \A h \in Goroutines : Reason(h)'
<1> USE DEF ReasonInv, ThrowInv, DescInv
<1>1. PICK l : Hop(g, l) /\ npc[g] \notin WaitPc
  BY LifeHops
<1>2. /\ g \in Actors /\ g \notin TimerProcs /\ g \notin Pollers /\ npc'[g] = l /\ npd' = npd
      /\ npc[g] = "free" /\ DOMAIN npc = Actors /\ Goroutines \subseteq Actors
      /\ DOMAIN result = Goroutines /\ l = "idle"
  <2>1. /\ npc'[g] = l /\ npd' = npd /\ Trans(npc[g], l)
        /\ DOMAIN npc = Actors /\ DOMAIN result = Goroutines /\ npc[g] = "free"
    BY <1>1, HopFact DEF Actors, PollTypeOK, ControlOK, PollFree, Hop
  <2> QED BY <2>1, PollAssumption DEF Actors, Trans
<1>3. \A b \in Actors \ {g} : npc'[b] = npc[b] /\ todo'[b] = todo[b]
  BY <1>1, <1>2, HopFact
<1>4. PICK p \in PollDescs, f \in Files : p = npd[g] /\ f = file(g) /\ pdFile[p] = f
  BY <1>2, FreeAlone
<1>5. /\ freeDescs' = freeDescs \cup {p} /\ pdFile' = [pdFile EXCEPT ![p] = Nobody]
      /\ UNCHANGED <<closing, deadline, sem, readable, registered, epoll, events, woken>>
      /\ \A h \in Goroutines \ {g} : result'[h] = result[h]
  BY <1>2, <1>4 DEF PollFree, PollReturn, kernelVars
<1>6. WorkInv'
  BY <1>1, <1>2, <1>5, WorkHop
<1>7. pdFile'[p] = Nobody /\ \A q \in PollDescs \ {p} : pdFile'[q] = pdFile[q]
  BY <1>5 DEF PollTypeOK
<1>8. registered[f] = Nobody /\ \A e \in epoll : e.pd # p
  BY <1>2, <1>4 DEF RegInv, FreePd
<1>9. RegInv'
  <2>1. \A e \in Files : registered[e] # Nobody => registered[e] \in PollDescs \ {p}
    BY <1>4, <1>8 DEF RegInv, PollTypeOK
  <2>2. \A e \in epoll : e.pd \in PollDescs \ {p}
    BY <1>8 DEF EdgeInv, Edges
  <2>3. freeDescs \subseteq PollDescs /\ npd \in [Actors -> PollDescs]
    BY DEF PollTypeOK, ControlOK
  <2>4. ASSUME NEW h \in Goroutines, FreePd(h)'
        PROVE  registered'[pdFile'[npd'[h]]] = Nobody /\ \A e \in epoll' : e.pd # npd'[h]
    <3>1. FreePd(h) /\ h # g
      BY <1>2, <1>3, <2>4 DEF FreePd
    <3>2. npd[h] # p /\ npd[h] \in PollDescs
      BY <1>2, <1>4, <3>1, FreeAlone DEF FreePd
    <3> QED BY <1>2, <1>5, <1>7, <3>1, <3>2 DEF RegInv
  <2>5. ASSUME NEW h \in Goroutines, npc'[h] = "open"
        PROVE  pdFile'[npd'[h]] = Nobody
    <3>1. npc[h] = "open" /\ npd[h] \in PollDescs
      BY <1>2, <1>3, <2>3, <2>5
    <3> QED BY <1>2, <1>7, <3>1 DEF RegInv
  <2>6. \A q \in freeDescs' : pdFile'[q] = Nobody
    BY <1>5, <1>7, <2>3 DEF RegInv
  <2>7. \A e \in Files : registered'[e] # Nobody => pdFile'[registered'[e]] = e
    BY <1>5, <1>7, <2>1 DEF RegInv
  <2>8. \A e \in epoll' : pdFile'[e.pd] = e.file
    BY <1>5, <1>7, <2>2 DEF RegInv
  <2> QED BY <2>4, <2>5, <2>6, <2>7, <2>8 DEF RegInv
<1>10. UseInv'
  <2>1. fpc[g] # "opening" /\ l # "close"
    BY <1>2 DEF CallInv, InPoll, WaitPc
  <2> QED BY <1>1, <1>2, <1>5, <2>1, UseHop
<1>11. \A h \in Goroutines : Reason(h)'
  <2>1. \A q \in PollDescs, n \in Modes : Reported(q, n) => Reported(q, n)'
    BY <1>5 DEF Reported
  <2>2. \A q \in PollDescs, n \in Modes : Spared(q, n) => Spared(q, n)'
    BY <1>1, <1>2, <1>5, SparesStay
  <2> QED BY <1>1, <1>2, <1>5, <2>1, <2>2, ReasonOthers
<1> QED BY <1>6, <1>9, <1>10, <1>11

-----------------------------------------------------------------------------

\* Who is taken out of a descriptor goes to the hands of who did it.
Takes(a, p, m, u) == SetSem(p, m, u) /\ woken' = [woken EXCEPT ![a] = @ \cup Waiter(sem[p][m])]

LEMMA TakenOut ==
  ASSUME NEW a \in Actors, NEW p \in PollDescs, NEW m \in Modes, PollTypeOK, NEW u \in {"nil", "ready"},
         sem[p][m] = "ready" => u = "ready", Takes(a, p, m, u)
  PROVE  /\ \A q \in PollDescs, n \in Modes : q # p \/ n # m => sem'[q][n] = sem[q][n]
         /\ sem[p][m] = "ready" => sem'[p][m] = "ready"
         /\ sem'[p][m] = u
         /\ \A h \in Goroutines, c \in Actors : h \in woken[c] => h \in woken'[c]
         /\ \A h \in Goroutines : sem[p][m] = h => h \in woken'[a]
<1>1. PICK s : s = sem[p][m]
  OBVIOUS
<1>2. /\ sem \in [PollDescs -> [Modes -> SemType]] /\ woken \in [Actors -> SUBSET Goroutines]
      /\ sem' = [sem EXCEPT ![p][m] = u] /\ woken' = [woken EXCEPT ![a] = @ \cup Waiter(s)]
  BY <1>1 DEF PollTypeOK, SetSem, Takes
<1>3. /\ \A q \in PollDescs, n \in Modes : q # p \/ n # m => sem'[q][n] = sem[q][n]
      /\ sem'[p][m] = u
  BY <1>2
<1>4. woken'[a] = woken[a] \cup Waiter(s) /\ \A c \in Actors \ {a} : woken'[c] = woken[c]
  BY <1>2
<1>5. \A h \in Goroutines : s = h => h \in Waiter(s)
  BY DEF Waiter
<1> QED BY <1>1, <1>3, <1>4, <1>5

\* A goroutine that waits at the place from which it is taken out.
LEMMA ReasonTaken ==
  ASSUME NEW h \in Goroutines, Reason(h), NEW p, NEW m, p = npd[h], m = mode(h), UNCHANGED fdVars, readable' = readable,
         npc'[h] = npc[h], npd'[h] = npd[h], todo'[h] = todo[h], h \notin {"nil", "ready"},
         sem'[p][m] \in {"nil", "ready"},
         sem[p][m] = h => \E a \in Actors : h \in woken'[a],
         \A a \in Actors : h \in woken[a] => h \in woken'[a],
         sem[p][m] = "ready" => sem'[p][m] = "ready",
         sem'[p][m] = "ready" \/ (Reported(p, m) => Reported(p, m)')
  PROVE  Reason(h)'
<1>1. mode(h)' = m /\ npd'[h] = p /\ file(h)' = file(h)
  BY DEF mode, file, fdVars
<1>2. Named(h)'
  BY <1>1 DEF Reason, Named
<1>3. Excused(h)'
  BY <1>1 DEF Excused
<1>4. Told(h)'
  BY <1>1 DEF Reason, Told
<1> QED BY <1>2, <1>3, <1>4 DEF Reason

LEMMA ReasonUnblocks ==
  ASSUME ReasonInv, UNCHANGED fdVars, NEW a \in Actors, Unblock(a)
  PROVE  WorkInv' /\ RegInv' /\ UseInv' /\ \A h \in Goroutines : Reason(h)'
<1> USE DEF ReasonInv, ThrowInv, DescInv
<1>0. a \in TimerProcs => npc[a] # "evict2"
  BY DEF CallInv
<1>1. PICK l : Hop(a, l) /\ npc[a] \in {"unblock", "evict2"} /\ l \in {"unblock", "evict2", "expire", "ready"}
  BY <1>0, UnblockHops
<1>2. /\ npc'[a] = l /\ npd' = npd /\ DOMAIN npc = Actors /\ Goroutines \subseteq Actors
      /\ a \notin Pollers
  BY <1>1, HopFact DEF PollTypeOK, ControlOK, Actors, CallInv
<1>3. \A b \in Actors \ {a} : npc'[b] = npc[b] /\ todo'[b] = todo[b]
  BY <1>1, HopFact
<1>4. PICK p \in PollDescs, m \in Modes, rest \in SUBSET Modes :
        p = npd[a] /\ m = mode(a) /\ rest = todo[a] \ {mode(a)}
  BY ModeFact DEF PollTypeOK, ControlOK
<1>5. /\ UNCHANGED <<pdFile, closing, deadline, freeDescs, readable, registered, epoll, events, result>>
      /\ NetpollUnblock(a, p, m, FALSE) /\ todo' = [todo EXCEPT ![a] = rest]
  BY <1>4 DEF Unblock, kernelVars
<1>6. npc'[a] = IF rest = {} THEN "ready" ELSE IF a \in TimerProcs THEN "expire" ELSE npc[a]
  BY <1>2, <1>4 DEF Unblock
<1>7. todo'[a] = rest
  BY <1>5 DEF PollTypeOK, ControlOK
<1>8. WorkInv'
  <2>1. a \in TimerProcs => ~closing[npd[a]]
    BY <1>0, <1>1 DEF WorkInv
  <2> QED BY <1>1, <1>2, <1>5, <2>1, WorkHop
<1>9. RegInv'
  BY <1>1, <1>5, RegHop
<1>10. UseInv'
  BY <1>1, <1>5, UseHop
<1>11. /\ \A q \in PollDescs, n \in Modes : q # p \/ n # m => sem'[q][n] = sem[q][n]
       /\ sem[p][m] = "ready" => sem'[p][m] = "ready"
       /\ sem'[p][m] \in {"nil", "ready"}
       /\ \A h \in Goroutines, c \in Actors : h \in woken[c] => h \in woken'[c]
       /\ \A h \in Goroutines : sem[p][m] = h => h \in woken'[a]
  <2>1. PICK u \in {"nil", "ready"} : (sem[p][m] = "ready" => u = "ready") /\ Takes(a, p, m, u)
    BY <1>5 DEF NetpollUnblock, Unblocked, Takes
  <2> QED BY <2>1, TakenOut
<1>12. \A q \in PollDescs, n \in Modes : Reported(q, n) <=> Reported(q, n)'
  BY <1>5 DEF Reported
<1>13. ASSUME NEW q \in PollDescs, NEW n \in Modes, q # p \/ n # m, Spared(q, n)
       PROVE  Spared(q, n)'
  <2>1. CheckErr(q, n)' = CheckErr(q, n)
    BY <1>5 DEF CheckErr
  <2>2. CASE CheckErr(q, n) = "ok"
    BY <2>1, <2>2 DEF Spared
  <2>3. CASE CheckErr(q, n) # "ok"
    <3>1. PICK b \in Actors : npc[b] \in {"unblock", "evict2"} /\ npd[b] = q /\ n \in todo[b]
      BY <1>13, <2>3 DEF Spared, Unblocker
    <3>2. CASE b # a
      <4>1. Unblocker(q, n)'
        BY <1>2, <1>3, <3>1, <3>2 DEF Unblocker
      <4> QED BY <4>1 DEF Spared
    <3>3. CASE b = a
      <4>1. q = p /\ n # m /\ n \in rest
        BY <1>4, <1>13, <3>1, <3>3
      <4>2. CASE a \in TimerProcs
        <5>1. npc[a] = "unblock" /\ npd[a] = p /\ n \in todo[a] \ {mode(a)}
          BY <1>0, <1>1, <1>4, <4>1, <4>2
        <5>2. Firing(p, n, a)
          BY <5>1 DEF Firing
        <5>3. deadline[p][n] > 0 /\ deadline[p][n] \in Int
          BY <4>2, <5>2 DEF TimerInv, TimerOne, PollTypeOK
        <5>4. ~closing[p]
          BY <4>2, <5>1 DEF WorkInv
        <5>5. CheckErr(p, n) = "ok"
          BY <5>3, <5>4 DEF CheckErr
        <5> QED BY <2>3, <4>1, <5>5
      <4>3. CASE a \notin TimerProcs
        <5>1. npc'[a] = npc[a] /\ n \in todo'[a]
          BY <1>6, <1>7, <4>1, <4>3
        <5>2. Unblocker(q, n)'
          BY <1>2, <3>1, <3>3, <5>1 DEF Unblocker
        <5> QED BY <5>2 DEF Spared
      <4> QED BY <4>2, <4>3
    <3> QED BY <3>2, <3>3
  <2> QED BY <2>2, <2>3
<1>14. \A h \in Goroutines : Reason(h)'
  <2>1. ASSUME NEW h \in Goroutines, NEW q \in PollDescs, NEW n \in Modes,
               h # a, npc[h] \in WaitPc, q = npd[h], n = mode(h), q = p /\ n = m
        PROVE  Reason(h)'
    <3>1. npc'[h] = npc[h] /\ npd'[h] = npd[h] /\ todo'[h] = todo[h] /\ h \notin {"nil", "ready"}
      BY <1>2, <1>3, <2>1, PollAssumption
    <3>2. UNCHANGED fdVars /\ readable' = readable /\ Reason(h)
      BY <1>5
    <3>3. /\ sem'[q][n] \in {"nil", "ready"}
          /\ sem[q][n] = "ready" => sem'[q][n] = "ready"
          /\ sem[q][n] = h => \E b \in Actors : h \in woken'[b]
      BY <1>11, <2>1
    <3>4. \A b \in Actors : h \in woken[b] => h \in woken'[b]
      BY <1>11
    <3>5. Reported(q, n) => Reported(q, n)'
      BY <1>12
    <3> QED BY <2>1, <3>1, <3>2, <3>3, <3>4, <3>5, ReasonTaken
  <2>2. npc[a] \notin WaitPc
    BY <1>1 DEF WaitPc
  <2>3. ASSUME NEW h \in Goroutines, NEW q \in PollDescs, NEW n \in Modes,
               h # a, npc[h] \in WaitPc, q = npd[h], n = mode(h)
        PROVE  \/ Reason(h)'
               \/ /\ sem'[q][n] = sem[q][n]
                  /\ Reported(q, n) => Reported(q, n)'
                  /\ Spared(q, n) => Spared(q, n)'
    BY <1>11, <1>12, <1>13, <2>1, <2>3
  <2> QED BY <1>1, <1>5, <1>11, <2>2, <2>3, ReasonOthers
<1> QED BY <1>8, <1>9, <1>10, <1>14

LEMMA ReasonGoready ==
  ASSUME ReasonInv, UNCHANGED fdVars, NEW a \in Actors, NetpollGoready(a)
  PROVE  WorkInv' /\ RegInv' /\ UseInv' /\ \A h \in Goroutines : Reason(h)'
<1> USE DEF ReasonInv, ThrowInv, DescInv
<1>1. /\ npc[a] = "ready" /\ npd' = npd /\ todo' = todo /\ sem' = sem /\ a \notin woken[a]
      /\ npc'[a] = "idle"
  <2>1. a \notin woken[a]
    BY GoreadyFacts DEF PollTypeOK
  <2> QED BY <2>1, GoreadyFacts
<1>2. /\ \A g \in Goroutines : g \in woken[a] => npc[g] = "parked" /\ npc'[g] = "resume"
      /\ \A b \in Actors \ {a} : npc'[b] = IF b \in woken[a] THEN "resume" ELSE npc[b]
      /\ woken'[a] = {} /\ \A b \in Actors \ {a} : woken'[b] = woken[b]
  BY GoreadyFacts
<1>3. /\ Goroutines \subseteq Actors /\ TimerProcs \subseteq Actors /\ Pollers \subseteq Actors
      /\ Goroutines \cap TimerProcs = {} /\ Goroutines \cap Pollers = {} /\ woken[a] \subseteq Goroutines
  BY PollAssumption DEF Actors, PollTypeOK
<1>4. \A b \in Actors : npc'[b] = npc[b] \/ npc'[b] = "idle" \/ (npc'[b] = "resume" /\ npc[b] = "parked")
  BY <1>1, <1>2, <1>3
<1>5. UNCHANGED <<pdFile, closing, deadline, freeDescs, readable, registered, epoll, events, result>>
  BY DEF NetpollGoready, descVars, kernelVars
<1>6. WorkInv'
  <2>1. \A n \in Pollers : npc'[n] # "events" => npc[n] # "events"
    BY <1>3, <1>4, <1>1, <1>2
  <2> QED BY <1>1, <1>3, <1>4, <1>5, <2>1 DEF WorkInv
<1>7. RegInv'
  BY <1>1, <1>3, <1>4, <1>5 DEF RegInv, FreePd
<1>8. UNCHANGED <<fpc, op, ctx>> /\ \A h \in Goroutines : file(h)' = file(h)
  BY DEF fdVars, file
<1>9. UseInv'
  <2>1. ASSUME NEW f \in Files, NEW p \in PollDescs, InUse(f, p)'
        PROVE  InUse(f, p)
    BY <1>3, <1>4, <1>8, <2>1 DEF InUse
  <2>2. ASSUME NEW g \in Goroutines, Accepted(g)'
        PROVE  Accepted(g)
    <3>1. fpc[g] = "opening"
      BY <1>8, <2>2 DEF Accepted
    <3>2. g # a
      BY <1>1, <3>1 DEF CallInv, InPoll, WaitPc
    <3> QED BY <1>2, <1>3, <1>5, <1>8, <2>2, <3>2 DEF Accepted
  <2> QED BY <1>1, <1>5, <1>8, <2>1, <2>2 DEF UseInv
<1>10. \A q \in PollDescs, n \in Modes : (Reported(q, n) => Reported(q, n)') /\ (Spared(q, n) => Spared(q, n)')
  <2>1. \A b \in Actors : npc[b] \in {"unblock", "evict2"} => npc'[b] = npc[b]
    BY <1>1, <1>2, <1>3
  <2>2. \A q \in PollDescs, n \in Modes : Unblocker(q, n) => Unblocker(q, n)'
    BY <1>1, <2>1 DEF Unblocker
  <2> QED BY <1>5, <2>2 DEF Reported, Spared, CheckErr
<1>11. ASSUME NEW h \in Goroutines
       PROVE  Reason(h)'
  <2>1. CASE h = a
    BY <1>1, <2>1 DEF Reason, Named, Excused, Told, ToldPc, WaitPc
  <2>2. CASE h # a /\ h \in woken[a]
    <3>1. npc[h] = "parked" /\ npc'[h] = "resume" /\ npd'[h] = npd[h] /\ mode(h)' = mode(h)
      BY <1>1, <1>2, <2>2 DEF mode
    <3>2. npc[h] \in WaitPc /\ npc[h] \in ToldPc
      BY <3>1 DEF WaitPc, ToldPc
    <3>3. PICK p \in PollDescs, m \in Modes : p = npd[h] /\ m = mode(h)
      BY <3>2, WaiterFacts
    <3>4. m \in readable[file(h)] => Reported(p, m) \/ sem[p][m] = "ready"
      BY <3>2, <3>3 DEF Reason, Told
    <3> QED BY <1>1, <1>5, <1>8, <1>10, <3>1, <3>3, <3>4 DEF Reason, Named, Excused, Told
  <2>3. CASE h # a /\ h \notin woken[a] /\ npc[h] \in WaitPc
    <3>1. PICK p \in PollDescs, m \in Modes : p = npd[h] /\ m = mode(h)
      BY <2>3, WaiterFacts
    <3>2. \A b \in Actors : h \in woken[b] => h \in woken'[b]
      BY <1>2, <2>3
    <3>3. npc'[h] = npc[h] /\ npd'[h] = npd[h] /\ todo'[h] = todo[h]
      BY <1>1, <1>2, <1>3, <2>3
    <3> QED BY <1>1, <1>5, <1>8, <1>10, <3>1, <3>2, <3>3, ReasonStays
  <2>4. CASE h # a /\ h \notin woken[a] /\ npc[h] \notin WaitPc
    <3>1. npc'[h] \notin WaitPc
      BY <1>2, <1>3, <2>4
    <3> QED BY <3>1 DEF Reason, Named, Excused, Told, ToldPc, WaitPc
  <2> QED BY <2>1, <2>2, <2>3, <2>4
<1> QED BY <1>6, <1>7, <1>9, <1>11

-----------------------------------------------------------------------------

LEMMA ReasonFires ==
  ASSUME ReasonInv, UNCHANGED fdVars, NEW t \in TimerProcs, TimerFires(t)
  PROVE  WorkInv' /\ RegInv' /\ UseInv' /\ \A h \in Goroutines : Reason(h)'
<1> USE DEF ReasonInv, ThrowInv, DescInv
<1>1. /\ Goroutines \subseteq Actors /\ TimerProcs \subseteq Actors /\ Pollers \subseteq Actors
      /\ t \notin Goroutines /\ t \notin Pollers /\ DOMAIN npc = Actors
      /\ npd \in [Actors -> PollDescs] /\ todo \in [Actors -> SUBSET Modes]
  BY PollAssumption DEF Actors, PollTypeOK, ControlOK
<1>2. npc[t] = "idle" /\ npc'[t] = "deadline"
  BY <1>1 DEF TimerFires
<1>3. \A b \in Actors \ {t} : npc'[b] = npc[b] /\ npd'[b] = npd[b] /\ todo'[b] = todo[b]
  BY <1>1 DEF TimerFires
<1>4. UNCHANGED <<pdFile, closing, sem, deadline, freeDescs, readable, registered, epoll, events, woken, result>>
  BY DEF TimerFires, kernelVars
<1>5. \A g \in Goroutines : npc'[g] = npc[g] /\ npd'[g] = npd[g] /\ todo'[g] = todo[g]
  BY <1>1, <1>3
<1>6. WorkInv'
  BY <1>1, <1>2, <1>3, <1>4 DEF WorkInv
<1>7. RegInv'
  BY <1>4, <1>5 DEF RegInv, FreePd
<1>8. UNCHANGED <<fpc, op, ctx>> /\ \A h \in Goroutines : file(h)' = file(h)
  BY DEF fdVars, file
<1>9. UseInv'
  BY <1>4, <1>5, <1>8 DEF UseInv, InUse, Accepted
<1>10. \A q \in PollDescs, n \in Modes : (Reported(q, n) => Reported(q, n)') /\ (Spared(q, n) => Spared(q, n)')
  <2>1. \A b \in Actors : npc[b] \in {"unblock", "evict2"} =>
          npc'[b] = npc[b] /\ npd'[b] = npd[b] /\ todo'[b] = todo[b]
    BY <1>2, <1>3
  <2>2. \A q \in PollDescs, n \in Modes : Unblocker(q, n) => Unblocker(q, n)'
    BY <2>1 DEF Unblocker
  <2> QED BY <1>4, <2>2 DEF Reported, Spared, CheckErr
<1>11. ASSUME NEW h \in Goroutines
       PROVE  Reason(h)'
  <2>1. CASE npc[h] \in WaitPc
    <3>1. PICK p \in PollDescs, m \in Modes : p = npd[h] /\ m = mode(h)
      BY <2>1, WaiterFacts
    <3> QED BY <1>4, <1>5, <1>8, <1>10, <3>1, ReasonStays
  <2>2. CASE npc[h] \notin WaitPc
    <3>1. npc'[h] \notin WaitPc
      BY <1>5, <2>2
    <3> QED BY <3>1 DEF Reason, Named, Excused, Told, ToldPc, WaitPc
  <2> QED BY <2>1, <2>2
<1> QED BY <1>6, <1>7, <1>9, <1>11

LEMMA ReasonDeadline ==
  ASSUME ReasonInv, UNCHANGED fdVars, NEW t \in TimerProcs, DeadlineImpl(t)
  PROVE  WorkInv' /\ RegInv' /\ UseInv' /\ \A h \in Goroutines : Reason(h)'
<1> USE DEF ReasonInv, ThrowInv, DescInv
<1>1. PICK l : Hop(t, l) /\ npc[t] \in {"deadline", "expire"}
  BY TimerHops
<1>2. /\ t \in Actors /\ t \notin Goroutines /\ t \notin Pollers /\ npc'[t] = l /\ npd' = npd
      /\ DOMAIN npc = Actors /\ Trans(npc[t], l) /\ npd[t] \in PollDescs
  BY <1>1, PollAssumption, HopFact DEF PollTypeOK, ControlOK, Actors, Hop
<1>3. /\ npc[t] = "deadline" /\ l \in {"idle", "expire"}
      /\ UNCHANGED <<pdFile, closing, sem, deadline, freeDescs, readable, registered, epoll, events, woken, result>>
  BY <1>2 DEF DeadlineImpl, Trans, kernelVars, NGoto
<1>4. l = "expire" => ~closing[npd[t]]
  <2>1. SUFFICES ASSUME l = "expire"
                 PROVE  ~closing[npd[t]]
    OBVIOUS
  <2>2. ~StaleTimer(t)
    BY <1>2, <2>1 DEF DeadlineImpl
  <2>3. Due(npd[t], t)
    BY <1>3, <2>2 DEF StaleTimer, Due
  <2> QED BY <1>2, <2>3 DEF TimerInv, TimerAges
<1>5. WorkInv' /\ RegInv' /\ UseInv'
  BY <1>1, <1>2, <1>3, <1>4, WorkHop, RegHop, UseHop
<1>6. \A h \in Goroutines : Reason(h)'
  <2>1. npc[t] \notin WaitPc /\ npc[t] \notin {"unblock", "evict2"}
    BY <1>3 DEF WaitPc
  <2>2. \A q \in PollDescs, n \in Modes : (Reported(q, n) => Reported(q, n)') /\ (Spared(q, n) => Spared(q, n)')
    BY <1>1, <1>2, <1>3, <2>1, SparesStay DEF Reported
  <2> QED BY <1>1, <1>2, <1>3, <2>1, <2>2, ReasonOthers
<1> QED BY <1>5, <1>6

LEMMA ReasonExpire ==
  ASSUME ReasonInv, UNCHANGED fdVars, NEW t \in TimerProcs, Expire(t), npc'[t] # "throw"
  PROVE  WorkInv' /\ RegInv' /\ UseInv' /\ \A h \in Goroutines : Reason(h)'
<1> USE DEF ReasonInv, ThrowInv, DescInv
<1>1. PICK l : Hop(t, l) /\ npc[t] \in {"deadline", "expire"}
  BY TimerHops
<1>2. /\ t \in Actors /\ t \notin Goroutines /\ t \notin Pollers /\ npc'[t] = l /\ npd' = npd
      /\ DOMAIN npc = Actors
  BY <1>1, PollAssumption, HopFact DEF PollTypeOK, ControlOK, Actors
<1>3. \A b \in Actors \ {t} : npc'[b] = npc[b] /\ todo'[b] = todo[b]
  BY <1>1, <1>2, HopFact
<1>4. PICK p \in PollDescs, m \in Modes : p = npd[t] /\ m = mode(t)
  BY <1>2, ModeFact DEF PollTypeOK, ControlOK
<1>5. /\ npc[t] = "expire" /\ deadline' = [deadline EXCEPT ![p][m] = -1] /\ todo' = todo /\ l = "unblock"
      /\ UNCHANGED <<pdFile, closing, sem, freeDescs, readable, registered, epoll, events, woken, result>>
  BY <1>2, <1>4 DEF Expire, NGoto, kernelVars
<1>6. m \in todo[t]
  <2>1. todo[t] # {} /\ todo[t] \in SUBSET Modes
    BY <1>2, <1>4, <1>5 DEF TimerInv, TimerAges, PollTypeOK, ControlOK
  <2> QED BY <1>4, <2>1, ModeFact DEF mode
<1>7. WorkInv' /\ RegInv' /\ UseInv'
  <2>1. ~closing[npd[t]]
    BY <1>5 DEF WorkInv
  <2> QED BY <1>1, <1>2, <1>5, <2>1, WorkHop, RegHop, UseHop
<1>8. \A q \in PollDescs, n \in Modes : q # p \/ n # m => deadline'[q][n] = deadline[q][n]
  <2>1. deadline \in [PollDescs -> [Modes -> Int]]
    BY DEF PollTypeOK
  <2> QED BY <1>5, <2>1
<1>9. \A q \in PollDescs, n \in Modes : Unblocker(q, n) => Unblocker(q, n)'
  <2>1. \A b \in Actors : npc[b] \in {"unblock", "evict2"} => npc'[b] = npc[b]
    BY <1>3, <1>5
  <2> QED BY <1>2, <1>5, <2>1 DEF Unblocker
<1>10. Unblocker(p, m)'
  BY <1>2, <1>4, <1>5, <1>6 DEF Unblocker
<1>11. ASSUME NEW q \in PollDescs, NEW n \in Modes, Spared(q, n)
       PROVE  Spared(q, n)'
  <2>1. CASE q = p /\ n = m
    BY <1>10, <2>1 DEF Spared
  <2>2. CASE q # p \/ n # m
    <3>1. CheckErr(q, n)' = CheckErr(q, n)
      BY <1>5, <1>8, <2>2 DEF CheckErr
    <3> QED BY <1>9, <1>11, <3>1 DEF Spared
  <2> QED BY <2>1, <2>2
<1>12. \A h \in Goroutines : Reason(h)'
  <2>1. npc[t] \notin WaitPc
    BY <1>5 DEF WaitPc
  <2>2. \A q \in PollDescs, n \in Modes : Reported(q, n) => Reported(q, n)'
    BY <1>5 DEF Reported
  <2> QED BY <1>1, <1>2, <1>5, <1>11, <2>1, <2>2, ReasonOthers
<1> QED BY <1>7, <1>12

-----------------------------------------------------------------------------

LEMMA ReasonEpollWait ==
  ASSUME ReasonInv, UNCHANGED fdVars, NEW n \in Pollers, EpollWait(n)
  PROVE  WorkInv' /\ RegInv' /\ UseInv' /\ \A h \in Goroutines : Reason(h)'
<1> USE DEF ReasonInv, ThrowInv, DescInv
<1>1. PICK l : Hop(n, l) /\ npc[n] \in {"idle", "events"}
  BY PollerHops
<1>2. /\ n \in Actors /\ n \notin Goroutines /\ n \notin TimerProcs /\ npc'[n] = l /\ npd' = npd
      /\ DOMAIN npc = Actors /\ TimerProcs \subseteq Actors /\ Pollers \subseteq Actors
  BY <1>1, PollAssumption, HopFact DEF PollTypeOK, ControlOK, Actors
<1>3. \A b \in Actors \ {n} : npc'[b] = npc[b] /\ todo'[b] = todo[b]
  BY <1>1, <1>2, HopFact
<1>4. /\ npc[n] = "idle" /\ l = "events" /\ epoll' = {} /\ events' = [events EXCEPT ![n] = epoll]
      /\ UNCHANGED <<pdFile, closing, sem, deadline, freeDescs, readable, registered, woken, result>>
  BY <1>2 DEF EpollWait, descVars, NGoto
<1>5. events[n] = {}
  BY <1>4 DEF WorkInv
<1>6. events'[n] = epoll /\ \A k \in Pollers \ {n} : events'[k] = events[k]
  BY <1>4 DEF PollTypeOK
<1>7. WorkInv'
  BY <1>2, <1>3, <1>4, <1>6 DEF WorkInv
<1>8. RegInv' /\ UseInv'
  BY <1>1, <1>2, <1>4, RegHop, UseHop
<1>9. ASSUME NEW q \in PollDescs, NEW m \in Modes, Reported(q, m)
      PROVE  Reported(q, m)'
  <2>1. PICK e : e \in epoll \cup UNION {events[k] : k \in Pollers} /\ e.pd = q /\ e.mode = m
    BY <1>9 DEF Reported
  <2>2. CASE e \in epoll
    <3>1. e \in events'[n]
      BY <1>6, <2>2
    <3> QED BY <2>1, <3>1 DEF Reported
  <2>3. CASE e \notin epoll
    <3>1. PICK k \in Pollers : e \in events[k]
      BY <2>1, <2>3
    <3>2. e \in events'[k]
      BY <1>5, <1>6, <3>1
    <3> QED BY <2>1, <3>2 DEF Reported
  <2> QED BY <2>2, <2>3
<1>10. \A h \in Goroutines : Reason(h)'
  <2>1. npc[n] \notin WaitPc /\ npc[n] \notin {"unblock", "evict2"}
    BY <1>4 DEF WaitPc
  <2>2. \A q \in PollDescs, m \in Modes : Spared(q, m) => Spared(q, m)'
    BY <1>1, <1>2, <1>4, <2>1, SparesStay
  <2> QED BY <1>1, <1>2, <1>4, <1>9, <2>1, <2>2, ReasonOthers
<1> QED BY <1>7, <1>8, <1>10

LEMMA ReasonNetpollReady ==
  ASSUME ReasonInv, UNCHANGED fdVars, NEW n \in Pollers, NetpollReady(n)
  PROVE  WorkInv' /\ RegInv' /\ UseInv' /\ \A h \in Goroutines : Reason(h)'
<1> USE DEF ReasonInv, ThrowInv, DescInv
<1>1. PICK l : Hop(n, l) /\ npc[n] \in {"idle", "events"}
  BY PollerHops
<1>2. /\ n \in Actors /\ n \notin Goroutines /\ n \notin TimerProcs /\ npc'[n] = l /\ npd' = npd
      /\ DOMAIN npc = Actors /\ TimerProcs \subseteq Actors /\ Pollers \subseteq Actors /\ Goroutines \subseteq Actors
  BY <1>1, PollAssumption, HopFact DEF PollTypeOK, ControlOK, Actors
<1>3. \A b \in Actors \ {n} : npc'[b] = npc[b] /\ todo'[b] = todo[b]
  BY <1>1, <1>2, HopFact
<1>4. /\ npc[n] = "events" /\ l = IF events'[n] = {} THEN "ready" ELSE "events"
      /\ UNCHANGED <<pdFile, closing, deadline, freeDescs, readable, registered, epoll, result>>
  BY <1>2 DEF NetpollReady, kernelVars, NGoto
<1>5. PICK e \in events[n] : NetpollUnblock(n, e.pd, e.mode, TRUE) /\ events' = [events EXCEPT ![n] = @ \ {e}]
  BY DEF NetpollReady
<1>6. PICK p \in PollDescs, m \in Modes : p = e.pd /\ m = e.mode
  BY <1>5 DEF EdgeInv, Edges
<1>7. events'[n] = events[n] \ {e} /\ \A k \in Pollers \ {n} : events'[k] = events[k]
  BY <1>5 DEF PollTypeOK
<1>8. WorkInv'
  BY <1>2, <1>3, <1>4, <1>7 DEF WorkInv
<1>9. RegInv' /\ UseInv'
  BY <1>1, <1>2, <1>4, RegHop, UseHop
<1>10. /\ \A q \in PollDescs, k \in Modes : q # p \/ k # m => sem'[q][k] = sem[q][k]
       /\ sem'[p][m] = "ready"
       /\ \A h \in Goroutines, c \in Actors : h \in woken[c] => h \in woken'[c]
       /\ \A h \in Goroutines : sem[p][m] = h => h \in woken'[n]
  <2>1. PICK u \in {"nil", "ready"} : u = "ready" /\ Takes(n, p, m, u)
    BY <1>5, <1>6 DEF NetpollUnblock, Unblocked, Takes
  <2> QED BY <1>2, <2>1, TakenOut
<1>11. ASSUME NEW q \in PollDescs, NEW k \in Modes, q # p \/ k # m, Reported(q, k)
       PROVE  Reported(q, k)'
  <2>1. PICK d : d \in epoll \cup UNION {events[i] : i \in Pollers} /\ d.pd = q /\ d.mode = k
    BY <1>11 DEF Reported
  <2>2. d # e
    BY <1>6, <1>11, <2>1
  <2>3. CASE d \in epoll
    BY <1>4, <2>1, <2>3 DEF Reported
  <2>4. CASE d \notin epoll
    <3>1. PICK i \in Pollers : d \in events[i]
      BY <2>1, <2>4
    <3>2. d \in events'[i]
      BY <1>7, <2>2, <3>1
    <3> QED BY <2>1, <3>2 DEF Reported
  <2> QED BY <2>3, <2>4
<1>12. npc[n] \notin WaitPc /\ npc[n] \notin {"unblock", "evict2"}
  BY <1>4 DEF WaitPc
<1>13. \A q \in PollDescs, k \in Modes : Spared(q, k) => Spared(q, k)'
  BY <1>1, <1>2, <1>4, <1>12, SparesStay
<1>14. ASSUME NEW h \in Goroutines, npc[h] \in WaitPc, npd[h] = p, mode(h) = m
       PROVE  Reason(h)'
  <2>1. npc'[h] = npc[h] /\ npd'[h] = npd[h] /\ todo'[h] = todo[h] /\ h \notin {"nil", "ready"}
    BY <1>2, <1>3, <1>14, PollAssumption
  <2>2. UNCHANGED fdVars /\ readable' = readable /\ Reason(h)
    BY <1>4
  <2>3. /\ sem'[p][m] \in {"nil", "ready"}
        /\ sem[p][m] = "ready" => sem'[p][m] = "ready"
        /\ sem[p][m] = h => \E b \in Actors : h \in woken'[b]
    BY <1>2, <1>10
  <2>4. \A b \in Actors : h \in woken[b] => h \in woken'[b]
    BY <1>10
  <2> QED BY <1>10, <1>14, <2>1, <2>2, <2>3, <2>4, ReasonTaken
<1>15. ASSUME NEW h \in Goroutines, NEW q \in PollDescs, NEW k \in Modes, npc[h] \in WaitPc, q = npd[h], k = mode(h)
       PROVE  \/ Reason(h)'
              \/ /\ sem'[q][k] = sem[q][k]
                 /\ Reported(q, k) => Reported(q, k)'
                 /\ Spared(q, k) => Spared(q, k)'
  BY <1>10, <1>11, <1>13, <1>14, <1>15
<1>16. \A h \in Goroutines : Reason(h)'
  BY <1>1, <1>2, <1>4, <1>10, <1>12, <1>15, ReasonOthers
<1> QED BY <1>8, <1>9, <1>16

\* The kernel tells epoll of what a file in use becomes ready for.
LEMMA ReasonReady ==
  ASSUME ReasonInv, UNCHANGED fdVars, NEW f \in Files, NEW m \in Modes, BecomesReady(f, m)
  PROVE  WorkInv' /\ RegInv' /\ UseInv' /\ \A h \in Goroutines : Reason(h)'
<1> USE DEF ReasonInv, ThrowInv, DescInv
<1>1. /\ UNCHANGED <<pdFile, closing, sem, deadline, freeDescs, registered, npc, npd, todo, events, woken, result>>
      /\ epoll' = epoll \cup {Edge(p, m, f) : p \in {registered[f]} \cap PollDescs}
  BY DEF BecomesReady, descVars, callVars
<1>2. readable'[f] = readable[f] \cup {m} /\ \A e \in Files \ {f} : readable'[e] = readable[e]
  BY DEF BecomesReady, PollTypeOK
<1>3. UNCHANGED <<fpc, op, ctx>> /\ \A h \in Goroutines : file(h)' = file(h) /\ mode(h)' = mode(h)
  BY <1>1 DEF fdVars, file, mode
<1>4. \A e \in epoll' : e \in epoll \/ (e.pd = registered[f] /\ e.file = f /\ registered[f] \in PollDescs)
  BY <1>1 DEF Edge
<1>5. WorkInv' /\ UseInv'
  BY <1>1, <1>3 DEF WorkInv, UseInv, InUse, Accepted
<1>6. RegInv'
  <2>1. \A e \in epoll' : pdFile[e.pd] = e.file
    <3>1. registered[f] \in PollDescs => pdFile[registered[f]] = f
      BY PollAssumption DEF RegInv
    <3> QED BY <1>4, <3>1 DEF RegInv
  <2>2. ASSUME NEW g \in Goroutines, FreePd(g)
        PROVE  \A e \in epoll' : e.pd # npd[g]
    <3>1. registered[pdFile[npd[g]]] = Nobody
      BY <2>2 DEF RegInv
    <3>2. registered[f] \in PollDescs => registered[f] # npd[g]
      <4>1. registered[f] \in PollDescs => pdFile[registered[f]] = f /\ registered[f] # Nobody
        BY PollAssumption DEF RegInv
      <4> QED BY <3>1, <4>1
    <3> QED BY <1>4, <2>2, <3>2 DEF RegInv
  <2> QED BY <1>1, <2>1, <2>2 DEF RegInv, FreePd
<1>7. \A q \in PollDescs, k \in Modes : (Reported(q, k) => Reported(q, k)') /\ (Spared(q, k) <=> Spared(q, k)')
  BY <1>1 DEF Reported, Spared, CheckErr, Unblocker
<1>8. ASSUME NEW h \in Goroutines
      PROVE  Reason(h)'
  <2>1. CASE npc[h] \in WaitPc
    <3>1. PICK p \in PollDescs, k \in Modes : p = npd[h] /\ k = mode(h)
      BY <2>1, WaiterFacts
    <3>2. CASE file(h) = f /\ k = m
      <4>1. FileHas(f, p) /\ fdmu[f].refs # 0 /\ fpc[h] = "prepared"
        BY <2>1, <3>1, <3>2, WaiterFacts
      <4>2. InUse(f, p)
        BY <4>1 DEF InUse, FileHas, LifeInv, DestroyInv, DestroyPc
      <4>3. registered[f] = p
        BY <4>2 DEF UseInv
      <4>4. Edge(p, m, f) \in epoll'
        BY <1>1, <4>3
      <4>5. Reported(p, m)'
        BY <4>4 DEF Reported, Edge
      <4> QED BY <1>1, <1>3, <1>7, <3>1, <3>2, <4>5 DEF Reason, Named, Excused, Told
    <3>3. CASE file(h) # f \/ k # m
      <4>1. k \in readable'[file(h)] => k \in readable[file(h)]
        <5>1. file(h) \in Files
          BY <2>1, WaiterFacts
        <5> QED BY <1>2, <3>3, <5>1
      <4> QED BY <1>1, <1>3, <1>7, <3>1, <4>1 DEF Reason, Named, Excused, Told
    <3> QED BY <3>2, <3>3
  <2>2. CASE npc[h] \notin WaitPc
    <3>1. npc'[h] \notin WaitPc
      BY <1>1, <2>2
    <3> QED BY <3>1 DEF Reason, Named, Excused, Told, ToldPc, WaitPc
  <2> QED BY <2>1, <2>2
<1> QED BY <1>5, <1>6, <1>8

-----------------------------------------------------------------------------
(* Steps of a file.                                                        *)

\* What a step of a file does to results and to what files are ready for; and who
\* goes to wait has found its file not ready.
LEMMA StepTold ==
  ASSUME PollTypeOK, FDInv, NEW g \in Goroutines, FDStep(g)
  PROVE  /\ \A h \in Goroutines \ {g} : result'[h] = result[h]
         /\ \A f \in Files : readable'[f] \subseteq readable[f]
<1>1. DOMAIN result = Goroutines /\ readable \in [Files -> SUBSET Modes]
  BY DEF PollTypeOK, ControlOK
<1>2. \A e, p, ms, d : CallPoll(g, e, p, ms, d) => result' = result /\ readable' = readable
  BY DEF CallPoll, kernelVars
<1>3. \A rs : Returned(g, rs) => readable' = readable /\ \A h \in Goroutines \ {g} : result'[h] = result[h]
  BY <1>1 DEF Returned, kernelVars
<1>4. pollVars' = pollVars => result' = result /\ readable' = readable
  BY DEF pollVars
<1>5. CASE Opened(g) \/ OpenedBlocking(g) \/ Prepared(g) \/ Decref(g) \/ CloseFunc(g)
  <2>1. \E rs : Returned(g, rs)
    BY <1>5 DEF Opened, OpenedBlocking, Prepared, Decref, CloseFunc
  <2> QED BY <1>3, <2>1
<1>6. CASE Open(g)
  BY <1>6 DEF Open, PollOpen, kernelVars
<1>7. CASE \/ OpenFails(g) \/ OpenUnpoll(g) \/ Prepare(g) \/ Incref(g) \/ CloseEvict(g) \/ Destroy(g)
  <2>1. pollVars' = pollVars \/ \E e, p, ms, d : CallPoll(g, e, p, ms, d)
    BY <1>7 DEF OpenFails, OpenUnpoll, Prepare, Incref, CloseEvict, Destroy, CallPollReset, CallPollUnblock,
                CallPollClose, CallPollSetDeadline
  <2> QED BY <1>2, <1>4, <2>1
<1>8. CASE RwLock(g) \/ RwLockWake(g) \/ RwUnlock(g) \/ RwSignal(g) \/ IncrefAndClose(g)
             \/ CloseRelease(g) \/ CloseWait(g) \/ CloseReturn(g) \/ CloseSignal(g)
  <2>1. pollVars' = pollVars
    BY <1>8 DEF RwLock, RwLockWake, RwUnlock, RwSignal, IncrefAndClose, CloseRelease, CloseWait,
                CloseReturn, CloseSignal
  <2> QED BY <1>4, <2>1
<1>9. CASE Syscall(g)
  <2>1. CASE ioMode(g) \in readable[file(g)]
    <3>1. result' = result /\ readable' = [readable EXCEPT ![file(g)] = @ \ {ioMode(g)}]
      BY <1>9, <2>1 DEF Syscall, Consume, callVars
    <3> QED BY <1>1, <3>1
  <2>2. CASE ioMode(g) \notin readable[file(g)]
    <3>1. CallPoll(g, "wait", ctx[file(g)], {ioMode(g)}, 0)
      BY <1>9, <2>2 DEF Syscall, CallPollWait
    <3> QED BY <1>2, <3>1
  <2> QED BY <2>1, <2>2
<1> QED BY <1>5, <1>6, <1>7, <1>8, <1>9 DEF FDStep

LEMMA StepWaits ==
  ASSUME PollTypeOK, FDInv, CallInv, NEW g \in Goroutines, FDStep(g), npc'[g] = "wait"
  PROVE  /\ mode(g)' = ioMode(g) /\ file(g)' = file(g)
         /\ ioMode(g) \notin readable[file(g)] /\ readable' = readable
<1>1. /\ npc[g] = "idle"
      /\ Quiet \/ \E e, ms : \E p \in PollDescs : CallsPoll(g, e, p, ms)
  BY StepCalls
<1>2. g \in Actors /\ DOMAIN npc = Actors /\ todo \in [Actors -> SUBSET Modes]
  BY DEF Actors, PollTypeOK, ControlOK
<1>3. npc' # npc
  BY <1>1
<1>4. PICK e, ms, p : CallsPoll(g, e, p, ms)
  BY <1>1, <1>3 DEF Quiet
<1>5. e = "wait" /\ todo'[g] = {ioMode(g)} /\ fpc[g] \in {"prepare", "syscall"} /\ fpc'[g] = "prepared"
  BY <1>2, <1>4 DEF CallsPoll, Entry
<1>6. Prepare(g) \/ Syscall(g)
  BY <1>5 DEF FDStep, Open, Opened, OpenFails, OpenUnpoll, OpenedBlocking, RwLock, RwLockWake, Prepare,
       Prepared, Syscall, RwUnlock, RwSignal, Incref, Decref, IncrefAndClose, CloseRelease,
       CloseEvict, CloseWait, CloseReturn, Destroy, CloseFunc, CloseSignal
<1>7. ~Prepare(g)
  <2>1. SUFFICES ASSUME Prepare(g)
                 PROVE  npc'[g] # "wait"
    OBVIOUS
  <2>2. CASE Pollable(file(g))
    BY <1>2, <2>1, <2>2 DEF Prepare, CallPollReset, CallPoll
  <2>3. CASE ~Pollable(file(g))
    BY <1>1, <2>1, <2>3 DEF Prepare, pollVars
  <2> QED BY <2>2, <2>3
<1>8. ioMode(g) \notin readable[file(g)]
  <2>1. ioMode(g) \in readable[file(g)] => npc' = npc
    BY <1>6, <1>7 DEF Syscall, Consume, callVars
  <2> QED BY <1>3, <2>1
<1>9. readable' = readable /\ op' = op
  BY <1>6, <1>7, <1>8 DEF Syscall, CallPollWait, CallPoll, FGoto, kernelVars
<1>10. ioMode(g) \in Modes
  BY ModeFact DEF ioMode
<1>11. mode(g)' = ioMode(g)
  BY <1>5, <1>10 DEF mode, FirstMode, Modes
<1> QED BY <1>8, <1>9, <1>11 DEF file

LEMMA ReasonStep ==
  ASSUME ReasonInv, NEW g \in Goroutines, FDStep(g)
  PROVE  WorkInv' /\ RegInv' /\ UseInv' /\ \A h \in Goroutines : Reason(h)'
<1> USE DEF ReasonInv, ThrowInv, DescInv
<1>1. /\ npc[g] = "idle" /\ PollStill
      /\ Quiet \/ \E e, ms : \E p \in PollDescs : CallsPoll(g, e, p, ms)
  BY StepCalls
<1>2. PICK l \in FPc : fpc[g] # "idle" /\ LifeStep(g, l)
  BY LifeSteps
<1>3. /\ fpc'[g] = l
      /\ \A h \in Goroutines \ {g} : fpc'[h] = fpc[h] /\ op'[h] = op[h] /\ file(h)' = file(h)
  BY <1>2 DEF LifeStep, Goes, FDInv, FDTypeOK, file
<1>4. /\ DOMAIN npc = Actors /\ npd \in [Actors -> PollDescs] /\ Goroutines \subseteq Actors
      /\ todo \in [Actors -> SUBSET Modes] /\ g \notin TimerProcs /\ g \notin Pollers
      /\ TimerProcs \subseteq Actors /\ Pollers \subseteq Actors
  BY PollAssumption DEF PollTypeOK, ControlOK, Actors
<1>5. \A b \in Actors \ {g} : npc'[b] = npc[b] /\ npd'[b] = npd[b] /\ todo'[b] = todo[b]
  BY <1>1, <1>4 DEF Quiet, CallsPoll
<1>6. npc'[g] \in {"idle", "open", "evict", "close", "reset", "wait", "setdeadline"}
  BY <1>1, <1>4 DEF Quiet, CallsPoll, Entry
<1>7. UNCHANGED <<pdFile, closing, sem, deadline, registered, epoll, events, woken>>
  BY <1>1 DEF PollStill
<1>8. /\ npc'[g] = "evict" => todo'[g] = Modes
      /\ npc'[g] = "open" => npd'[g] \in freeDescs
      /\ freeDescs' \subseteq freeDescs
  BY <1>1, <1>4 DEF Quiet, CallsPoll, Entry
<1>9. WorkInv'
  BY <1>4, <1>5, <1>7, <1>8 DEF WorkInv
<1>10. RegInv'
  <2>1. \A h \in Goroutines : npc'[h] = "open" => pdFile'[npd'[h]] = Nobody
    BY <1>4, <1>5, <1>7, <1>8 DEF RegInv
  <2>2. \A h \in Goroutines : FreePd(h)' => FreePd(h) /\ npd'[h] = npd[h]
    BY <1>4, <1>5, <1>6 DEF FreePd
  <2> QED BY <1>7, <1>8, <2>1, <2>2 DEF RegInv
<1>11. PICK f0 \in Files : f0 = file(g)
  BY <1>2, CallFacts
<1>12. /\ ctx \in [Files -> PollDescs \cup {Nobody}] /\ fpc \in [Goroutines -> FPc]
       /\ Nobody \notin PollDescs
  BY PollAssumption DEF FDInv, FDTypeOK
<1>13. ASSUME NEW f \in Files, NEW p \in PollDescs, InUse(f, p)'
       PROVE  registered'[f] = p
  <2>1. ctx'[f] = p /\ \A h \in Goroutines : fpc'[h] = "closefunc" /\ file(h)' = f => npc'[h] = "close"
    BY <1>13 DEF InUse
  <2>2. CASE Opened(g) /\ f = f0
    <3>1. fpc[g] = "opening" /\ result[g] = "ok" /\ ctx' = [ctx EXCEPT ![f0] = npd[g]]
      BY <1>11, <2>2 DEF Opened, Returned
    <3>2. p = npd[g] /\ Accepted(g)
      BY <1>1, <1>12, <2>1, <2>2, <3>1 DEF Accepted
    <3> QED BY <1>7, <1>11, <2>2, <3>2 DEF UseInv
  <2>3. CASE ~(Opened(g) /\ f = f0)
    <3>1. fpc[g] = "closefunc" => ctx' = [ctx EXCEPT ![f0] = Nobody]
      BY <1>11, StepAt DEF CloseFunc
    <3>2. Opened(g) => ctx' = [ctx EXCEPT ![f0] = npd[g]]
      BY <1>11 DEF Opened
    <3>3. ctx'[f] = ctx[f] \/ ctx'[f] = Nobody
      <4>1. CASE fpc[g] \in OpenPc
        BY <1>12, <2>3, <3>2, <4>1, StepAt DEF Open, OpenFails, OpenUnpoll, OpenedBlocking, fileVars
      <4>2. CASE fpc[g] \notin OpenPc
        BY <1>2, <1>12, <4>2 DEF LifeStep
      <4> QED BY <4>1, <4>2
    <3>4. ctx[f] = p /\ (fpc[g] = "closefunc" => f0 # f)
      BY <1>12, <2>1, <3>1, <3>3
    <3>5. ASSUME NEW h \in Goroutines, fpc[h] = "closefunc", file(h) = f
          PROVE  npc[h] = "close"
      BY <1>3, <1>4, <1>5, <1>11, <2>1, <3>4, <3>5
    <3>6. InUse(f, p)
      BY <3>4, <3>5 DEF InUse
    <3> QED BY <1>7, <3>6 DEF UseInv
  <2> QED BY <2>2, <2>3
<1>14. ASSUME NEW h \in Goroutines, Accepted(h)'
       PROVE  registered'[file(h)'] = npd'[h]
  <2>1. CASE h # g
    <3>1. result'[h] = result[h]
      BY <2>1, StepTold
    <3>2. Accepted(h)
      BY <1>3, <1>4, <1>5, <1>14, <2>1, <3>1 DEF Accepted
    <3> QED BY <1>3, <1>4, <1>5, <1>7, <2>1, <3>2 DEF UseInv
  <2>2. CASE h = g
    <3>1. l = "opening" /\ l \in OpenPc /\ npc'[g] = "idle"
      BY <1>3, <1>14, <2>2 DEF Accepted, OpenPc
    <3>2. fpc[g] \in OpenPc
      BY <1>2, <3>1 DEF LifeStep
    <3>3. ~Opened(g) /\ ~OpenedBlocking(g) /\ ~OpenFails(g) /\ ~OpenUnpoll(g)
      BY <1>3, <1>12, <3>1 DEF Opened, OpenedBlocking, OpenFails, OpenUnpoll, Done, FGoto
    <3>4. ~Open(g)
      BY <1>4, <3>1 DEF Open, PollOpen
    <3> QED BY <3>2, <3>3, <3>4, StepAt
  <2> QED BY <2>1, <2>2
<1>15. UseInv'
  BY <1>13, <1>14 DEF UseInv
<1>16. \A q \in PollDescs, n \in Modes : (Reported(q, n) => Reported(q, n)') /\ (Spared(q, n) => Spared(q, n)')
  <2>1. \A b \in Actors : npc[b] \in {"unblock", "evict2"} =>
          npc'[b] = npc[b] /\ npd'[b] = npd[b] /\ todo'[b] = todo[b]
    BY <1>1, <1>5
  <2>2. \A q \in PollDescs, n \in Modes : Unblocker(q, n) => Unblocker(q, n)'
    BY <2>1 DEF Unblocker
  <2> QED BY <1>7, <2>2 DEF Reported, Spared, CheckErr
<1>17. ASSUME NEW h \in Goroutines
       PROVE  Reason(h)'
  <2>1. CASE h # g /\ npc[h] \in WaitPc
    <3>1. PICK q \in PollDescs, n \in Modes : q = npd[h] /\ n = mode(h) /\ file(h) \in Files
      BY <2>1, WaiterFacts
    <3>2. readable'[file(h)] \subseteq readable[file(h)]
      BY <3>1, StepTold
    <3> QED BY <1>3, <1>4, <1>5, <1>7, <1>16, <2>1, <3>1, <3>2, ReasonStays
  <2>2. CASE h # g /\ npc[h] \notin WaitPc
    <3>1. npc'[h] \notin WaitPc
      BY <1>4, <1>5, <2>2
    <3> QED BY <3>1 DEF Reason, Named, Excused, Told, ToldPc, WaitPc
  <2>3. CASE h = g
    <3>1. npc'[g] \in ToldPc => npc'[g] = "wait"
      BY <1>6 DEF ToldPc, WaitPc
    <3>2. Told(g)'
      BY <3>1, StepWaits DEF Told
    <3> QED BY <1>6, <2>3, <3>2 DEF Reason, Named, Excused
  <2> QED BY <2>1, <2>2, <2>3
<1> QED BY <1>9, <1>10, <1>15, <1>17

LEMMA ReasonCallNext ==
  ASSUME ReasonInv, NEW g \in Goroutines, CallNext(g)
  PROVE  WorkInv' /\ RegInv' /\ UseInv' /\ \A h \in Goroutines : Reason(h)'
<1> USE DEF ReasonInv, ThrowInv
<1>1. PICK o \in Op : /\ fpc[g] = "idle" /\ fpc' = [fpc EXCEPT ![g] = FirstPc[o.kind]]
                      /\ op' = [op EXCEPT ![g] = o]
  BY CallNextFact DEF DescInv
<1>2. PICK l \in {"open", "rwlock", "incref", "close"} : l = FirstPc[o.kind]
  <2>1. o.kind \in {"open", "io", "setdeadline", "misc", "close"}
    BY DEF Op
  <2> QED BY <2>1 DEF FirstPc
<1>3. UNCHANGED <<ctx, pdFile, closing, sem, deadline, freeDescs, readable, registered, epoll, npc, npd, todo,
                  events, woken, result>>
  BY DEF CallNext, Invoke, fileVars, pollVars
<1>4. /\ fpc'[g] = l
      /\ \A h \in Goroutines \ {g} : fpc'[h] = fpc[h] /\ file(h)' = file(h)
  BY <1>1, <1>2 DEF DescInv, FDInv, FDTypeOK, file
<1>5. WorkInv' /\ RegInv'
  BY <1>3 DEF WorkInv, RegInv, FreePd
<1>6. UseInv'
  <2>1. ASSUME NEW f \in Files, NEW p \in PollDescs, InUse(f, p)'
        PROVE  InUse(f, p)
    <3>1. \A h \in Goroutines : fpc[h] = "closefunc" => h # g
      BY <1>1
    <3> QED BY <1>3, <1>4, <2>1, <3>1 DEF InUse
  <2>2. ASSUME NEW h \in Goroutines, Accepted(h)'
        PROVE  Accepted(h) /\ file(h)' = file(h)
    <3>1. h # g
      BY <1>4, <2>2 DEF Accepted
    <3> QED BY <1>3, <1>4, <2>2, <3>1 DEF Accepted
  <2> QED BY <1>3, <2>1, <2>2 DEF UseInv
<1>7. ASSUME NEW h \in Goroutines
      PROVE  Reason(h)'
  <2>1. CASE npc[h] \in WaitPc
    <3>1. h # g
      BY <1>1, <2>1, WaiterFacts
    <3>2. mode(h)' = mode(h) /\ file(h)' = file(h) /\ Reason(h)
      BY <1>3, <1>4, <3>1 DEF mode
    <3>3. PICK p, m : p = npd[h] /\ m = mode(h)
      OBVIOUS
    <3>4. (Reported(p, m) <=> Reported(p, m)') /\ (Spared(p, m) <=> Spared(p, m)')
      BY <1>3 DEF Reported, Spared, CheckErr, Unblocker
    <3> QED BY <1>3, <3>2, <3>3, <3>4, ReasonStays
  <2>2. CASE npc[h] \notin WaitPc
    BY <1>3, <2>2 DEF Reason, Named, Excused, Told, ToldPc, WaitPc
  <2> QED BY <2>1, <2>2
<1> QED BY <1>5, <1>6, <1>7

LEMMA NextKeepsReason ==
  ASSUME ReasonInv, [Next]_vars
  PROVE  ReasonInv'
<1>1. ThrowInv' /\ \A a \in Actors : npc'[a] # "throw"
  <2>1. ThrowInv'
    BY NextKeepsThrow DEF ReasonInv
  <2> QED BY <2>1 DEF ThrowInv, NeverThrows
<1>2. SUFFICES WorkInv' /\ RegInv' /\ UseInv' /\ \A h \in Goroutines : Reason(h)'
  BY <1>1 DEF ReasonInv
<1>3. ASSUME NEW g \in Goroutines, CallNext(g)
      PROVE  WorkInv' /\ RegInv' /\ UseInv' /\ \A h \in Goroutines : Reason(h)'
  BY <1>3, ReasonCallNext
<1>4. ASSUME NEW g \in Goroutines, Run(g)
      PROVE  WorkInv' /\ RegInv' /\ UseInv' /\ \A h \in Goroutines : Reason(h)'
  <2>1. CASE FDStep(g)
    BY <2>1, ReasonStep
  <2>2. CASE GoroutineInPoll(g, file(g)) /\ UNCHANGED <<semaphoreVars, fdVars>>
    <3>1. g \in Actors /\ UNCHANGED fdVars /\ npc'[g] # "throw"
      BY <1>1, <2>2 DEF Actors
    <3>2. CASE \/ PollReset(g) \/ PollResetStore(g)
               \/ PollWait(g) \/ NetpollBlock(g) \/ NetpollRecheck(g) \/ NetpollBlockCommit(g)
               \/ NetpollResume(g)
      BY <3>1, <3>2, ReasonWait
    <3>3. CASE PollOpenReset(g, file(g)) \/ PollSetDeadline(g) \/ PollUnblock(g)
      BY <3>1, <3>3, ReasonOpenReset, ReasonSetDeadline, ReasonUnblock
    <3>4. CASE PollOpenRegister(g) \/ PollClose(g) \/ PollFree(g)
      BY <3>1, <3>4, ReasonRegister, ReasonClose, ReasonFree
    <3>5. CASE Unblock(g) \/ NetpollGoready(g)
      BY <3>1, <3>5, ReasonUnblocks, ReasonGoready
    <3> QED BY <2>2, <3>2, <3>3, <3>4, <3>5 DEF GoroutineInPoll
  <2> QED BY <1>4, <2>1, <2>2 DEF Run
<1>5. ASSUME NEW t \in TimerProcs, Fire(t) \/ RunTimer(t)
      PROVE  WorkInv' /\ RegInv' /\ UseInv' /\ \A h \in Goroutines : Reason(h)'
  <2>1. t \in Actors /\ UNCHANGED fdVars
    BY <1>5 DEF Actors, Fire, RunTimer
  <2>2. CASE TimerFires(t)
    BY <2>1, <2>2, ReasonFires
  <2>3. CASE DeadlineImpl(t)
    BY <2>1, <2>3, ReasonDeadline
  <2>4. CASE Expire(t)
    BY <1>1, <2>1, <2>4, ReasonExpire
  <2>5. CASE Unblock(t) \/ NetpollGoready(t)
    BY <2>1, <2>5, ReasonUnblocks, ReasonGoready
  <2> QED BY <1>5, <2>2, <2>3, <2>4, <2>5 DEF Fire, RunTimer, TimerProcStep
<1>6. ASSUME NEW n \in Pollers, RunPoller(n)
      PROVE  WorkInv' /\ RegInv' /\ UseInv' /\ \A h \in Goroutines : Reason(h)'
  <2>1. n \in Actors /\ UNCHANGED fdVars
    BY <1>6 DEF Actors, RunPoller
  <2>2. CASE EpollWait(n) \/ NetpollReady(n)
    BY <2>1, <2>2, ReasonEpollWait, ReasonNetpollReady
  <2>3. CASE NetpollGoready(n)
    BY <2>1, <2>3, ReasonGoready
  <2> QED BY <1>6, <2>2, <2>3 DEF RunPoller, PollerStep
<1>7. ASSUME NEW f \in Files, NEW m \in Modes, Ready(f, m)
      PROVE  WorkInv' /\ RegInv' /\ UseInv' /\ \A h \in Goroutines : Reason(h)'
  BY <1>7, ReasonReady DEF Ready
<1>8. CASE UNCHANGED vars
  <2>1. UNCHANGED <<pdFile, closing, sem, deadline, freeDescs, readable, registered, epoll, npc, npd, todo,
                    events, woken, result, fpc, op, ctx>>
    BY <1>8 DEF vars, pollVars, fdVars
  <2>2. WorkInv' /\ RegInv' /\ UseInv'
    BY <2>1 DEF ReasonInv, WorkInv, RegInv, UseInv, FreePd, InUse, Accepted, file
  <2>3. \A h \in Goroutines : Reason(h)'
    BY <2>1 DEF ReasonInv, Reason, Named, Excused, Told, Spared, CheckErr, Unblocker, Reported, mode, file
  <2> QED BY <2>2, <2>3
<1> QED BY <1>3, <1>4, <1>5, <1>6, <1>7, <1>8 DEF Next

LEMMA InitReason ==
  ASSUME Init
  PROVE  ReasonInv
<1>1. ThrowInv
  BY InitThrow
<1>2. /\ \A g \in Goroutines : fpc[g] = "idle"
      /\ \A f \in Files : ctx[f] = Nobody
  BY DEF Init, FDInit
<1>3. /\ \A a \in Actors : npc[a] = "idle"
      /\ \A n \in Pollers : events[n] = {}
      /\ \A p \in PollDescs : pdFile[p] = Nobody
      /\ \A f \in Files : registered[f] = Nobody
      /\ epoll = {} /\ freeDescs \subseteq PollDescs
  BY DEF Init, PollInit
<1>4. Goroutines \subseteq Actors /\ TimerProcs \subseteq Actors
  BY DEF Actors
<1>5. WorkInv /\ RegInv
  BY <1>3, <1>4 DEF WorkInv, RegInv, FreePd
<1>6. UseInv
  BY <1>2, PollAssumption DEF UseInv, InUse, Accepted
<1>7. \A g \in Goroutines : Reason(g)
  BY <1>3, <1>4 DEF Reason, Named, Excused, Told, ToldPc, WaitPc
<1> QED BY <1>1, <1>5, <1>6, <1>7 DEF ReasonInv

LEMMA ReasonInvIsTrue ==
  ASSUME ReasonInv
  PROVE  ParkedForAReason
<1>1. SUFFICES ASSUME NEW g \in Goroutines, Parked(g)
               PROVE  LET p == npd[g]  m == mode(g)
                      IN  /\ sem[p][m] = g
                          /\ CheckErr(p, m) = "ok" \/ Unblocker(p, m)
                          /\ m \notin readable[file(g)] \/ Reported(p, m)
  BY DEF ParkedForAReason
<1>2. npc[g] = "parked" /\ (\A a \in Actors : g \notin woken[a]) /\ Reason(g)
  BY <1>1 DEF Parked, ReasonInv
<1>3. sem[npd[g]][mode(g)] = g /\ g # "ready"
  BY <1>2, PollAssumption DEF Reason, Named
<1>4. Spared(npd[g], mode(g))
  BY <1>2, <1>3 DEF Reason, Excused
<1>5. mode(g) \notin readable[file(g)] \/ Reported(npd[g], mode(g))
  BY <1>2, <1>3 DEF Reason, Told, ToldPc, WaitPc
<1> QED BY <1>3, <1>4, <1>5 DEF Spared

\* The poller misses no wakeup: a goroutine is parked on a descriptor that names it
\* (netpollblockcommit, netpoll.go:323-332), which is neither closing nor past its
\* deadline unless who made it so is about to take the goroutine out (the orders of
\* stores and loads at netpoll.go:245-253, 269-274, 362-366, 419-430), and its file is
\* not ready unless the edge is on its way (netpollready, netpoll.go:295-311).
THEOREM FDParkedForAReason == Spec => []ParkedForAReason
<1>1. Init => ReasonInv
  BY InitReason
<1>2. ReasonInv /\ [Next]_vars => ReasonInv'
  BY NextKeepsReason
<1>3. ReasonInv => ParkedForAReason
  BY ReasonInvIsTrue
<1> QED BY <1>1, <1>2, <1>3, PTL DEF Spec
=============================================================================
