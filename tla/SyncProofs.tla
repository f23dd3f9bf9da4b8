----------------------------- MODULE SyncProofs -----------------------------
(***************************************************************************)
(* Theorems about sync.RWMutex, sync.WaitGroup, sync.Once and sync.Cond,   *)
(* for any number of goroutines.  In the first two the goroutines sleep on *)
(* the semaphore of module Sema, in all its steps.                         *)
(***************************************************************************)
EXTENDS RWMutexClients, WaitGroupClients, Once, Cond, SemaLemmas, FunctionTheorems

\* A step that is slow on one machine is given time on every one.
USE SMTT(40), ZenonT(40)

-----------------------------------------------------------------------------
(* sync.RWMutex: the inductive invariant RWInv.                            *)

\* The numbers that the accounts are made of.
NumbersOK ==
  /\ Cardinality(Holding) \in Nat /\ Cardinality(Leaving) \in Nat
  /\ Cardinality(Admitted) \in Nat /\ Cardinality(Asleep) \in Nat
  /\ Cardinality(Queued) = Cardinality(Admitted) + Cardinality(Asleep)
  /\ Cardinality(Uncounting) \in Nat
  /\ \A a : Cardinality(Adding(a)) \in Nat
  /\ Cardinality(Blocked) \in Nat /\ Cardinality(Woken) \in Nat
  /\ Cardinality(Holding) + Cardinality(Queued) <= Cardinality(Goroutines)
  /\ Cardinality(Uncounting) <= Cardinality(Goroutines)
  /\ 2 * Cardinality(Goroutines) < MaxReaders
  /\ Cardinality(Goroutines) \in Nat

LEMMA RWNumbers == NumbersOK
<1>1. \A S \in SUBSET Goroutines : IsFiniteSet(S) /\ Cardinality(S) \in Nat
                                     /\ Cardinality(S) <= Cardinality(Goroutines)
  BY SemaAssumption, FS_Subset, FS_CardinalityType
<1>2. /\ Holding \subseteq Goroutines /\ Leaving \subseteq Goroutines /\ Admitted \subseteq Goroutines
      /\ Asleep \subseteq Goroutines /\ Queued \subseteq Goroutines /\ Uncounting \subseteq Goroutines
      /\ Blocked \subseteq Goroutines /\ Woken \subseteq Goroutines
      /\ \A a : Adding(a) \subseteq Goroutines
  BY DEF Holding, Leaving, Admitted, Asleep, Queued, Uncounting, Adding, Blocked, Woken
<1>3. ASSUME NEW S \in SUBSET Goroutines, NEW T \in SUBSET Goroutines, S \cap T = {}
      PROVE  Cardinality(S \cup T) = Cardinality(S) + Cardinality(T)
  <2>1. Cardinality(S \cap T) = 0
    BY <1>3, FS_EmptySet
  <2>2. Cardinality(S) \in Nat /\ Cardinality(T) \in Nat /\ IsFiniteSet(S) /\ IsFiniteSet(T)
    BY <1>1
  <2>3. Cardinality(S \cup T) = Cardinality(S) + Cardinality(T) - Cardinality(S \cap T)
    BY <2>2, FS_Union
  <2> QED BY <2>1, <2>2, <2>3
<1>4. Cardinality(Queued) = Cardinality(Admitted) + Cardinality(Asleep)
  <2>1. Queued = Admitted \cup Asleep /\ Admitted \cap Asleep = {}
    BY DEF Queued, Admitted, Asleep
  <2> QED BY <1>2, <1>3, <2>1
<1>5. Cardinality(Holding) + Cardinality(Queued) <= Cardinality(Goroutines)
  <2>1. Holding \cap Queued = {} /\ Holding \cup Queued \subseteq Goroutines
    BY DEF Holding, Queued, Reads, RLockPc
  <2>2. Cardinality(Holding \cup Queued) = Cardinality(Holding) + Cardinality(Queued)
    BY <1>2, <1>3, <2>1
  <2> QED BY <1>1, <2>1, <2>2
<1>6. Cardinality(Goroutines) \in Nat /\ MaxReaders \in Nat
  BY RWAssumption, SemaAssumption, FS_CardinalityType
<1> QED BY <1>1, <1>2, <1>4, <1>5, <1>6, RWAssumption DEF NumbersOK

\* What the numbers become in a step that touches only what g does.
LEMMA RWFrame ==
  ASSUME NEW g \in Goroutines,
         \A h \in Goroutines : h # g =>
           /\ rpc'[h] = rpc[h] /\ saddr'[h] = saddr[h]
           /\ spc'[h] = "idle" <=> spc[h] = "idle"
           /\ spc'[h] = "xadd" <=> spc[h] = "xadd"
  PROVE  /\ Cardinality(Leaving)' = Cardinality(Leaving)
                + (IF rpc'[g] \in {"runlock", "depart"} THEN 1 ELSE 0)
                - (IF rpc[g] \in {"runlock", "depart"} THEN 1 ELSE 0)
         /\ Cardinality(Admitted)' = Cardinality(Admitted)
                + (IF rpc'[g] = "rwait" /\ spc'[g] = "idle" THEN 1 ELSE 0)
                - (IF rpc[g] = "rwait" /\ spc[g] = "idle" THEN 1 ELSE 0)
         /\ Cardinality(Asleep)' = Cardinality(Asleep)
                + (IF rpc'[g] = "rwait" /\ spc'[g] # "idle" THEN 1 ELSE 0)
                - (IF rpc[g] = "rwait" /\ spc[g] # "idle" THEN 1 ELSE 0)
         /\ Cardinality(Queued)' = Cardinality(Queued)
                + (IF rpc'[g] = "rwait" THEN 1 ELSE 0) - (IF rpc[g] = "rwait" THEN 1 ELSE 0)
         /\ Cardinality(Uncounting)' = Cardinality(Uncounting)
                + (IF rpc'[g] = "runlock" THEN 1 ELSE 0)
                - (IF rpc[g] = "runlock" THEN 1 ELSE 0)
         /\ \A a : Cardinality(Adding(a))' = Cardinality(Adding(a))
                + (IF spc'[g] = "xadd" /\ saddr'[g] = a THEN 1 ELSE 0)
                - (IF spc[g] = "xadd" /\ saddr[g] = a THEN 1 ELSE 0)
         /\ Cardinality(Blocked)' = Cardinality(Blocked)
                + (IF rpc'[g] = "wwait" THEN 1 ELSE 0)
                - (IF rpc[g] = "wwait" THEN 1 ELSE 0)
         /\ Cardinality(Woken)' = Cardinality(Woken)
                + (IF rpc'[g] = "wwait" /\ spc'[g] = "idle" THEN 1 ELSE 0)
                - (IF rpc[g] = "wwait" /\ spc[g] = "idle" THEN 1 ELSE 0)
<1> DEFINE Fits(S, T) ==
             Cardinality(T) = Cardinality(S) + (IF g \in T THEN 1 ELSE 0) - (IF g \in S THEN 1 ELSE 0)
<1>1. \A S, T \in SUBSET Goroutines : (\A h \in Goroutines : h # g => (h \in T <=> h \in S)) => Fits(S, T)
  BY SemaAssumption, OneMoves
<1> HIDE DEF Fits
<1>2. Fits(Leaving, Leaving')
  BY <1>1 DEF Leaving
<1>3. Fits(Admitted, Admitted')
  BY <1>1 DEF Admitted
<1>4. Fits(Asleep, Asleep')
  BY <1>1 DEF Asleep
<1>5. Fits(Uncounting, Uncounting') /\ Fits(Queued, Queued')
  BY <1>1 DEF Uncounting, Queued
<1>6. \A a : Fits(Adding(a), Adding(a)')
  BY <1>1 DEF Adding
<1>7. Fits(Blocked, Blocked')
  BY <1>1 DEF Blocked
<1>8. Fits(Woken, Woken')
  BY <1>1 DEF Woken
<1>9. /\ g \in Leaving <=> rpc[g] \in {"runlock", "depart"}
      /\ g \in Admitted <=> rpc[g] = "rwait" /\ spc[g] = "idle"
      /\ g \in Asleep <=> rpc[g] = "rwait" /\ spc[g] # "idle"
      /\ g \in Uncounting <=> rpc[g] = "runlock"
      /\ g \in Queued <=> rpc[g] = "rwait"
      /\ \A a : g \in Adding(a) <=> spc[g] = "xadd" /\ saddr[g] = a
      /\ g \in Blocked <=> rpc[g] = "wwait"
      /\ g \in Woken <=> rpc[g] = "wwait" /\ spc[g] = "idle"
  BY DEF Leaving, Admitted, Asleep, Queued, Uncounting, Adding, Blocked, Woken
<1>10.
       /\ g \in Leaving' <=> rpc'[g] \in {"runlock", "depart"}
       /\ g \in Admitted' <=> rpc'[g] = "rwait" /\ spc'[g] = "idle"
       /\ g \in Asleep' <=> rpc'[g] = "rwait" /\ spc'[g] # "idle"
       /\ g \in Uncounting' <=> rpc'[g] = "runlock"
       /\ g \in Queued' <=> rpc'[g] = "rwait"
       /\ \A a : g \in Adding(a)' <=> spc'[g] = "xadd" /\ saddr'[g] = a
       /\ g \in Blocked' <=> rpc'[g] = "wwait"
       /\ g \in Woken' <=> rpc'[g] = "wwait" /\ spc'[g] = "idle"
  BY DEF Leaving, Admitted, Asleep, Queued, Uncounting, Adding, Blocked, Woken
<1> USE DEF Fits
<1> QED BY <1>2, <1>3, <1>4, <1>5, <1>6, <1>7, <1>8, <1>9, <1>10

LEMMA HoldingFrame ==
  ASSUME NEW g \in Goroutines, \A h \in Goroutines : h # g => (Reads(h)' <=> Reads(h))
  PROVE  Cardinality(Holding)' = Cardinality(Holding)
           + (IF Reads(g)' THEN 1 ELSE 0) - (IF Reads(g) THEN 1 ELSE 0)
<1>1. Holding \subseteq Goroutines /\ Holding' \subseteq Goroutines
  BY DEF Holding
<1>2. \A h \in Goroutines : h # g => (h \in Holding' <=> h \in Holding)
  BY DEF Holding
<1>3. (g \in Holding <=> Reads(g)) /\ (g \in Holding' <=> Reads(g)')
  BY DEF Holding
<1>4. Cardinality(Holding') = Cardinality(Holding)
           + (IF g \in Holding' THEN 1 ELSE 0) - (IF g \in Holding THEN 1 ELSE 0)
  BY <1>1, <1>2, SemaAssumption, OneMoves
<1> QED BY <1>3, <1>4

LEMMA RWNumbersNext == NumbersOK'
BY RWNumbers, PTL

\* The sign of readerCount tells whether a writer is announced, and a reader that is
\* about to uncount itself does not find the values that RUnlock throws at.
LEMMA CountSign ==
  ASSUME RWInv
  PROVE  /\ readerCount \in Int
         /\ readerCount < MaxReaders
         /\ IF \E g \in Goroutines : Announced(g)
              THEN readerCount < 0 /\ (Uncounting # {} => readerCount > -MaxReaders)
              ELSE readerCount >= 0 /\ (Uncounting # {} => readerCount > 0)
<1>1. Uncounting # {} => Cardinality(Uncounting) # 0
  BY SemaAssumption, FS_Subset, FS_EmptySet DEF Uncounting
<1>2. MaxReaders \in Nat
  BY RWAssumption
<1> QED BY <1>1, <1>2, RWNumbers DEF RWInv, CountInv, NumbersOK

LEMMA CountBounds ==
  ASSUME CountInv'
  PROVE  readerCount' \in -MaxReaders .. MaxReaders
<1>1. MaxReaders \in Nat
  BY RWAssumption
<1> QED BY <1>1, RWNumbersNext DEF CountInv, NumbersOK

\* A step that moves no writer past rw.w and on balance changes no account.
LEMMA ReaderKeeps ==
  ASSUME RWInv,
         \A h \in Goroutines : \/ rpc'[h] = rpc[h]
                               \/ {rpc[h], rpc'[h]} \subseteq {"idle", "wlock"} \cup RLockPc \cup RUnlockPc,
         \A h \in Goroutines : Writes(h)' <=> Writes(h),
         UNCHANGED <<wHeld, r>>,
         readerCount' = readerCount + (Cardinality(Holding)' - Cardinality(Holding))
                                    + (Cardinality(Queued)' - Cardinality(Queued))
                                    + (Cardinality(Uncounting)' - Cardinality(Uncounting)),
         \A h \in Goroutines :
           rpc'[h] = "depart" => rpc[h] = "depart" \/ \E k \in Goroutines : rpc[k] \in {"await", "wwait"},
         readerWait' \in Int, readerWait' <= readerWait,
         readerWait' = readerWait \/ \E h \in Goroutines : rpc[h] \in {"await", "wwait"},
         IF \E h \in Goroutines : Announced(h)
           THEN ReadersIn' - readerWait' = ReadersIn - readerWait
           ELSE Cardinality(Asleep)' - Permits' = Cardinality(Asleep) - Permits,
         ReadersIn' \in Int, Permits' \in Int,
         WriterOwed'
  PROVE  WriterInv' /\ CountInv' /\ ReadersAccounted'
<1> USE DEF RWInv, RLockPc, RUnlockPc
<1>1. \A h \in Goroutines :
        /\ rpc'[h] \in {"await", "wwait", "unlock", "announce", "wake", "throw"}
             <=> rpc[h] \in {"await", "wwait", "unlock", "announce", "wake", "throw"}
        /\ rpc[h] \in {"await", "wwait", "unlock", "announce", "wake", "throw"} => rpc'[h] = rpc[h]
  OBVIOUS
<1>2. \A h \in Goroutines : (Announced(h)' <=> Announced(h)) /\ (OwnsW(h)' <=> OwnsW(h))
  BY <1>1 DEF Announced, OwnsW
<1>3. WriterInv'
  BY <1>2 DEF WriterInv
<1>4. CountInv'
  <2>1. readerWait \in Int /\ readerCount \in Int
    BY CountSign DEF RWClientsTypeOK, RWTypeOK
  <2>2. \A h \in Goroutines :
          /\ rpc'[h] = "depart" => \E k \in Goroutines : rpc'[k] \in {"await", "wwait"}
          /\ rpc'[h] = "await" => readerWait' <= 0
    BY <1>1, <2>1 DEF CountInv
  <2>3. (\E h \in Goroutines : Announced(h)') <=> (\E h \in Goroutines : Announced(h))
    BY <1>2
  <2>4. MaxReaders \in Nat
    BY RWAssumption
  <2> QED BY <2>1, <2>2, <2>3, <2>4, RWNumbers, RWNumbersNext DEF CountInv, NumbersOK
<1>5. ReadersAccounted'
  <2>1. readerWait \in Int /\ r' = r /\ \A h \in Goroutines : r[h] \in Int
    BY DEF RWClientsTypeOK, RWTypeOK
  <2>2. ReadersIn \in Int /\ Permits \in Int /\ Cardinality(Asleep) \in Nat /\ Cardinality(Asleep)' \in Nat
    <3>1. sval[ReaderSem] \in Nat
      BY RWAssumption DEF SemaTypeOK
    <3> QED BY <3>1, RWNumbers, RWNumbersNext DEF NumbersOK, ReadersIn, Permits
  <2>3. ASSUME NEW h \in Goroutines, rpc'[h] \in {"await", "wwait"}
        PROVE  ReadersIn' = readerWait' + r'[h]
    <3>1. ReadersIn = readerWait + r[h] /\ Announced(h)
      BY <1>1, <2>3 DEF ReadersAccounted, Announced
    <3> QED BY <2>1, <2>2, <3>1
  <2>4. ASSUME NEW h \in Goroutines, Writes(h)' \/ rpc'[h] = "unlock"
        PROVE  ReadersIn' = 0 /\ readerWait' = 0
    <3>1. Writes(h) \/ rpc[h] = "unlock"
      BY <1>1, <2>4
    <3>2. ReadersIn = 0 /\ readerWait = 0 /\ Announced(h)
      BY <3>1 DEF ReadersAccounted, Announced
    <3>3. ~\E k \in Goroutines : rpc[k] \in {"await", "wwait"}
      <4>1. rpc[h] \notin {"await", "wwait"}
        BY <3>1 DEF Writes, WLockPc
      <4> QED BY <3>2, <4>1 DEF WriterInv, OwnsW, Announced
    <3>4. readerWait' = readerWait
      BY <3>3
    <3>5. ReadersIn' - readerWait' = ReadersIn - readerWait
      BY <3>2
    <3> QED BY <2>1, <2>2, <3>2, <3>4, <3>5
  <2>5. ASSUME ~\E h \in Goroutines : Announced(h),
               Cardinality(Asleep) = Permits + 0, readerWait = 0
        PROVE  Cardinality(Asleep)' = Permits' /\ readerWait' = 0
    BY <2>1, <2>2, <2>5 DEF Announced
  <2>6. ASSUME NEW h \in Goroutines, rpc'[h] = "wake"
        PROVE  Cardinality(Asleep)' = Permits' + r'[h] /\ readerWait' = 0
    <3>1. rpc[h] = "wake"
      BY <1>1, <2>6
    <3>2. Cardinality(Asleep) = Permits + r[h] /\ readerWait = 0
      BY <3>1 DEF ReadersAccounted
    <3>3. ~\E k \in Goroutines : Announced(k)
      <4>1. ~Announced(h)
        BY <3>1 DEF Announced, Writes, RWCallInv, WUnlockPc
      <4> QED BY <3>1, <4>1 DEF WriterInv, OwnsW
    <3>4. ~\E k \in Goroutines : rpc[k] \in {"await", "wwait"}
      BY <3>3 DEF Announced
    <3> QED BY <2>1, <2>2, <3>2, <3>3, <3>4
  <2>7. (\A h \in Goroutines : ~Announced(h)' /\ rpc'[h] # "wake")
          => Cardinality(Asleep)' = Permits' /\ readerWait' = 0
    <3> SUFFICES ASSUME \A h \in Goroutines : ~Announced(h)' /\ rpc'[h] # "wake"
                 PROVE  Cardinality(Asleep)' = Permits' /\ readerWait' = 0
      OBVIOUS
    <3>1. \A h \in Goroutines : ~Announced(h) /\ rpc[h] # "wake"
      BY <1>1, <1>2
    <3>2. Cardinality(Asleep) = Permits /\ readerWait = 0
      BY <3>1 DEF ReadersAccounted
    <3> QED BY <2>2, <2>5, <3>1, <3>2
  <2>8. \A h \in Goroutines : rpc'[h] # "throw"
    BY <1>1 DEF ReadersAccounted
  <2> QED BY <2>3, <2>4, <2>6, <2>7, <2>8 DEF ReadersAccounted
<1> QED BY <1>3, <1>4, <1>5

-----------------------------------------------------------------------------
(* The steps of readers.                                                   *)

LEMMA SemaNumbers ==
  ASSUME SemaTypeOK
  PROVE  sval[ReaderSem] \in Nat /\ sval[WriterSem] \in Nat
BY RWAssumption DEF SemaTypeOK

\* The accounts are numbers.
LEMMA AccountTypes ==
  ASSUME SemaTypeOK, SemaTypeOK'
  PROVE  /\ ReadersIn \in Nat /\ Permits \in Nat
         /\ ReadersIn' \in Nat /\ Permits' \in Nat
<1>1. /\ sval[ReaderSem] \in Nat /\ sval'[ReaderSem] \in Nat
  BY RWAssumption DEF SemaTypeOK
<1> QED BY <1>1, RWNumbers, RWNumbersNext DEF NumbersOK, ReadersIn, Permits

\* Outside rw's calls of the semaphore no call of it is in progress.
LEMMA OutsideRWSema ==
  ASSUME RWInv, NEW g \in Goroutines,
         rpc[g] \notin {"rwait", "wwait", "rrelease", "wake"}
  PROVE  spc[g] = "idle"
BY DEF RWInv, SemaTypeOK, RWCallInv

LEMMA ReadKeepsInv ==
  ASSUME RWInv, NEW g \in Goroutines, Read(g)
  PROVE  RWInv'
<1> USE DEF RWInv
<1>1. /\ rpc[g] = "idle" /\ asked[g] = "none" /\ rpc'[g] = "rlock" /\ asked'[g] = "read"
      /\ \A h \in Goroutines : h # g => rpc'[h] = rpc[h] /\ asked'[h] = asked[h]
      /\ UNCHANGED <<semaVars, readerCount, readerWait, wHeld, r>>
  BY DEF Read, CallRLock, CallRW, RWGoto, RWClientsTypeOK, RWTypeOK
<1> HIDE DEF RWInv
<1>2. UNCHANGED <<sval, spc, saddr, sflag, ticket>>
  BY <1>1 DEF semaVars
<1>3. SemaTypeOK' /\ SemaInv'
  BY <1>1, SemaUnchanged DEF RWInv
<1>4. RWClientsTypeOK'
  BY <1>1 DEF RWInv, RWClientsTypeOK, RWTypeOK, Read, CallRLock, CallRW, RWGoto, RLockPc
<1>5. RWCallInv'
  BY <1>1, <1>2, OutsideRWSema DEF RWInv, RWCallInv, RLockPc, WLockPc, WUnlockPc, AcquirePc, ReleasePc
<1>6. \A h \in Goroutines : (Reads(h)' <=> Reads(h)) /\ (Writes(h)' <=> Writes(h))
  BY <1>1 DEF Reads, Writes, RLockPc
<1>7. Cardinality(Holding)' = Cardinality(Holding)
  BY <1>6 DEF Holding
<1>8. /\ Cardinality(Leaving)' = Cardinality(Leaving)
      /\ Cardinality(Admitted)' = Cardinality(Admitted)
      /\ Cardinality(Asleep)' = Cardinality(Asleep)
      /\ Cardinality(Queued)' = Cardinality(Queued)
      /\ Cardinality(Uncounting)' = Cardinality(Uncounting)
      /\ \A a : Cardinality(Adding(a))' = Cardinality(Adding(a))
      /\ Cardinality(Blocked)' = Cardinality(Blocked)
      /\ Cardinality(Woken)' = Cardinality(Woken)
  BY <1>1, <1>2, RWFrame, RWNumbers DEF NumbersOK
<1>9. ReadersIn' = ReadersIn /\ Permits' = Permits
  BY <1>2, <1>7, <1>8 DEF ReadersIn, Permits
<1>10. WriterOwed'
  BY <1>1, <1>2, <1>8 DEF WriterOwed, RWInv, ReadersAccounted
<1>11. ReadersIn \in Int /\ Permits \in Int /\ readerWait \in Int /\ readerCount \in Int
  BY AccountTypes, <1>3, CountSign DEF RWInv, RWClientsTypeOK, RWTypeOK
<1>12. WriterInv' /\ CountInv' /\ ReadersAccounted'
  <2>1. readerCount' = readerCount + (Cardinality(Holding)' - Cardinality(Holding))
                                    + (Cardinality(Queued)' - Cardinality(Queued))
                                    + (Cardinality(Uncounting)' - Cardinality(Uncounting))
    BY <1>1, <1>7, <1>8, <1>11, RWNumbers DEF NumbersOK
  <2> QED BY <1>1, <1>6, <1>8, <1>9, <1>10, <1>11, <2>1, ReaderKeeps DEF RLockPc
<1> QED BY <1>3, <1>4, <1>5, <1>12 DEF RWInv

LEMMA ReadEndKeepsInv ==
  ASSUME RWInv, NEW g \in Goroutines, NEW k \in Goroutines, ReadEnd(g, k)
  PROVE  RWInv'
<1>1. /\ rpc[g] = "idle" /\ rpc'[g] = "runlock" /\ Reads(k) /\ asked'[k] = "none"
      /\ \A h \in Goroutines : h # g => rpc'[h] = rpc[h]
      /\ \A h \in Goroutines : h # k => asked'[h] = asked[h]
      /\ UNCHANGED <<semaVars, readerCount, readerWait, wHeld, r>>
  BY DEF ReadEnd, CallRUnlock, CallRW, RWGoto, RWInv, RWClientsTypeOK, RWTypeOK
<1>2. UNCHANGED <<sval, spc, saddr, sflag, ticket>>
  BY <1>1 DEF semaVars
<1>3. SemaTypeOK' /\ SemaInv'
  BY <1>1, SemaUnchanged DEF RWInv
<1>4. RWClientsTypeOK'
  BY <1>1 DEF RWInv, RWClientsTypeOK, RWTypeOK, ReadEnd, CallRUnlock, CallRW, RWGoto, RUnlockPc
<1>5. RWCallInv'
  <2>1. rpc[k] \notin RLockPc /\ asked[k] = "read"
    BY <1>1 DEF Reads
  <2>2. rpc'[k] \notin RLockPc \cup WLockPc
    BY <1>1, <2>1 DEF RWInv, RWCallInv, RLockPc, WLockPc
  <2> QED BY <1>1, <1>2, <2>2, OutsideRWSema
          DEF RWInv, RWCallInv, RLockPc, WLockPc, WUnlockPc, AcquirePc, ReleasePc
<1>6. \A h \in Goroutines : (h # k => (Reads(h)' <=> Reads(h))) /\ (Writes(h)' <=> Writes(h))
  BY <1>1 DEF Reads, Writes, RLockPc, WLockPc
<1>7. Cardinality(Holding)' = Cardinality(Holding) - 1
  <2>1. Reads(k) /\ ~Reads(k)'
    BY <1>1 DEF Reads
  <2> QED BY <1>6, <2>1, HoldingFrame, RWNumbers DEF NumbersOK
<1>8. /\ Cardinality(Leaving)' = Cardinality(Leaving) + 1
      /\ Cardinality(Admitted)' = Cardinality(Admitted)
      /\ Cardinality(Asleep)' = Cardinality(Asleep)
      /\ Cardinality(Queued)' = Cardinality(Queued)
      /\ Cardinality(Uncounting)' = Cardinality(Uncounting) + 1
      /\ \A a : Cardinality(Adding(a))' = Cardinality(Adding(a))
      /\ Cardinality(Blocked)' = Cardinality(Blocked)
      /\ Cardinality(Woken)' = Cardinality(Woken)
  BY <1>1, <1>2, RWFrame, RWNumbers DEF NumbersOK
<1>9. ReadersIn' = ReadersIn /\ Permits' = Permits
  BY <1>2, <1>7, <1>8, <1>3, SemaNumbers, RWNumbers DEF ReadersIn, Permits, NumbersOK, RWInv
<1>10. WriterOwed'
  BY <1>1, <1>2, <1>8 DEF WriterOwed, RWInv, ReadersAccounted
<1>11. ReadersIn \in Int /\ Permits \in Int /\ readerWait \in Int /\ readerCount \in Int
  BY AccountTypes, <1>3, CountSign DEF RWInv, RWClientsTypeOK, RWTypeOK
<1>12. WriterInv' /\ CountInv' /\ ReadersAccounted'
  <2>1. readerCount' = readerCount + (Cardinality(Holding)' - Cardinality(Holding))
                                    + (Cardinality(Queued)' - Cardinality(Queued))
                                    + (Cardinality(Uncounting)' - Cardinality(Uncounting))
    BY <1>1, <1>7, <1>8, <1>11, RWNumbers DEF NumbersOK
  <2> QED BY <1>1, <1>6, <1>8, <1>9, <1>10, <1>11, <2>1, ReaderKeeps DEF RUnlockPc
<1> QED BY <1>3, <1>4, <1>5, <1>12 DEF RWInv

LEMMA RLockAddKeepsInv ==
  ASSUME RWInv, NEW g \in Goroutines, RLockAdd(g), UNCHANGED <<asked, late>>
  PROVE  RWInv'
<1> DEFINE announced == \E h \in Goroutines : Announced(h)
<1>1. /\ rpc[g] = "rlock" /\ rpc'[g] \in {"rwait", "idle"} /\ spc[g] = "idle" /\ asked[g] = "read"
      /\ \A h \in Goroutines : h # g => rpc'[h] = rpc[h]
      /\ readerCount' = readerCount + 1
      /\ UNCHANGED <<readerWait, wHeld, r, asked, late>>
  BY OutsideRWSema DEF RLockAdd, RWGoto, RWInv, RWClientsTypeOK, RWTypeOK, RWCallInv, RLockPc
<1>2. /\ UNCHANGED <<sval, ticket>>
      /\ \A h \in Goroutines : h # g => spc'[h] = spc[h] /\ saddr'[h] = saddr[h] /\ sflag'[h] = sflag[h]
      /\ rpc'[g] = "rwait" => spc'[g] = "easy" /\ saddr'[g] = ReaderSem
      /\ rpc'[g] = "idle" => spc'[g] = "idle"
  BY <1>1 DEF RLockAdd, CallSemacquire, Call, RWGoto, RWInv, SemaTypeOK, semaVars, RWClientsTypeOK, RWTypeOK
<1>3. SemaTypeOK' /\ SemaInv'
  <2>1. CASE UNCHANGED semaVars
    BY <2>1, SemaUnchanged DEF RWInv
  <2>2. CASE CallSemacquire(g, ReaderSem, FALSE)
    BY <2>2, CallKeepsInv, RWAssumption DEF CallSemacquire, RWInv
  <2> QED BY <2>1, <2>2 DEF RLockAdd
<1>4. Writes(g)' <=> Writes(g)
  BY <1>1 DEF Writes
<1>5. \A h \in Goroutines : h # g => (Reads(h)' <=> Reads(h)) /\ (Writes(h)' <=> Writes(h))
  BY <1>1 DEF Reads, Writes
<1>6. Cardinality(Holding)' = Cardinality(Holding) + (IF rpc'[g] = "idle" THEN 1 ELSE 0)
  <2>1. ~Reads(g) /\ (Reads(g)' <=> rpc'[g] = "idle")
    BY <1>1 DEF Reads, RLockPc
  <2> QED BY <1>5, <2>1, HoldingFrame, RWNumbers DEF NumbersOK
<1>7. /\ Cardinality(Leaving)' = Cardinality(Leaving)
      /\ Cardinality(Admitted)' = Cardinality(Admitted)
      /\ Cardinality(Asleep)' = Cardinality(Asleep) + (IF rpc'[g] = "idle" THEN 0 ELSE 1)
      /\ Cardinality(Queued)' = Cardinality(Queued) + (IF rpc'[g] = "idle" THEN 0 ELSE 1)
      /\ Cardinality(Uncounting)' = Cardinality(Uncounting)
      /\ \A a : Cardinality(Adding(a))' = Cardinality(Adding(a))
      /\ Cardinality(Blocked)' = Cardinality(Blocked)
      /\ Cardinality(Woken)' = Cardinality(Woken)
  <2>1. spc[g] # "xadd" /\ spc'[g] # "xadd"
    BY <1>1, <1>2
  <2>2. CASE rpc'[g] = "idle"
    BY <1>1, <1>2, <2>1, <2>2, RWFrame, RWNumbers DEF NumbersOK
  <2>3. CASE rpc'[g] = "rwait"
    BY <1>1, <1>2, <2>1, <2>3, RWFrame, RWNumbers DEF NumbersOK
  <2> QED BY <1>1, <2>2, <2>3
<1>8. ReadersIn \in Int /\ Permits \in Int /\ readerWait \in Int /\ readerCount \in Int
        /\ ReadersIn' \in Int /\ Permits' \in Int
  BY AccountTypes, <1>3, CountSign DEF RWInv, RWClientsTypeOK, RWTypeOK
<1>9. readerCount' = readerCount + (Cardinality(Holding)' - Cardinality(Holding))
                                    + (Cardinality(Queued)' - Cardinality(Queued))
                                    + (Cardinality(Uncounting)' - Cardinality(Uncounting))
  BY <1>1, <1>6, <1>7, <1>8, RWNumbers DEF NumbersOK
\* The sum tells whether a writer is announced.
<1>10. announced <=> rpc'[g] = "rwait"
  <2>1. announced <=> readerCount' < 0
    <3>1. MaxReaders \in Nat
      BY RWAssumption
    <3>2. CASE announced
      BY <1>9, <3>1, <3>2, RWNumbers, RWNumbersNext DEF RWInv, CountInv, NumbersOK
    <3>3. CASE ~announced
      BY <1>1, <1>8, <3>3, CountSign
    <3> QED BY <3>2, <3>3
  <2>2. rpc'[g] = IF readerCount' < 0 THEN "rwait" ELSE "idle"
    BY DEF RLockAdd, RWGoto, RWInv, RWClientsTypeOK, RWTypeOK
  <2> QED BY <2>1, <2>2
<1>11. IF announced THEN ReadersIn' - readerWait' = ReadersIn - readerWait
       ELSE Cardinality(Asleep)' - Permits' = Cardinality(Asleep) - Permits
  <2>1. sval'[ReaderSem] = sval[ReaderSem] /\ sval[ReaderSem] \in Nat
    BY <1>2, SemaNumbers DEF RWInv
  <2> QED BY <1>1, <1>6, <1>7, <1>8, <1>10, <2>1, RWNumbers DEF NumbersOK, ReadersIn, Permits
<1>12. WriterOwed'
  BY <1>1, <1>2, <1>7 DEF WriterOwed, RWInv, ReadersAccounted
<1>13. WriterInv' /\ CountInv' /\ ReadersAccounted'
  <2>1. \A h \in Goroutines : Writes(h)' <=> Writes(h)
    BY <1>4, <1>5
  <2>2. /\ rpc[g] \in {"idle"} \cup RLockPc \cup RUnlockPc
        /\ rpc'[g] \in {"idle"} \cup RLockPc \cup RUnlockPc
        /\ rpc'[g] # "depart"
    BY <1>1 DEF RLockPc
  <2>3. readerWait' \in Int /\ readerWait' <= readerWait /\ readerWait' = readerWait
    BY <1>1, <1>8
  <2> QED BY <1>1, <1>8, <1>9, <1>11, <1>12, <2>1, <2>2, <2>3, ReaderKeeps
<1>14. RWClientsTypeOK'
  <2>1. readerCount' \in -MaxReaders .. MaxReaders
    BY <1>13, CountBounds
  <2>2. rpc' \in [Goroutines -> {"idle", "throw"} \cup RLockPc \cup RUnlockPc \cup WLockPc \cup WUnlockPc]
    BY DEF RWInv, RWClientsTypeOK, RWTypeOK, RLockAdd, RWGoto, RLockPc
  <2> QED BY <1>1, <2>1, <2>2 DEF RWInv, RWClientsTypeOK, RWTypeOK
<1>15. RWCallInv'
  BY <1>1, <1>2 DEF RWInv, RWCallInv, RLockPc, WLockPc, WUnlockPc, AcquirePc, ReleasePc
<1> QED BY <1>3, <1>13, <1>14, <1>15 DEF RWInv

\* The steps of readers that leave the semaphore alone and no writer's counter.
LEMMA ReaderReturnKeepsInv ==
  ASSUME RWInv, NEW g \in Goroutines, UNCHANGED <<asked, late>>,
         RLockReturn(g) \/ RUnlockAdd(g) \/ RUnlockReturn(g)
  PROVE  RWInv'
<1> DEFINE announced == \E h \in Goroutines : Announced(h)
<1>1. /\ rpc[g] \in {"rwait", "runlock", "rrelease"} /\ spc[g] = "idle"
      /\ rpc[g] \in {"rwait", "rrelease"} => rpc'[g] = "idle" /\ readerCount' = readerCount
      /\ rpc[g] = "runlock" => readerCount' = readerCount - 1
      /\ rpc[g] = "rwait" => asked[g] = "read"
      /\ \A h \in Goroutines : h # g => rpc'[h] = rpc[h]
      /\ UNCHANGED <<semaVars, readerWait, wHeld, r, asked, late>>
  BY OutsideRWSema DEF RLockReturn, RUnlockAdd, RUnlockReturn, RWGoto, RWInv, RWClientsTypeOK, RWTypeOK,
                       RWCallInv, RLockPc
<1>2. UNCHANGED <<sval, spc, saddr, sflag, ticket>>
  BY <1>1 DEF semaVars
<1>3. SemaTypeOK' /\ SemaInv'
  BY <1>1, SemaUnchanged DEF RWInv
\* A reader that finds a writer announced finds it waiting, and nobody throws.
<1>4. rpc[g] = "runlock" => IF announced
                              THEN /\ rpc'[g] = "depart"
                                   /\ \E h \in Goroutines : rpc[h] \in {"await", "wwait"}
                              ELSE rpc'[g] = "idle"
  <2> SUFFICES ASSUME rpc[g] = "runlock"
               PROVE  IF announced
                        THEN /\ rpc'[g] = "depart"
                             /\ \E h \in Goroutines : rpc[h] \in {"await", "wwait"}
                        ELSE rpc'[g] = "idle"
    OBVIOUS
  <2>1. /\ readerCount' = readerCount - 1
        /\ rpc'[g] = IF readerCount' >= 0 THEN "idle"
                     ELSE IF readerCount \in {0, -MaxReaders} THEN "throw" ELSE "depart"
    BY DEF RLockReturn, RUnlockAdd, RUnlockReturn, RWGoto, RWInv, RWClientsTypeOK, RWTypeOK
  <2>2. Uncounting # {} /\ MaxReaders \in Nat
    BY RWAssumption DEF Uncounting
  <2>3. CASE announced
    <3>1. rpc'[g] = "depart"
      BY <2>1, <2>2, <2>3, CountSign
    <3>2. PICK h \in Goroutines : Announced(h)
      BY <2>3
    <3>3. ReadersIn # 0
      <4>1. g \in Leaving /\ Leaving \subseteq Goroutines
        BY DEF Leaving
      <4>2. Cardinality(Leaving) > 0
        BY <4>1, SemaAssumption, OneMoves
      <4>3. sval[ReaderSem] \in Nat
        BY SemaNumbers DEF RWInv
      <4> QED BY <4>2, <4>3, RWNumbers DEF NumbersOK, ReadersIn
    <3>4. rpc[h] \in {"await", "wwait"}
      BY <3>2, <3>3 DEF Announced, RWInv, ReadersAccounted
    <3> QED BY <2>3, <3>1, <3>4
  <2>4. CASE ~announced
    BY <2>1, <2>2, <2>4, CountSign
  <2> QED BY <2>3, <2>4
<1>5. rpc'[g] \in {"idle", "depart"}
  BY <1>1, <1>4
<1>6. \A h \in Goroutines : Writes(h)' <=> Writes(h)
  <2>1. asked[g] = "write" => rpc[g] # "rwait"
    BY <1>1
  <2> QED BY <1>1, <1>5, <2>1 DEF Writes, WLockPc
<1>7. Cardinality(Holding)' = Cardinality(Holding) + (IF rpc[g] = "rwait" THEN 1 ELSE 0)
  <2>1. \A h \in Goroutines : h # g => (Reads(h)' <=> Reads(h))
    BY <1>1 DEF Reads
  <2>2. CASE rpc[g] = "rwait"
    <3>1. ~Reads(g) /\ Reads(g)'
      BY <1>1, <2>2 DEF Reads, RLockPc
    <3> QED BY <2>1, <2>2, <3>1, HoldingFrame, RWNumbers DEF NumbersOK
  <2>3. CASE rpc[g] # "rwait"
    <3>1. Reads(g)' <=> Reads(g)
      BY <1>1, <1>5, <2>3 DEF Reads, RLockPc
    <3>2. Holding' = Holding
      BY <2>1, <3>1 DEF Holding
    <3> QED BY <2>3, <3>2, RWNumbers DEF NumbersOK
  <2> QED BY <2>2, <2>3
<1>8. /\ Cardinality(Leaving)' = Cardinality(Leaving)
               - (IF rpc[g] = "runlock" /\ ~announced THEN 1 ELSE 0)
      /\ Cardinality(Admitted)' = Cardinality(Admitted) - (IF rpc[g] = "rwait" THEN 1 ELSE 0)
      /\ Cardinality(Asleep)' = Cardinality(Asleep)
      /\ Cardinality(Queued)' = Cardinality(Queued) - (IF rpc[g] = "rwait" THEN 1 ELSE 0)
      /\ Cardinality(Uncounting)' = Cardinality(Uncounting) - (IF rpc[g] = "runlock" THEN 1 ELSE 0)
      /\ \A a : Cardinality(Adding(a))' = Cardinality(Adding(a))
      /\ Cardinality(Blocked)' = Cardinality(Blocked)
      /\ Cardinality(Woken)' = Cardinality(Woken)
  <2> HIDE DEF announced
  <2>1. spc[g] = "idle" /\ spc'[g] = "idle"
    BY <1>1, <1>2
  <2>2. \A h \in Goroutines : h # g => rpc'[h] = rpc[h] /\ saddr'[h] = saddr[h] /\ spc'[h] = spc[h]
    BY <1>1, <1>2
  <2>3. CASE rpc[g] = "runlock" /\ announced
    <3>1. rpc'[g] = "depart"
      BY <1>4, <2>3
    <3> QED BY <2>1, <2>2, <2>3, <3>1, RWFrame, RWNumbers DEF NumbersOK
  <2>4. CASE rpc[g] = "runlock" /\ ~announced
    <3>1. rpc'[g] = "idle"
      BY <1>4, <2>4
    <3> QED BY <2>1, <2>2, <2>4, <3>1, RWFrame, RWNumbers DEF NumbersOK
  <2>5. CASE rpc[g] = "rwait"
    <3>1. rpc'[g] = "idle"
      BY <1>1, <2>5
    <3> QED BY <2>1, <2>2, <2>5, <3>1, RWFrame, RWNumbers DEF NumbersOK
  <2>6. CASE rpc[g] = "rrelease"
    <3>1. rpc'[g] = "idle"
      BY <1>1, <2>6
    <3> QED BY <2>1, <2>2, <2>6, <3>1, RWFrame, RWNumbers DEF NumbersOK
  <2> QED BY <1>1, <2>3, <2>4, <2>5, <2>6
<1>9. ReadersIn \in Int /\ Permits \in Int /\ readerWait \in Int /\ readerCount \in Int
        /\ ReadersIn' \in Int /\ Permits' \in Int
  BY AccountTypes, <1>3, CountSign DEF RWInv, RWClientsTypeOK, RWTypeOK
<1>10. readerCount' = readerCount + (Cardinality(Holding)' - Cardinality(Holding))
                                    + (Cardinality(Queued)' - Cardinality(Queued))
                                    + (Cardinality(Uncounting)' - Cardinality(Uncounting))
  BY <1>1, <1>7, <1>8, <1>9, RWNumbers DEF NumbersOK
<1>11. IF announced THEN ReadersIn' - readerWait' = ReadersIn - readerWait
       ELSE Cardinality(Asleep)' - Permits' = Cardinality(Asleep) - Permits
  <2>1. sval'[ReaderSem] = sval[ReaderSem] /\ sval[ReaderSem] \in Nat
    BY <1>2, SemaNumbers DEF RWInv
  <2> QED BY <1>1, <1>7, <1>8, <1>9, <2>1, RWNumbers DEF NumbersOK, ReadersIn, Permits
<1>12. WriterOwed'
  BY <1>1, <1>2, <1>8 DEF WriterOwed, RWInv, ReadersAccounted
<1>13. WriterInv' /\ CountInv' /\ ReadersAccounted'
  <2>1. /\ rpc[g] \in {"idle"} \cup RLockPc \cup RUnlockPc
        /\ rpc'[g] \in {"idle"} \cup RLockPc \cup RUnlockPc
        /\ rpc'[g] = "depart" => \E h \in Goroutines : rpc[h] \in {"await", "wwait"}
    BY <1>1, <1>4, <1>5 DEF RLockPc, RUnlockPc
  <2>2. readerWait' \in Int /\ readerWait' <= readerWait /\ readerWait' = readerWait
    BY <1>1, <1>9
  <2> QED BY <1>1, <1>6, <1>9, <1>10, <1>11, <1>12, <2>1, <2>2, ReaderKeeps
<1>14. RWClientsTypeOK'
  <2>1. readerCount' \in -MaxReaders .. MaxReaders
    BY <1>13, CountBounds
  <2>2. rpc' = [rpc EXCEPT ![g] = rpc'[g]]
    BY DEF RWInv, RWClientsTypeOK, RWTypeOK, RLockReturn, RUnlockAdd, RUnlockReturn, RWGoto
  <2>3. rpc'[g] \in {"idle"} \cup RUnlockPc
    BY <1>5 DEF RUnlockPc
  <2> QED BY <1>1, <2>1, <2>2, <2>3 DEF RWInv, RWClientsTypeOK, RWTypeOK
<1>15. RWCallInv'
  BY <1>1, <1>2, <1>5 DEF RWInv, RWCallInv, RLockPc, WLockPc, WUnlockPc, AcquirePc, ReleasePc
<1> QED BY <1>3, <1>13, <1>14, <1>15 DEF RWInv

LEMMA DepartKeepsInv ==
  ASSUME RWInv, NEW g \in Goroutines, Depart(g), UNCHANGED <<asked, late>>
  PROVE  RWInv'
<1>1. /\ rpc[g] = "depart" /\ spc[g] = "idle" /\ readerWait \in Int
      /\ \A h \in Goroutines : h # g => rpc'[h] = rpc[h]
      /\ rpc'[g] = IF readerWait' = 0 THEN "rrelease" ELSE "idle"
      /\ readerWait' = readerWait - 1
      /\ UNCHANGED <<readerCount, wHeld, r, asked, late>>
  <2>1. spc[g] = "idle" /\ readerWait \in Int
    BY OutsideRWSema DEF Depart, RWInv, RWClientsTypeOK, RWTypeOK
  <2>2. rpc' = [rpc EXCEPT ![g] = IF readerWait' = 0 THEN "rrelease" ELSE "idle"]
    <3>1. CASE readerWait' = 0
      BY <3>1 DEF Depart, RWGoto
    <3>2. CASE readerWait' # 0
      BY <3>2 DEF Depart, RWGoto
    <3> QED BY <3>1, <3>2
  <2> QED BY <2>1, <2>2 DEF Depart, RWInv, RWClientsTypeOK, RWTypeOK
<1>2. /\ UNCHANGED <<sval, ticket>>
      /\ \A h \in Goroutines : h # g => spc'[h] = spc[h] /\ saddr'[h] = saddr[h] /\ sflag'[h] = sflag[h]
      /\ readerWait' = 0 => spc'[g] = "xadd" /\ saddr'[g] = WriterSem /\ ~sflag'[g]
      /\ readerWait' # 0 => spc'[g] = "idle"
  BY <1>1 DEF Depart, CallSemrelease, Call, RWGoto, RWInv, SemaTypeOK, semaVars, RWClientsTypeOK, RWTypeOK
<1>3. SemaTypeOK' /\ SemaInv'
  <2>1. CASE UNCHANGED semaVars
    BY <2>1, SemaUnchanged DEF RWInv
  <2>2. CASE CallSemrelease(g, WriterSem, FALSE)
    BY <2>2, CallKeepsInv, RWAssumption DEF CallSemrelease, RWInv
  <2> QED BY <2>1, <2>2 DEF Depart
<1>4. rpc'[g] \in {"rrelease", "idle"}
  BY <1>1
<1>5. \A h \in Goroutines : (Reads(h)' <=> Reads(h)) /\ (Writes(h)' <=> Writes(h))
  BY <1>1, <1>4 DEF Reads, Writes, RLockPc, WLockPc
<1>6. Cardinality(Holding)' = Cardinality(Holding)
  BY <1>5 DEF Holding
<1>7. /\ Cardinality(Leaving)' = Cardinality(Leaving) - 1
      /\ Cardinality(Admitted)' = Cardinality(Admitted)
      /\ Cardinality(Asleep)' = Cardinality(Asleep)
      /\ Cardinality(Queued)' = Cardinality(Queued)
      /\ Cardinality(Uncounting)' = Cardinality(Uncounting)
      /\ Cardinality(Adding(ReaderSem))' = Cardinality(Adding(ReaderSem))
      /\ Cardinality(Adding(WriterSem))' = Cardinality(Adding(WriterSem))
                                             + (IF readerWait' = 0 THEN 1 ELSE 0)
      /\ Cardinality(Blocked)' = Cardinality(Blocked)
      /\ Cardinality(Woken)' = Cardinality(Woken)
  <2>1. WriterSem # ReaderSem
    BY RWAssumption
  <2>2. CASE readerWait' = 0
    BY <1>1, <1>2, <2>1, <2>2, RWFrame, RWNumbers DEF NumbersOK
  <2>3. CASE readerWait' # 0
    <3>1. spc'[g] = "idle" /\ rpc'[g] = "idle"
      BY <1>1, <1>2, <2>3
    <3> QED BY <1>1, <1>2, <2>3, <3>1, RWFrame, RWNumbers DEF NumbersOK
  <2> QED BY <2>2, <2>3
<1>8. ReadersIn \in Int /\ Permits \in Int /\ readerWait \in Int /\ readerCount \in Int
        /\ ReadersIn' \in Nat /\ Permits' \in Int /\ ReadersIn \in Nat
  BY AccountTypes, <1>3, CountSign DEF RWInv, RWClientsTypeOK, RWTypeOK
<1>9. ReadersIn' = ReadersIn - 1
  <2>1. sval'[ReaderSem] = sval[ReaderSem] /\ sval[ReaderSem] \in Nat
    BY <1>2, SemaNumbers DEF RWInv
  <2> QED BY <1>6, <1>7, <1>8, <2>1, RWNumbers DEF NumbersOK, ReadersIn
\* The writer that the reader departs for, and no other goroutine, is at its wait.
<1>10. PICK w \in Goroutines : rpc[w] \in {"await", "wwait"}
  BY <1>1 DEF RWInv, CountInv
<1>11. ReadersIn = readerWait + r[w] /\ \A h \in Goroutines : OwnsW(h) => h = w
  BY <1>10 DEF RWInv, ReadersAccounted, WriterInv, OwnsW, Announced
<1>12. r[w] \in 0 .. MaxReaders /\ MaxReaders \in Nat
  BY RWAssumption DEF RWInv, RWClientsTypeOK, RWTypeOK
<1>13. WriterOwed'
  <2>1. Blocked = IF rpc[w] = "wwait" THEN {w} ELSE {}
    BY <1>10, <1>11 DEF Blocked, OwnsW, Announced
  <2>2. Cardinality(Blocked) = IF rpc[w] = "wwait" THEN 1 ELSE 0
    BY <2>1, FS_EmptySet, FS_Singleton
  <2>3. sval'[WriterSem] = sval[WriterSem] /\ sval[WriterSem] \in Nat
    BY <1>2, SemaNumbers DEF RWInv
  <2>4. sval[WriterSem] + Cardinality(Adding(WriterSem)) + Cardinality(Woken)
          = IF readerWait = 0 THEN Cardinality(Blocked) ELSE 0
    BY DEF RWInv, ReadersAccounted, WriterOwed
  <2>5. CASE readerWait' = 0
    <3>1. rpc[w] = "wwait"
      BY <1>1, <1>10, <2>5 DEF RWInv, CountInv
    <3> QED BY <1>1, <1>7, <1>8, <2>2, <2>3, <2>4, <2>5, <3>1, RWNumbers DEF NumbersOK, WriterOwed
  <2>6. CASE readerWait' # 0
    <3>1. readerWait = 0 => Cardinality(Blocked) = 0
      <4>1. rpc[w] = "wwait" => r[w] = 0
        BY DEF RWInv, RWCallInv
      <4> QED BY <1>8, <1>9, <1>11, <2>2, <4>1
    <3> QED BY <1>1, <1>7, <1>8, <2>3, <2>4, <2>6, <3>1, RWNumbers DEF NumbersOK, WriterOwed
  <2> QED BY <2>5, <2>6
<1>14. WriterInv' /\ CountInv' /\ ReadersAccounted'
  <2>1. /\ rpc[g] \in {"idle"} \cup RLockPc \cup RUnlockPc
        /\ rpc'[g] \in {"idle"} \cup RLockPc \cup RUnlockPc
        /\ rpc'[g] # "depart"
    BY <1>1, <1>4 DEF RLockPc, RUnlockPc
  <2>2. readerWait' \in Int /\ readerWait' <= readerWait
    BY <1>1, <1>8
  <2>3. readerCount' = readerCount + (Cardinality(Holding)' - Cardinality(Holding))
                                    + (Cardinality(Queued)' - Cardinality(Queued))
                                    + (Cardinality(Uncounting)' - Cardinality(Uncounting))
    BY <1>1, <1>6, <1>7, <1>8, RWNumbers DEF NumbersOK
  <2>4. IF \E h \in Goroutines : Announced(h)
          THEN ReadersIn' - readerWait' = ReadersIn - readerWait
          ELSE Cardinality(Asleep)' - Permits' = Cardinality(Asleep) - Permits
    <3>1. Announced(w)
      BY <1>10 DEF Announced
    <3> QED BY <1>1, <1>8, <1>9, <3>1
  <2>5. UNCHANGED <<wHeld, r>>
    BY <1>1
  <2>6. \A h \in Goroutines : \/ rpc'[h] = rpc[h]
                              \/ {rpc[h], rpc'[h]} \subseteq {"idle", "wlock"} \cup RLockPc \cup RUnlockPc
    BY <1>1, <2>1
  <2>7. \A h \in Goroutines : rpc'[h] = "depart" => rpc[h] = "depart"
    BY <1>1, <2>1
  <2>8. readerWait' = readerWait \/ \E k \in Goroutines : rpc[k] \in {"await", "wwait"}
    BY <1>10
  <2>9. /\ \A h \in Goroutines : Writes(h)' <=> Writes(h)
        /\ \A h \in Goroutines :
             rpc'[h] = "depart" => rpc[h] = "depart" \/ \E k \in Goroutines : rpc[k] \in {"await", "wwait"}
        /\ ReadersIn' \in Int /\ Permits' \in Int
    BY <1>5, <1>8, <2>7
  <2> QED BY <1>13, <2>2, <2>3, <2>4, <2>5, <2>6, <2>8, <2>9, ReaderKeeps
<1>15. RWClientsTypeOK'
  <2>1. readerWait' \in -MaxReaders .. MaxReaders
    <3>1. readerWait \in -MaxReaders .. MaxReaders
      BY DEF RWInv, RWClientsTypeOK, RWTypeOK
    <3> QED BY <1>1, <1>8, <1>9, <1>11, <1>12, <3>1
  <2>2. rpc' = [rpc EXCEPT ![g] = rpc'[g]]
    BY DEF RWInv, RWClientsTypeOK, RWTypeOK, Depart, RWGoto
  <2>3. rpc'[g] \in {"idle"} \cup RUnlockPc
    BY <1>4 DEF RUnlockPc
  <2> QED BY <1>1, <2>1, <2>2, <2>3 DEF RWInv, RWClientsTypeOK, RWTypeOK
<1>16. RWCallInv'
  <2>1. spc'[g] = "xadd" => rpc'[g] = "rrelease"
    BY <1>1, <1>2
  <2> QED BY <1>1, <1>2, <1>4, <2>1 DEF RWInv, RWCallInv, RLockPc, WLockPc, WUnlockPc, AcquirePc, ReleasePc
<1> QED BY <1>3, <1>14, <1>15, <1>16 DEF RWInv

-----------------------------------------------------------------------------
(* The steps of writers.                                                   *)

LEMMA WriteKeepsInv ==
  ASSUME RWInv, NEW g \in Goroutines, Write(g)
  PROVE  RWInv'
<1>1. /\ rpc[g] = "idle" /\ asked[g] = "none" /\ rpc'[g] = "wlock" /\ asked'[g] = "write"
      /\ \A h \in Goroutines : h # g => rpc'[h] = rpc[h] /\ asked'[h] = asked[h]
      /\ UNCHANGED <<semaVars, readerCount, readerWait, wHeld, r>>
  BY DEF Write, CallWLock, CallRW, W!Ask, RWGoto, RWInv, RWClientsTypeOK, RWTypeOK
<1>2. UNCHANGED <<sval, spc, saddr, sflag, ticket>>
  BY <1>1 DEF semaVars
<1>3. SemaTypeOK' /\ SemaInv'
  BY <1>1, SemaUnchanged DEF RWInv
<1>4. RWClientsTypeOK'
  BY <1>1 DEF RWInv, RWClientsTypeOK, RWTypeOK, Write, CallWLock, CallRW, RWGoto, WLockPc
<1>5. RWCallInv'
  BY <1>1, <1>2, OutsideRWSema DEF RWInv, RWCallInv, RLockPc, WLockPc, WUnlockPc, AcquirePc, ReleasePc
<1>6. \A h \in Goroutines : (Reads(h)' <=> Reads(h)) /\ (Writes(h)' <=> Writes(h))
  BY <1>1 DEF Reads, Writes, WLockPc
<1>7. Cardinality(Holding)' = Cardinality(Holding)
  BY <1>6 DEF Holding
<1>8. /\ Cardinality(Leaving)' = Cardinality(Leaving)
      /\ Cardinality(Admitted)' = Cardinality(Admitted)
      /\ Cardinality(Asleep)' = Cardinality(Asleep)
      /\ Cardinality(Queued)' = Cardinality(Queued)
      /\ Cardinality(Uncounting)' = Cardinality(Uncounting)
      /\ \A a : Cardinality(Adding(a))' = Cardinality(Adding(a))
      /\ Cardinality(Blocked)' = Cardinality(Blocked)
      /\ Cardinality(Woken)' = Cardinality(Woken)
  BY <1>1, <1>2, RWFrame, RWNumbers DEF NumbersOK
<1>9. ReadersIn' = ReadersIn /\ Permits' = Permits
  BY <1>2, <1>7, <1>8 DEF ReadersIn, Permits
<1>10. WriterOwed'
  BY <1>1, <1>2, <1>8 DEF WriterOwed, RWInv, ReadersAccounted
<1>11. ReadersIn \in Int /\ Permits \in Int /\ readerWait \in Int /\ readerCount \in Int
  BY AccountTypes, <1>3, CountSign DEF RWInv, RWClientsTypeOK, RWTypeOK
<1>12. WriterInv' /\ CountInv' /\ ReadersAccounted'
  <2>1. readerCount' = readerCount + (Cardinality(Holding)' - Cardinality(Holding))
                                    + (Cardinality(Queued)' - Cardinality(Queued))
                                    + (Cardinality(Uncounting)' - Cardinality(Uncounting))
    BY <1>1, <1>7, <1>8, <1>11, RWNumbers DEF NumbersOK
  <2> QED BY <1>1, <1>6, <1>8, <1>9, <1>10, <1>11, <2>1, ReaderKeeps
<1> QED BY <1>3, <1>4, <1>5, <1>12 DEF RWInv

\* Who owns rw.w owns it alone.
LEMMA OwnerAlone ==
  ASSUME RWInv, NEW g \in Goroutines, OwnsW(g)
  PROVE  \A h \in Goroutines : h # g =>
           ~OwnsW(h) /\ ~Announced(h) /\ ~Writes(h)
             /\ rpc[h] \notin {"announce", "await", "wwait", "unlock", "wake"}
BY DEF RWInv, WriterInv, OwnsW, Announced

\* What leaves the accounts of readers as they are.
LEMMA SameNumbers ==
  ASSUME NEW g \in Goroutines,
         \A h \in Goroutines : h # g =>
           rpc'[h] = rpc[h] /\ spc'[h] = spc[h] /\ saddr'[h] = saddr[h] /\ (Reads(h)' <=> Reads(h)),
         Reads(g)' <=> Reads(g),
         rpc[g] \notin {"runlock", "depart", "rwait"}, rpc'[g] \notin {"runlock", "depart", "rwait"}
  PROVE  /\ Cardinality(Holding)' = Cardinality(Holding)
         /\ Cardinality(Leaving)' = Cardinality(Leaving)
         /\ Cardinality(Admitted)' = Cardinality(Admitted)
         /\ Cardinality(Asleep)' = Cardinality(Asleep)
         /\ Cardinality(Queued)' = Cardinality(Queued)
         /\ Cardinality(Uncounting)' = Cardinality(Uncounting)
<1>1. /\ Leaving' = Leaving /\ Admitted' = Admitted /\ Asleep' = Asleep
      /\ Queued' = Queued /\ Uncounting' = Uncounting /\ Holding' = Holding
  BY DEF Leaving, Admitted, Asleep, Queued, Uncounting, Holding
<1> QED BY <1>1

\* ... and those of permits.
LEMMA SamePermits ==
  ASSUME UNCHANGED <<sval, spc, saddr>>, NEW g \in Goroutines,
         \A h \in Goroutines : h # g => rpc'[h] = rpc[h],
         rpc[g] # "wwait", rpc'[g] # "wwait"
  PROVE  /\ \A a : Cardinality(Adding(a))' = Cardinality(Adding(a))
         /\ Cardinality(Blocked)' = Cardinality(Blocked)
         /\ Cardinality(Woken)' = Cardinality(Woken)
<1>1. /\ \A a : Adding(a)' = Adding(a)
      /\ Blocked' = Blocked /\ Woken' = Woken
  BY DEF Adding, Blocked, Woken
<1> QED BY <1>1

LEMMA WriteEndKeepsInv ==
  ASSUME RWInv, NEW g \in Goroutines, NEW k \in Goroutines, WriteEnd(g, k)
  PROVE  RWInv'
<1>1. /\ rpc[g] = "idle" /\ rpc'[g] = "unlock" /\ Writes(k) /\ asked'[k] = "none"
      /\ \A h \in Goroutines : h # g => rpc'[h] = rpc[h]
      /\ \A h \in Goroutines : h # k => asked'[h] = asked[h]
      /\ UNCHANGED <<semaVars, readerCount, readerWait, wHeld, r>>
  BY DEF WriteEnd, CallWUnlock, CallRW, RWGoto, RWInv, RWClientsTypeOK, RWTypeOK
<1>2. UNCHANGED <<sval, spc, saddr, sflag, ticket>>
  BY <1>1 DEF semaVars
<1>3. SemaTypeOK' /\ SemaInv'
  BY <1>1, SemaUnchanged DEF RWInv
<1>4. RWClientsTypeOK'
  BY <1>1 DEF RWInv, RWClientsTypeOK, RWTypeOK, WriteEnd, CallWUnlock, CallRW, RWGoto, WUnlockPc
<1>5. Announced(k) /\ OwnsW(k) /\ ReadersIn = 0 /\ readerWait = 0
  BY <1>1 DEF Announced, OwnsW, RWInv, ReadersAccounted
<1>6. \A h \in Goroutines : h # k => ~OwnsW(h) /\ ~Announced(h) /\ ~Writes(h)
                                       /\ rpc[h] \notin {"announce", "await", "wwait", "unlock", "wake"}
  BY <1>5, OwnerAlone
<1>7. asked[k] = "write" /\ rpc[k] \notin WLockPc \cup WUnlockPc \cup RLockPc
  BY <1>1 DEF Writes, RWInv, RWCallInv
<1>8. \A h \in Goroutines : rpc'[h] \notin {"announce", "await", "wwait", "wake"}
                              /\ (rpc'[h] = "unlock" => h = g)
  BY <1>1, <1>6, <1>7 DEF WLockPc, WUnlockPc
<1>9. asked[g] # "write" \/ g = k
  BY <1>1, <1>6 DEF Writes, WLockPc
<1>10. RWCallInv'
  <2>1. \A h \in Goroutines : rpc'[h] \in WUnlockPc => h = g
    BY <1>8 DEF WUnlockPc
  <2>2. asked'[g] # "write"
    BY <1>1, <1>9
  <2>3. \A h \in Goroutines : rpc'[h] \in RLockPc => h # g /\ h # k
    BY <1>1, <1>7 DEF RLockPc
  <2>4. \A h \in Goroutines : rpc'[h] \in WLockPc => h # g /\ h # k
    BY <1>1, <1>7 DEF WLockPc
  <2>5. spc[g] = "idle"
    BY <1>1, OutsideRWSema
  <2>6. \A h \in Goroutines : r[h] # 0 => rpc'[h] \in {"await", "wake"}
    BY <1>1 DEF RWInv, RWCallInv
  <2> QED BY <1>1, <1>2, <2>1, <2>2, <2>3, <2>4, <2>5, <2>6
          DEF RWInv, RWCallInv, AcquirePc, ReleasePc
<1>11. \A h \in Goroutines : ~Writes(h)'
  <2>1. \A h \in Goroutines : h # k /\ h # g => ~Writes(h)'
    BY <1>1, <1>6 DEF Writes
  <2>2. ~Writes(k)'
    BY <1>1 DEF Writes
  <2>3. g # k => ~Writes(g)'
    BY <1>1, <1>9 DEF Writes
  <2> QED BY <2>1, <2>2, <2>3
<1>12. \A h \in Goroutines : Announced(h)' \/ OwnsW(h)' => h = g
  BY <1>8, <1>11 DEF OwnsW, Announced
<1>13. WriterInv'
  BY <1>1, <1>5, <1>12 DEF WriterInv, RWInv
<1>14. Announced(g)'
  BY <1>1 DEF Announced
<1>15. \A h \in Goroutines : Reads(h)' <=> Reads(h)
  BY <1>1, <1>7 DEF Reads, RLockPc
<1>16. /\ Cardinality(Holding)' = Cardinality(Holding)
       /\ Cardinality(Leaving)' = Cardinality(Leaving)
       /\ Cardinality(Admitted)' = Cardinality(Admitted)
       /\ Cardinality(Asleep)' = Cardinality(Asleep)
       /\ Cardinality(Queued)' = Cardinality(Queued)
       /\ Cardinality(Uncounting)' = Cardinality(Uncounting)
  BY <1>1, <1>2, <1>15, SameNumbers
<1>17. /\ \A a : Cardinality(Adding(a))' = Cardinality(Adding(a))
       /\ Cardinality(Blocked)' = Cardinality(Blocked)
       /\ Cardinality(Woken)' = Cardinality(Woken)
  BY <1>1, <1>2, SamePermits
<1>18. ReadersIn' = 0 /\ readerWait' = 0 /\ WriterOwed'
  <2>1. ReadersIn' = ReadersIn
    BY <1>2, <1>16 DEF ReadersIn
  <2>2. WriterOwed'
    BY <1>1, <1>2, <1>17 DEF RWInv, ReadersAccounted, WriterOwed
  <2> QED BY <1>1, <1>5, <2>1, <2>2
<1>19. ReadersAccounted'
  <2>1. \A h \in Goroutines : rpc'[h] # "throw"
    BY <1>1 DEF RWInv, ReadersAccounted
  <2> QED BY <1>8, <1>11, <1>14, <1>18, <2>1 DEF ReadersAccounted
<1>20. CountInv'
  <2>1. readerCount' = Cardinality(Holding)' + Cardinality(Queued)' + Cardinality(Uncounting)' - MaxReaders
    BY <1>1, <1>5, <1>16 DEF RWInv, CountInv
  <2>2. \A h \in Goroutines : rpc'[h] # "depart"
    <3>1. \A h \in Goroutines : rpc[h] # "depart"
      BY <1>6, <1>7 DEF RWInv, CountInv, WLockPc
    <3> QED BY <1>1, <3>1
  <2> QED BY <1>8, <1>14, <2>1, <2>2 DEF CountInv
<1> QED BY <1>3, <1>4, <1>10, <1>13, <1>19, <1>20 DEF RWInv

LEMMA LockCompeteKeepsInv ==
  ASSUME RWInv, NEW g \in Goroutines, LockCompete(g), UNCHANGED <<asked, late>>
  PROVE  RWInv'
<1>1. /\ rpc[g] = "wlock" /\ rpc'[g] = "announce" /\ ~wHeld /\ wHeld'
      /\ \A h \in Goroutines : h # g => rpc'[h] = rpc[h]
      /\ UNCHANGED <<semaVars, readerCount, readerWait, r, asked, late>>
  BY DEF LockCompete, W!Grant, RWGoto, RWInv, RWClientsTypeOK, RWTypeOK
<1>2. UNCHANGED <<sval, spc, saddr, sflag, ticket>>
  BY <1>1 DEF semaVars
<1>3. SemaTypeOK' /\ SemaInv'
  BY <1>1, SemaUnchanged DEF RWInv
<1>4. RWClientsTypeOK'
  BY <1>1 DEF RWInv, RWClientsTypeOK, RWTypeOK, LockCompete, RWGoto, WLockPc
<1>5. RWCallInv'
  BY <1>1, <1>2, OutsideRWSema DEF RWInv, RWCallInv, RLockPc, WLockPc, WUnlockPc, AcquirePc, ReleasePc
<1>6. \A h \in Goroutines : (Reads(h)' <=> Reads(h)) /\ (Writes(h)' <=> Writes(h))
  BY <1>1 DEF Reads, Writes, WLockPc, RLockPc
<1>7. \A h \in Goroutines : ~OwnsW(h) /\ ~Announced(h) /\ ~Announced(h)' /\ (OwnsW(h)' => h = g)
  <2>1. \A h \in Goroutines : ~OwnsW(h)
    BY <1>1 DEF RWInv, WriterInv
  <2> QED BY <1>1, <1>6, <2>1 DEF OwnsW, Announced
<1>8. /\ Cardinality(Holding)' = Cardinality(Holding)
      /\ Cardinality(Leaving)' = Cardinality(Leaving)
      /\ Cardinality(Admitted)' = Cardinality(Admitted)
      /\ Cardinality(Asleep)' = Cardinality(Asleep)
      /\ Cardinality(Queued)' = Cardinality(Queued)
      /\ Cardinality(Uncounting)' = Cardinality(Uncounting)
  BY <1>1, <1>2, <1>6, SameNumbers
<1>9. /\ \A a : Cardinality(Adding(a))' = Cardinality(Adding(a))
      /\ Cardinality(Blocked)' = Cardinality(Blocked)
      /\ Cardinality(Woken)' = Cardinality(Woken)
  BY <1>1, <1>2, SamePermits
<1>10. WriterInv'
  BY <1>1, <1>7 DEF WriterInv
<1>11. CountInv'
  <2>1. readerCount' = Cardinality(Holding)' + Cardinality(Queued)' + Cardinality(Uncounting)' - 0
    BY <1>1, <1>7, <1>8 DEF RWInv, CountInv
  <2>2. \A h \in Goroutines : rpc'[h] \notin {"depart", "await"}
    <3>1. \A h \in Goroutines : rpc[h] \notin {"depart", "await"}
      BY <1>7 DEF RWInv, CountInv, Announced
    <3> QED BY <1>1, <3>1
  <2> QED BY <1>7, <2>1, <2>2 DEF CountInv
<1>12. ReadersAccounted'
  <2>1. \A h \in Goroutines : rpc[h] \notin {"throw", "wake", "await", "wwait", "unlock"} /\ ~Writes(h)
    BY <1>7 DEF RWInv, ReadersAccounted, OwnsW, Announced
  <2>2. \A h \in Goroutines : rpc'[h] \notin {"throw", "wake", "await", "wwait", "unlock"} /\ ~Writes(h)'
    BY <1>1, <1>6, <2>1
  <2>3. Cardinality(Asleep) = Permits /\ readerWait = 0
    BY <1>7, <2>1 DEF RWInv, ReadersAccounted
  <2>4. Permits' = Permits
    BY <1>2, <1>9 DEF Permits
  <2>5. WriterOwed'
    BY <1>1, <1>2, <1>9 DEF RWInv, ReadersAccounted, WriterOwed
  <2> QED BY <1>1, <1>8, <2>2, <2>3, <2>4, <2>5 DEF ReadersAccounted
<1> QED BY <1>3, <1>4, <1>5, <1>10, <1>11, <1>12 DEF RWInv

\* Nobody adds a permit for readers but the goroutine that unlocks.
LEMMA OnlyUnlockAdds ==
  ASSUME RWInv, \A h \in Goroutines : rpc[h] # "wake"
  PROVE  Cardinality(Adding(ReaderSem)) = 0
<1>1. Adding(ReaderSem) = {}
  BY RWAssumption DEF Adding, RWInv, RWCallInv, ReleasePc
<1> QED BY <1>1, FS_EmptySet

\* Nobody is about to depart unless a writer waits.
LEMMA NobodyDeparts ==
  ASSUME RWInv, \A h \in Goroutines : rpc[h] # "depart"
  PROVE  Cardinality(Leaving) = Cardinality(Uncounting)
<1>1. Leaving = Uncounting
  BY DEF Leaving, Uncounting
<1> QED BY <1>1

LEMMA LockAnnounceKeepsInv ==
  ASSUME RWInv, NEW g \in Goroutines, LockAnnounce(g), UNCHANGED <<asked, late>>
  PROVE  RWInv'
<1>1. /\ rpc[g] = "announce" /\ spc[g] = "idle" /\ asked[g] = "write"
      /\ rpc'[g] = IF readerCount = 0 THEN "idle" ELSE "await"
      /\ r'[g] = readerCount /\ readerCount' = readerCount - MaxReaders
      /\ \A h \in Goroutines : h # g => rpc'[h] = rpc[h] /\ r'[h] = r[h]
      /\ UNCHANGED <<semaVars, readerWait, wHeld, asked, late>>
  BY OutsideRWSema DEF LockAnnounce, RWGoto, RWInv, RWClientsTypeOK, RWTypeOK, RWCallInv, WLockPc
<1>2. UNCHANGED <<sval, spc, saddr, sflag, ticket>>
  BY <1>1 DEF semaVars
<1>3. SemaTypeOK' /\ SemaInv'
  BY <1>1, SemaUnchanged DEF RWInv
<1>4. OwnsW(g) /\ ~Announced(g) /\ \A h \in Goroutines : h # g => ~OwnsW(h)
  BY <1>1, OwnerAlone DEF OwnsW, Announced, Writes, WLockPc
<1>5. \A h \in Goroutines : /\ ~Announced(h)
                            /\ rpc[h] \notin {"await", "wwait", "unlock", "wake", "throw"}
                            /\ h # g => rpc[h] # "announce"
                            /\ ~Writes(h)
  BY <1>1, <1>4 DEF OwnsW, Announced, RWInv, ReadersAccounted
<1>6. \A h \in Goroutines : rpc[h] # "depart"
  BY <1>5 DEF RWInv, CountInv
<1>7. /\ Cardinality(Asleep) = Permits /\ readerWait = 0
      /\ readerCount = Cardinality(Holding) + Cardinality(Queued) + Cardinality(Uncounting) - 0
  BY <1>5 DEF RWInv, ReadersAccounted, CountInv
<1>8. MaxReaders \in Nat /\ readerCount \in 0 .. MaxReaders
  BY <1>7, RWAssumption, RWNumbers DEF NumbersOK
\* What the announcement learns is exactly the readers that are in.
<1>9. readerCount = ReadersIn
  <2>1. sval[ReaderSem] \in Nat
    BY SemaNumbers DEF RWInv
  <2>2. Cardinality(Adding(ReaderSem)) = 0 /\ Cardinality(Leaving) = Cardinality(Uncounting)
    BY <1>5, <1>6, OnlyUnlockAdds, NobodyDeparts
  <2> QED BY <1>7, <2>1, <2>2, RWNumbers DEF NumbersOK, ReadersIn, Permits
<1>10. rpc'[g] \in {"idle", "await"}
  BY <1>1
<1>11. RWClientsTypeOK'
  <2>1. rpc' = [rpc EXCEPT ![g] = rpc'[g]]
    BY DEF RWInv, RWClientsTypeOK, RWTypeOK, LockAnnounce, RWGoto
  <2>2. r' = [r EXCEPT ![g] = readerCount]
    BY DEF LockAnnounce
  <2>3. rpc'[g] \in {"idle"} \cup WLockPc
    BY <1>10 DEF WLockPc
  <2>4. readerCount' \in -MaxReaders .. MaxReaders
    BY <1>1, <1>8
  <2> QED BY <1>1, <1>8, <2>1, <2>2, <2>3, <2>4 DEF RWInv, RWClientsTypeOK, RWTypeOK
<1>12. RWCallInv'
  <2>1. r'[g] # 0 => rpc'[g] = "await"
    BY <1>1
  <2> QED BY <1>1, <1>2, <1>10, <2>1 DEF RWInv, RWCallInv, RLockPc, WLockPc, WUnlockPc, AcquirePc, ReleasePc
<1>13. /\ \A h \in Goroutines : Reads(h)' <=> Reads(h)
       /\ \A h \in Goroutines : h # g => ~Writes(h)'
       /\ Writes(g)' <=> rpc'[g] = "idle"
  BY <1>1, <1>5, <1>10 DEF Reads, Writes, RLockPc, WLockPc
<1>14. Announced(g)' /\ OwnsW(g)' /\ \A h \in Goroutines : h # g => ~OwnsW(h)' /\ ~Announced(h)'
  BY <1>1, <1>5, <1>10, <1>13 DEF OwnsW, Announced
<1>15. /\ Cardinality(Holding)' = Cardinality(Holding)
       /\ Cardinality(Leaving)' = Cardinality(Leaving)
       /\ Cardinality(Admitted)' = Cardinality(Admitted)
       /\ Cardinality(Asleep)' = Cardinality(Asleep)
       /\ Cardinality(Queued)' = Cardinality(Queued)
       /\ Cardinality(Uncounting)' = Cardinality(Uncounting)
  BY <1>1, <1>2, <1>10, <1>13, SameNumbers
<1>16. /\ \A a : Cardinality(Adding(a))' = Cardinality(Adding(a))
       /\ Cardinality(Blocked)' = Cardinality(Blocked)
       /\ Cardinality(Woken)' = Cardinality(Woken)
  BY <1>1, <1>2, <1>10, SamePermits
<1>17. WriterInv'
  <2>1. wHeld'
    BY <1>1, <1>4 DEF RWInv, WriterInv
  <2> QED BY <1>14, <2>1 DEF WriterInv
<1>18. CountInv'
  <2>1. readerCount' = Cardinality(Holding)' + Cardinality(Queued)' + Cardinality(Uncounting)' - MaxReaders
    BY <1>1, <1>7, <1>8, <1>15, RWNumbers DEF NumbersOK
  <2>2. \A h \in Goroutines : rpc'[h] # "depart" /\ readerWait' <= 0
    BY <1>1, <1>6, <1>7, <1>10
  <2> QED BY <1>14, <2>1, <2>2 DEF CountInv
<1>19. ReadersAccounted'
  <2>1. ReadersIn' = ReadersIn /\ WriterOwed'
    BY <1>1, <1>2, <1>15, <1>16 DEF ReadersIn, RWInv, ReadersAccounted, WriterOwed
  <2>2. \A h \in Goroutines : rpc'[h] \notin {"wwait", "unlock", "wake", "throw"}
    BY <1>1, <1>5, <1>10
  <2>3. \A h \in Goroutines : rpc'[h] = "await" => h = g
    BY <1>1, <1>5
  <2>4. Writes(g)' => readerCount = 0
    BY <1>1, <1>13
  <2>5. ReadersIn' = readerWait' + r'[g] /\ readerWait' = 0
    BY <1>1, <1>7, <1>8, <1>9, <2>1
  <2>6. \A h \in Goroutines : Writes(h)' => ReadersIn' = 0
    BY <1>9, <1>13, <2>1, <2>4
  <2> QED BY <1>14, <2>1, <2>2, <2>3, <2>5, <2>6 DEF ReadersAccounted
<1> QED BY <1>3, <1>11, <1>12, <1>17, <1>18, <1>19 DEF RWInv

\* When no reader is in, none is about to depart.
LEMMA NobodyIn ==
  ASSUME RWInv, ReadersIn = 0
  PROVE  /\ \A h \in Goroutines : rpc[h] \notin {"runlock", "depart"} /\ ~Reads(h)
         /\ Cardinality(Holding) = 0 /\ Cardinality(Leaving) = 0 /\ Cardinality(Admitted) = 0
         /\ Cardinality(Uncounting) = 0 /\ sval[ReaderSem] = 0
<1>1. sval[ReaderSem] \in Nat
  BY SemaNumbers DEF RWInv
<1>2. /\ Cardinality(Holding) = 0 /\ Cardinality(Leaving) = 0 /\ Cardinality(Admitted) = 0
      /\ sval[ReaderSem] = 0
  <2>1. /\ Cardinality(Holding) \in Nat /\ Cardinality(Leaving) \in Nat /\ Cardinality(Admitted) \in Nat
    BY RWNumbers DEF NumbersOK
  <2>2. Cardinality(Holding) + Cardinality(Leaving) + Cardinality(Admitted) + sval[ReaderSem] = 0
    BY DEF ReadersIn
  <2>3. \A i, j, k, l \in Nat : i + j + k + l = 0 => i = 0 /\ j = 0 /\ k = 0 /\ l = 0
    OBVIOUS
  <2> QED BY ONLY <1>1, <2>1, <2>2, <2>3
<1>3. Leaving = {} /\ Holding = {}
  BY <1>2, SemaAssumption, FS_Subset, FS_EmptySet DEF Leaving, Holding
<1>4. \A h \in Goroutines : rpc[h] \notin {"runlock", "depart"} /\ ~Reads(h)
  BY <1>3 DEF Leaving, Holding
<1>5. Uncounting = {}
  BY <1>4 DEF Uncounting
<1> QED BY <1>2, <1>4, <1>5, FS_EmptySet

\* The writer alone may be blocked.
LEMMA BlockedAlone ==
  ASSUME RWInv, NEW g \in Goroutines, OwnsW(g)
  PROVE  Cardinality(Blocked) = IF rpc[g] = "wwait" THEN 1 ELSE 0
<1>1. Blocked = IF rpc[g] = "wwait" THEN {g} ELSE {}
  BY OwnerAlone DEF Blocked
<1> QED BY <1>1, FS_EmptySet, FS_Singleton

\* The writer that gets in at once, or that is woken.
LEMMA WriterEnters ==
  ASSUME RWInv, NEW g \in Goroutines, rpc[g] \in {"await", "wwait"}, spc[g] = "idle",
         rpc' = [rpc EXCEPT ![g] = "idle"], r' = [r EXCEPT ![g] = 0],
         readerWait' = 0, ReadersIn = 0,
         UNCHANGED <<semaVars, readerCount, wHeld, asked, late>>,
         WriterOwed'
  PROVE  RWInv'
<1>1. /\ rpc'[g] = "idle" /\ r'[g] = 0
      /\ \A h \in Goroutines : h # g => rpc'[h] = rpc[h] /\ r'[h] = r[h]
  BY DEF RWInv, RWClientsTypeOK, RWTypeOK
<1>2. /\ OwnsW(g) /\ Announced(g) /\ asked[g] = "write"
      /\ \A h \in Goroutines : h # g => ~OwnsW(h) /\ ~Announced(h) /\ ~Writes(h)
                                 /\ rpc[h] \notin {"announce", "await", "wwait", "unlock", "wake"}
  BY OwnerAlone DEF OwnsW, Announced, RWInv, RWCallInv, WLockPc
<1>3. UNCHANGED <<sval, spc, saddr, sflag, ticket>>
  BY DEF semaVars
<1>4. SemaTypeOK' /\ SemaInv'
  BY SemaUnchanged DEF RWInv
<1>5. /\ \A h \in Goroutines : Reads(h)' <=> Reads(h)
      /\ \A h \in Goroutines : h # g => ~Writes(h)'
      /\ Writes(g)'
  BY <1>1, <1>2 DEF Reads, Writes, RLockPc, WLockPc
<1>6. Announced(g)' /\ OwnsW(g)' /\ \A h \in Goroutines : h # g => ~OwnsW(h)' /\ ~Announced(h)'
  BY <1>1, <1>2, <1>5 DEF OwnsW, Announced
<1>7. /\ Cardinality(Holding)' = Cardinality(Holding)
      /\ Cardinality(Leaving)' = Cardinality(Leaving)
      /\ Cardinality(Admitted)' = Cardinality(Admitted)
      /\ Cardinality(Asleep)' = Cardinality(Asleep)
      /\ Cardinality(Queued)' = Cardinality(Queued)
      /\ Cardinality(Uncounting)' = Cardinality(Uncounting)
  BY <1>1, <1>3, <1>5, SameNumbers
<1>8. WriterInv'
  <2>1. wHeld'
    BY <1>2 DEF RWInv, WriterInv
  <2> QED BY <1>6, <2>1 DEF WriterInv
<1>9. CountInv'
  <2>1. readerCount' = Cardinality(Holding)' + Cardinality(Queued)' + Cardinality(Uncounting)' - MaxReaders
    BY <1>2, <1>7 DEF RWInv, CountInv
  <2>2. \A h \in Goroutines : rpc'[h] \notin {"depart", "await"}
    BY <1>1, <1>2, NobodyIn
  <2> QED BY <1>6, <2>1, <2>2 DEF CountInv
<1>10. ReadersAccounted'
  <2>1. ReadersIn' = 0
    BY <1>3, <1>7 DEF ReadersIn
  <2>2. \A h \in Goroutines : rpc'[h] \notin {"await", "wwait", "unlock", "wake", "throw"}
    BY <1>1, <1>2 DEF RWInv, ReadersAccounted
  <2> QED BY <1>5, <1>6, <2>1, <2>2 DEF ReadersAccounted
<1>11. RWCallInv'
  BY <1>1, <1>2, <1>3 DEF RWInv, RWCallInv, RLockPc, WLockPc, WUnlockPc, AcquirePc, ReleasePc
<1>12. RWClientsTypeOK'
  BY RWAssumption DEF RWInv, RWClientsTypeOK, RWTypeOK
<1> QED BY <1>4, <1>8, <1>9, <1>10, <1>11, <1>12 DEF RWInv

LEMMA LockAwaitKeepsInv ==
  ASSUME RWInv, NEW g \in Goroutines, LockAwait(g), UNCHANGED <<asked, late>>
  PROVE  RWInv'
<1>1. /\ rpc[g] = "await" /\ spc[g] = "idle" /\ asked[g] = "write"
      /\ r' = [r EXCEPT ![g] = 0] /\ r'[g] = 0 /\ r[g] \in Int /\ readerWait \in Int
      /\ readerWait' = readerWait + r[g]
      /\ \A h \in Goroutines : h # g => r'[h] = r[h]
      /\ UNCHANGED <<readerCount, wHeld, asked, late>>
  BY OutsideRWSema DEF LockAwait, RWInv, RWClientsTypeOK, RWTypeOK, RWCallInv, WLockPc
<1>2. /\ OwnsW(g) /\ Announced(g)
      /\ \A h \in Goroutines : h # g => ~OwnsW(h) /\ ~Announced(h) /\ ~Writes(h)
                                 /\ rpc[h] \notin {"announce", "await", "wwait", "unlock", "wake"}
  BY <1>1, OwnerAlone DEF OwnsW, Announced
\* The readers that it learnt of, less those that have departed since, are those in.
<1>3. readerWait' = ReadersIn /\ ReadersIn \in Nat
  <2>1. sval[ReaderSem] \in Nat
    BY SemaNumbers DEF RWInv
  <2>2. ReadersIn \in Nat
    BY <2>1, RWNumbers DEF NumbersOK, ReadersIn
  <2> QED BY <1>1, <2>2 DEF RWInv, ReadersAccounted
<1>4. Cardinality(Blocked) = 0
        /\ sval[WriterSem] + Cardinality(Adding(WriterSem)) + Cardinality(Woken) = 0
  BY <1>1, <1>2, BlockedAlone DEF RWInv, ReadersAccounted, WriterOwed
<1>5. CASE readerWait' = 0
  <2>1. rpc' = [rpc EXCEPT ![g] = "idle"] /\ UNCHANGED semaVars
    BY <1>5 DEF LockAwait, RWGoto
  <2>2. UNCHANGED <<sval, spc, saddr>>
    BY <2>1 DEF semaVars
  <2>3. rpc'[g] = "idle" /\ \A h \in Goroutines : h # g => rpc'[h] = rpc[h]
    BY <2>1 DEF RWInv, RWClientsTypeOK, RWTypeOK
  <2>4. /\ \A a : Cardinality(Adding(a))' = Cardinality(Adding(a))
        /\ Cardinality(Blocked)' = Cardinality(Blocked)
        /\ Cardinality(Woken)' = Cardinality(Woken)
    BY <1>1, <2>2, <2>3, SamePermits
  <2>5. WriterOwed'
    BY <1>4, <1>5, <2>2, <2>4 DEF WriterOwed
  <2> QED BY <1>1, <1>3, <1>5, <2>1, <2>5, WriterEnters
<1>6. CASE readerWait' # 0
  <2>1. rpc' = [rpc EXCEPT ![g] = "wwait"] /\ CallSemacquire(g, WriterSem, FALSE)
    BY <1>6 DEF LockAwait, RWGoto
  <2>2. SemaTypeOK' /\ SemaInv'
    BY <2>1, CallKeepsInv, RWAssumption DEF CallSemacquire, RWInv
  <2>3. rpc'[g] = "wwait" /\ \A h \in Goroutines : h # g => rpc'[h] = rpc[h]
    BY <2>1 DEF RWInv, RWClientsTypeOK, RWTypeOK
  <2>4. /\ UNCHANGED <<sval, ticket>> /\ spc'[g] = "easy" /\ saddr'[g] = WriterSem /\ ~sflag'[g]
        /\ \A h \in Goroutines : h # g => spc'[h] = spc[h] /\ saddr'[h] = saddr[h] /\ sflag'[h] = sflag[h]
    BY <2>1 DEF CallSemacquire, Call, RWInv, SemaTypeOK
  <2>5. RWClientsTypeOK'
    <3>1. readerWait' \in -MaxReaders .. MaxReaders
      <4>1. readerWait <= 0 /\ r[g] \in 0 .. MaxReaders /\ MaxReaders \in Nat
        BY <1>1, RWAssumption DEF RWInv, RWClientsTypeOK, RWTypeOK, CountInv
      <4> QED BY <1>1, <1>3, <4>1
    <3> QED BY <1>1, <2>1, <3>1, RWAssumption DEF RWInv, RWClientsTypeOK, RWTypeOK, WLockPc
  <2>6. RWCallInv'
    BY <1>1, <2>3, <2>4 DEF RWInv, RWCallInv, RLockPc, WLockPc, WUnlockPc, AcquirePc, ReleasePc
  <2>7. \A h \in Goroutines : (Reads(h)' <=> Reads(h)) /\ (Writes(h)' <=> Writes(h))
    BY <1>1, <2>3 DEF Reads, Writes, RLockPc, WLockPc
  <2>8. \A h \in Goroutines : (Announced(h)' <=> Announced(h)) /\ (OwnsW(h)' <=> OwnsW(h))
    BY <1>1, <2>3, <2>7 DEF Announced, OwnsW
  <2>9. WriterInv'
    BY <1>1, <2>8 DEF RWInv, WriterInv
  <2>10. Cardinality(Holding)' = Cardinality(Holding)
    BY <2>7 DEF Holding
  <2>11. /\ Cardinality(Leaving)' = Cardinality(Leaving)
         /\ Cardinality(Admitted)' = Cardinality(Admitted)
         /\ Cardinality(Queued)' = Cardinality(Queued)
         /\ Cardinality(Uncounting)' = Cardinality(Uncounting)
         /\ Cardinality(Adding(WriterSem))' = Cardinality(Adding(WriterSem))
         /\ Cardinality(Woken)' = Cardinality(Woken)
    BY <1>1, <2>3, <2>4, RWFrame, RWNumbers DEF NumbersOK
  <2>12. CountInv'
    <3>1. \A h \in Goroutines : rpc'[h] # "await"
      BY <1>2, <2>3
    <3> QED BY <1>1, <2>3, <2>8, <2>10, <2>11, <3>1 DEF RWInv, CountInv
  <2>13. ReadersAccounted'
    <3>1. ReadersIn' = readerWait' + r'[g]
      <4>1. ReadersIn' = ReadersIn
        BY <2>4, <2>10, <2>11 DEF ReadersIn
      <4> QED BY <1>1, <1>3, <4>1
    <3>2. WriterOwed'
      BY <1>4, <1>6, <2>4, <2>11 DEF WriterOwed
    <3>3. \A h \in Goroutines : rpc'[h] \notin {"await", "unlock", "wake", "throw"} /\ ~Writes(h)'
                                  /\ (rpc'[h] = "wwait" => h = g)
      BY <1>1, <1>2, <2>3, <2>7 DEF RWInv, ReadersAccounted, Writes, WLockPc
    <3> QED BY <1>2, <2>8, <3>1, <3>2, <3>3 DEF ReadersAccounted
  <2> QED BY <2>2, <2>5, <2>6, <2>9, <2>12, <2>13 DEF RWInv
<1> QED BY <1>5, <1>6

LEMMA LockReturnKeepsInv ==
  ASSUME RWInv, NEW g \in Goroutines, LockReturn(g), UNCHANGED <<asked, late>>
  PROVE  RWInv'
<1>1. /\ rpc[g] = "wwait" /\ spc[g] = "idle"
      /\ rpc' = [rpc EXCEPT ![g] = "idle"] /\ rpc'[g] = "idle"
      /\ \A h \in Goroutines : h # g => rpc'[h] = rpc[h]
      /\ UNCHANGED <<semaVars, readerCount, readerWait, wHeld, r, asked, late>>
  BY DEF LockReturn, RWGoto, RWInv, RWClientsTypeOK, RWTypeOK
<1>2. UNCHANGED <<sval, spc, saddr>>
  BY <1>1 DEF semaVars
<1>3. OwnsW(g)
  BY <1>1 DEF OwnsW, Announced
<1>4. Cardinality(Blocked) = 1
  BY <1>1, <1>3, BlockedAlone
\* It has had the one permit that it was owed, and no other was added.
<1>5. /\ Cardinality(Woken) = 1 /\ readerWait = 0
      /\ sval[WriterSem] = 0 /\ Cardinality(Adding(WriterSem)) = 0
  <2>1. Cardinality(Woken) > 0
    <3>1. g \in Woken /\ Woken \subseteq Goroutines
      BY <1>1 DEF Woken
    <3> QED BY <3>1, SemaAssumption, OneMoves
  <2>2. /\ sval[WriterSem] \in Nat /\ Cardinality(Woken) \in Nat /\ Cardinality(Adding(WriterSem)) \in Nat
    BY SemaNumbers, RWNumbers DEF RWInv, NumbersOK
  <2>3. sval[WriterSem] + Cardinality(Adding(WriterSem)) + Cardinality(Woken)
          = IF readerWait = 0 THEN 1 ELSE 0
    BY <1>4 DEF RWInv, ReadersAccounted, WriterOwed
  <2> QED BY ONLY <2>1, <2>2, <2>3
<1>6. r[g] = 0
  BY <1>1 DEF RWInv, RWCallInv
<1>7. r' = [r EXCEPT ![g] = 0]
  BY <1>1, <1>6 DEF RWInv, RWClientsTypeOK, RWTypeOK
<1>8. ReadersIn = 0
  BY <1>1, <1>5, <1>6 DEF RWInv, ReadersAccounted
<1>9. /\ Cardinality(Adding(WriterSem))' = 0 /\ Cardinality(Blocked)' = 0 /\ Cardinality(Woken)' = 0
  BY <1>1, <1>2, <1>4, <1>5, RWFrame
<1>10. WriterOwed'
  BY <1>1, <1>2, <1>5, <1>9 DEF WriterOwed
<1> QED BY <1>1, <1>5, <1>7, <1>8, <1>10, WriterEnters

LEMMA UnlockAnnounceKeepsInv ==
  ASSUME RWInv, NEW g \in Goroutines, UnlockAnnounce(g), UNCHANGED <<asked, late>>
  PROVE  RWInv'
<1>1. /\ rpc[g] = "unlock" /\ spc[g] = "idle" /\ asked[g] # "write"
      /\ readerCount' = readerCount + MaxReaders
      /\ UNCHANGED <<semaVars, readerWait, wHeld, asked, late>>
  BY OutsideRWSema DEF UnlockAnnounce, RWInv, RWCallInv, WUnlockPc
<1>2. UNCHANGED <<sval, spc, saddr, sflag, ticket>>
  BY <1>1 DEF semaVars
<1>3. SemaTypeOK' /\ SemaInv'
  BY <1>1, SemaUnchanged DEF RWInv
<1>4. /\ OwnsW(g) /\ Announced(g)
      /\ \A h \in Goroutines : h # g => ~OwnsW(h) /\ ~Announced(h) /\ ~Writes(h)
                                 /\ rpc[h] \notin {"announce", "await", "wwait", "unlock", "wake"}
  BY <1>1, OwnerAlone DEF OwnsW, Announced
<1>5. ReadersIn = 0 /\ readerWait = 0
  BY <1>1 DEF RWInv, ReadersAccounted
<1>6. readerCount = Cardinality(Holding) + Cardinality(Queued) + Cardinality(Uncounting) - MaxReaders
  BY <1>4 DEF RWInv, CountInv
<1>7. MaxReaders \in Nat
  BY RWAssumption
\* Those that came while the writer had the lock are those that sleep.
<1>8. /\ readerCount' = Cardinality(Asleep) /\ readerCount' < MaxReaders
      /\ Cardinality(Asleep) \in Nat /\ Permits = 0
  <2>1. Cardinality(Adding(ReaderSem)) = 0
    <3>1. \A h \in Goroutines : rpc[h] # "wake"
      BY <1>1, <1>4
    <3> QED BY <3>1, OnlyUnlockAdds
  <2>2. /\ Cardinality(Holding) = 0 /\ Cardinality(Uncounting) = 0 /\ sval[ReaderSem] = 0
        /\ Cardinality(Admitted) = 0
    BY <1>5, NobodyIn
  <2>3. /\ Cardinality(Queued) = 0 + Cardinality(Asleep) /\ Cardinality(Asleep) \in Nat
        /\ 0 + Cardinality(Queued) <= Cardinality(Goroutines)
        /\ Cardinality(Goroutines) \in Nat /\ 2 * Cardinality(Goroutines) < MaxReaders
    BY <2>2, RWNumbers DEF NumbersOK
  <2>4. Permits = 0
    BY <2>1, <2>2 DEF Permits
  <2> QED BY <1>1, <1>6, <1>7, <2>2, <2>3, <2>4
<1>9. /\ rpc' = [rpc EXCEPT ![g] = "wake"] /\ r' = [r EXCEPT ![g] = readerCount']
      /\ rpc'[g] = "wake" /\ r'[g] = readerCount'
      /\ \A h \in Goroutines : h # g => rpc'[h] = rpc[h] /\ r'[h] = r[h]
  <2>1. ~(readerCount' >= MaxReaders)
    BY <1>7, <1>8
  <2>2. rpc' = [rpc EXCEPT ![g] = "wake"] /\ r' = [r EXCEPT ![g] = readerCount']
    BY <2>1 DEF UnlockAnnounce, RWGoto
  <2> QED BY <2>2 DEF RWInv, RWClientsTypeOK, RWTypeOK
<1>10. RWClientsTypeOK'
  <2>1. readerCount' \in 0 .. MaxReaders
    BY <1>7, <1>8
  <2> QED BY <1>1, <1>7, <1>9, <2>1 DEF RWInv, RWClientsTypeOK, RWTypeOK, WUnlockPc
<1>11. RWCallInv'
  BY <1>1, <1>2, <1>9 DEF RWInv, RWCallInv, RLockPc, WLockPc, WUnlockPc, AcquirePc, ReleasePc
<1>12. \A h \in Goroutines : (Reads(h)' <=> Reads(h)) /\ (Writes(h)' <=> Writes(h))
  BY <1>1, <1>9 DEF Reads, Writes, RLockPc, WLockPc
<1>13. \A h \in Goroutines : ~Announced(h)' /\ (OwnsW(h)' <=> h = g) /\ ~Writes(h)'
  <2>1. ~Writes(g)
    BY <1>1 DEF Writes
  <2> QED BY <1>4, <1>9, <1>12, <2>1 DEF Announced, OwnsW
<1>14. WriterInv'
  <2>1. wHeld'
    BY <1>1, <1>4 DEF RWInv, WriterInv
  <2> QED BY <1>13, <2>1 DEF WriterInv
<1>15. /\ Cardinality(Holding)' = Cardinality(Holding)
       /\ Cardinality(Asleep)' = Cardinality(Asleep)
       /\ Cardinality(Queued)' = Cardinality(Queued)
       /\ Cardinality(Uncounting)' = Cardinality(Uncounting)
  BY <1>1, <1>2, <1>9, <1>12, SameNumbers
<1>16. /\ \A a : Cardinality(Adding(a))' = Cardinality(Adding(a))
       /\ Cardinality(Blocked)' = Cardinality(Blocked)
       /\ Cardinality(Woken)' = Cardinality(Woken)
  BY <1>1, <1>2, <1>9, SamePermits
<1>17. CountInv'
  <2>1. readerCount' = Cardinality(Holding)' + Cardinality(Queued)' + Cardinality(Uncounting)' - 0
    BY <1>1, <1>6, <1>7, <1>15, RWNumbers DEF NumbersOK
  <2>2. \A h \in Goroutines : rpc'[h] \notin {"depart", "await"}
    BY <1>4, <1>5, <1>9, NobodyIn
  <2> QED BY <1>13, <2>1, <2>2 DEF CountInv
<1>18. ReadersAccounted'
  <2>1. Permits' = Permits /\ WriterOwed'
    BY <1>1, <1>2, <1>16 DEF Permits, RWInv, ReadersAccounted, WriterOwed
  <2>2. Cardinality(Asleep)' = Permits' + r'[g]
    BY <1>8, <1>9, <1>15, <2>1
  <2>3. \A h \in Goroutines : rpc'[h] \notin {"await", "wwait", "unlock", "throw"} /\ (rpc'[h] = "wake" => h = g)
    BY <1>4, <1>9 DEF RWInv, ReadersAccounted
  <2> QED BY <1>1, <1>5, <1>9, <1>13, <2>1, <2>2, <2>3 DEF ReadersAccounted
<1> QED BY <1>3, <1>10, <1>11, <1>14, <1>17, <1>18 DEF RWInv

\* While the lock is being unlocked, no writer is announced.
LEMMA Unannounced ==
  ASSUME RWInv, NEW g \in Goroutines, rpc[g] = "wake"
  PROVE  /\ \A h \in Goroutines : ~Announced(h) /\ ~Writes(h)
              /\ rpc[h] \notin {"announce", "await", "wwait", "unlock", "depart", "throw"}
              /\ (OwnsW(h) <=> h = g) /\ (rpc[h] = "wake" => h = g)
         /\ wHeld
<1>1. OwnsW(g) /\ ~Announced(g) /\ asked[g] # "write"
  BY DEF OwnsW, Announced, Writes, RWInv, RWCallInv, WUnlockPc
<1>2. \A h \in Goroutines : ~Announced(h) /\ (h # g => ~OwnsW(h))
  BY <1>1, OwnerAlone
<1>3. \A h \in Goroutines : rpc[h] \notin {"await", "wwait"}
  BY <1>2 DEF Announced
<1>4. \A h \in Goroutines : rpc[h] \notin {"depart", "throw"}
  BY <1>3 DEF RWInv, CountInv, ReadersAccounted
<1>5. wHeld
  BY <1>1 DEF RWInv, WriterInv
<1> QED BY <1>1, <1>2, <1>4, <1>5 DEF Announced, OwnsW

LEMMA UnlockWakeKeepsInv ==
  ASSUME RWInv, NEW g \in Goroutines, UnlockWake(g), UNCHANGED <<asked, late>>
  PROVE  RWInv'
<1>1. /\ rpc[g] = "wake" /\ spc[g] = "idle" /\ r[g] \in Nat /\ r[g] > 0
      /\ r'[g] = r[g] - 1
      /\ \A h \in Goroutines : h # g => r'[h] = r[h]
      /\ CallSemrelease(g, ReaderSem, FALSE)
      /\ UNCHANGED <<readerCount, readerWait, wHeld, rpc, asked, late>>
  <2>1. r[g] \in 0 .. MaxReaders
    BY DEF RWInv, RWClientsTypeOK, RWTypeOK
  <2>2. r[g] \in Nat
    BY <2>1, RWAssumption
  <2> QED BY <2>2 DEF UnlockWake, CallSemrelease, Call, RWInv, RWClientsTypeOK, RWTypeOK
<1>2. SemaTypeOK' /\ SemaInv'
  BY <1>1, CallKeepsInv, RWAssumption DEF CallSemrelease, RWInv
<1>3. /\ UNCHANGED <<sval, ticket>> /\ spc'[g] = "xadd" /\ saddr'[g] = ReaderSem /\ ~sflag'[g]
      /\ \A h \in Goroutines : h # g => spc'[h] = spc[h] /\ saddr'[h] = saddr[h] /\ sflag'[h] = sflag[h]
  BY <1>1 DEF CallSemrelease, Call, RWInv, SemaTypeOK
<1>4. RWClientsTypeOK'
  <2>1. r[g] \in 0 .. MaxReaders /\ MaxReaders \in Nat
    BY RWAssumption DEF RWInv, RWClientsTypeOK, RWTypeOK
  <2>2. r[g] - 1 \in 0 .. MaxReaders
    BY <1>1, <2>1
  <2>3. r' = [r EXCEPT ![g] = r[g] - 1]
    BY DEF UnlockWake, RWInv, RWClientsTypeOK, RWTypeOK
  <2> QED BY <1>1, <2>2, <2>3 DEF RWInv, RWClientsTypeOK, RWTypeOK
<1>5. RWCallInv'
  BY <1>1, <1>3 DEF RWInv, RWCallInv, RLockPc, WLockPc, WUnlockPc, AcquirePc, ReleasePc
<1>6. \A h \in Goroutines : /\ (Reads(h)' <=> Reads(h)) /\ (Writes(h)' <=> Writes(h))
                            /\ (Announced(h)' <=> Announced(h)) /\ (OwnsW(h)' <=> OwnsW(h))
  BY <1>1 DEF Reads, Writes, Announced, OwnsW
<1>7. WriterInv'
  BY <1>1, <1>6 DEF RWInv, WriterInv
<1>8. Cardinality(Holding)' = Cardinality(Holding)
  BY <1>6 DEF Holding
<1>9. /\ Cardinality(Asleep)' = Cardinality(Asleep)
      /\ Cardinality(Queued)' = Cardinality(Queued)
      /\ Cardinality(Uncounting)' = Cardinality(Uncounting)
      /\ Cardinality(Adding(ReaderSem))' = Cardinality(Adding(ReaderSem)) + 1
      /\ Cardinality(Adding(WriterSem))' = Cardinality(Adding(WriterSem))
      /\ Cardinality(Blocked)' = Cardinality(Blocked)
      /\ Cardinality(Woken)' = Cardinality(Woken)
  BY <1>1, <1>3, RWFrame, RWNumbers, RWAssumption DEF NumbersOK
<1>10. CountInv'
  BY <1>1, <1>6, <1>8, <1>9 DEF RWInv, CountInv
<1>11. ReadersAccounted'
  <2>1. Cardinality(Asleep)' = Permits' + r'[g] /\ readerWait' = 0
    <3>1. Cardinality(Asleep) = Permits + r[g] /\ readerWait = 0
      BY <1>1 DEF RWInv, ReadersAccounted
    <3>2. Permits' = Permits + 1 /\ Permits \in Nat
      BY <1>2, <1>3, <1>9, SemaNumbers, RWNumbers DEF NumbersOK, Permits, RWInv
    <3> QED BY <1>1, <1>9, <3>1, <3>2
  <2>2. WriterOwed'
    BY <1>1, <1>3, <1>9 DEF RWInv, ReadersAccounted, WriterOwed
  <2> QED BY <1>1, <1>6, <2>1, <2>2, Unannounced DEF ReadersAccounted
<1> QED BY <1>2, <1>4, <1>5, <1>7, <1>10, <1>11 DEF RWInv

LEMMA UnlockReturnKeepsInv ==
  ASSUME RWInv, NEW g \in Goroutines, UnlockReturn(g), UNCHANGED <<asked, late>>
  PROVE  RWInv'
<1>1. /\ rpc[g] = "wake" /\ spc[g] = "idle" /\ r[g] = 0
      /\ rpc' = [rpc EXCEPT ![g] = "idle"] /\ rpc'[g] = "idle" /\ wHeld' = FALSE
      /\ \A h \in Goroutines : h # g => rpc'[h] = rpc[h]
      /\ UNCHANGED <<semaVars, readerCount, readerWait, r, asked, late>>
  BY DEF UnlockReturn, W!Release, RWGoto, RWInv, RWClientsTypeOK, RWTypeOK
<1>2. UNCHANGED <<sval, spc, saddr, sflag, ticket>>
  BY <1>1 DEF semaVars
<1>3. SemaTypeOK' /\ SemaInv'
  BY <1>1, SemaUnchanged DEF RWInv
<1>4. RWClientsTypeOK'
  BY <1>1 DEF RWInv, RWClientsTypeOK, RWTypeOK
<1>5. RWCallInv'
  BY <1>1, <1>2 DEF RWInv, RWCallInv, RLockPc, WLockPc, WUnlockPc, AcquirePc, ReleasePc
<1>6. asked[g] # "write"
  BY <1>1 DEF RWInv, RWCallInv, WUnlockPc
<1>7. \A h \in Goroutines : /\ (Reads(h)' <=> Reads(h)) /\ ~Writes(h)'
                            /\ ~Announced(h) /\ ~Announced(h)' /\ ~OwnsW(h)'
                            /\ rpc'[h] \notin {"await", "wwait", "unlock", "wake", "depart", "throw"}
  BY <1>1, <1>6, Unannounced DEF Reads, Writes, Announced, OwnsW, RLockPc
<1>8. WriterInv'
  BY <1>7 DEF WriterInv
<1>9. /\ Cardinality(Holding)' = Cardinality(Holding)
      /\ Cardinality(Asleep)' = Cardinality(Asleep)
      /\ Cardinality(Queued)' = Cardinality(Queued)
      /\ Cardinality(Uncounting)' = Cardinality(Uncounting)
  BY <1>1, <1>2, <1>7, SameNumbers
<1>10. /\ \A a : Cardinality(Adding(a))' = Cardinality(Adding(a))
       /\ Cardinality(Blocked)' = Cardinality(Blocked)
       /\ Cardinality(Woken)' = Cardinality(Woken)
  BY <1>1, <1>2, SamePermits
<1>11. CountInv'
  BY <1>1, <1>7, <1>9 DEF RWInv, CountInv
<1>12. ReadersAccounted'
  <2>1. Cardinality(Asleep) = Permits + r[g] /\ readerWait = 0
    BY <1>1 DEF RWInv, ReadersAccounted
  <2>2. Permits' = Permits /\ WriterOwed' /\ Permits \in Nat
    BY <1>1, <1>2, <1>3, <1>10, AccountTypes DEF Permits, RWInv, ReadersAccounted, WriterOwed
  <2>3. Cardinality(Asleep)' = Permits' /\ readerWait' = 0
    BY <1>1, <1>9, <2>1, <2>2
  <2> QED BY <1>7, <2>2, <2>3 DEF ReadersAccounted
<1> QED BY <1>3, <1>4, <1>5, <1>8, <1>11, <1>12 DEF RWInv

-----------------------------------------------------------------------------
(* The steps of the semaphore, and the theorems.                           *)

LEMMA RWSemaKeepsInv ==
  ASSUME RWInv, NEW g \in Goroutines, SemaStep(g), UNCHANGED <<rwVars, asked>>,
         late' \in SUBSET Goroutines
  PROVE  RWInv'
<1>1. SemaTypeOK' /\ SemaInv'
  BY SemaStepKeepsInv DEF RWInv
<1>2. UNCHANGED <<readerCount, readerWait, wHeld, rpc, r, asked>>
  BY DEF rwVars
<1>3. /\ UNCHANGED <<saddr, ticket>> /\ spc[g] # "idle"
      /\ \A h \in Goroutines :
           /\ spc'[h] \in ReleasePc => spc[h] \in ReleasePc /\ ~sflag'[h]
           /\ spc'[h] \in AcquirePc => spc[h] \in AcquirePc
           /\ h # g => /\ spc'[h] = "idle" <=> spc[h] = "idle"
                       /\ spc'[h] = "xadd" <=> spc[h] = "xadd"
      /\ \/ /\ UNCHANGED sval /\ spc[g] # "xadd" /\ spc'[g] # "xadd"
            /\ spc[g] \in AcquirePc => spc'[g] # "idle"
         \/ /\ spc[g] \in AcquirePc /\ spc'[g] = "idle" /\ sval[saddr[g]] > 0
            /\ sval' = [sval EXCEPT ![saddr[g]] = @ - 1]
         \/ /\ spc[g] = "xadd" /\ spc'[g] = "check"
            /\ sval' = [sval EXCEPT ![saddr[g]] = @ + 1]
  BY SemaEffect DEF RWInv, RWCallInv
<1>4. RWClientsTypeOK'
  BY <1>2 DEF RWInv, RWClientsTypeOK, RWTypeOK
<1>5. RWCallInv'
  BY <1>2, <1>3 DEF RWInv, RWCallInv
<1>6. \A h \in Goroutines : (Reads(h)' <=> Reads(h)) /\ (Writes(h)' <=> Writes(h))
  BY <1>2 DEF Reads, Writes
<1>7. Cardinality(Holding)' = Cardinality(Holding)
  BY <1>6 DEF Holding
<1>8. /\ sval[ReaderSem] \in Nat /\ sval[WriterSem] \in Nat /\ WriterSem # ReaderSem
      /\ sval \in [Addrs -> Nat] /\ WriterSem \in Addrs /\ ReaderSem \in Addrs
  BY SemaNumbers, RWAssumption DEF RWInv, SemaTypeOK
<1>9. /\ spc[g] \in AcquirePc => \/ rpc[g] = "rwait" /\ saddr[g] = ReaderSem
                                 \/ rpc[g] = "wwait" /\ saddr[g] = WriterSem
      /\ spc[g] \in ReleasePc => \/ rpc[g] = "rrelease" /\ saddr[g] = WriterSem
                                 \/ rpc[g] = "wake" /\ saddr[g] = ReaderSem
  BY DEF RWInv, RWCallInv
<1>10. /\ spc[g] \in AcquirePc => spc[g] # "xadd"
       /\ spc[g] \in AcquirePc \/ spc[g] \in ReleasePc
  BY <1>3 DEF AcquirePc, ReleasePc, RWInv, SemaTypeOK
<1>11. /\ Cardinality(Leaving)' = Cardinality(Leaving)
       /\ Cardinality(Queued)' = Cardinality(Queued)
       /\ Cardinality(Uncounting)' = Cardinality(Uncounting)
       /\ Cardinality(Blocked)' = Cardinality(Blocked)
  BY <1>2 DEF Leaving, Queued, Uncounting, Blocked
<1>12. /\ Cardinality(Admitted)' = Cardinality(Admitted)
              + (IF rpc[g] = "rwait" /\ spc'[g] = "idle" THEN 1 ELSE 0)
       /\ Cardinality(Asleep)' = Cardinality(Asleep)
              - (IF rpc[g] = "rwait" /\ spc'[g] = "idle" THEN 1 ELSE 0)
       /\ Cardinality(Woken)' = Cardinality(Woken)
              + (IF rpc[g] = "wwait" /\ spc'[g] = "idle" THEN 1 ELSE 0)
       /\ \A a : Cardinality(Adding(a))' = Cardinality(Adding(a))
              + (IF spc'[g] = "xadd" /\ saddr[g] = a THEN 1 ELSE 0)
              - (IF spc[g] = "xadd" /\ saddr[g] = a THEN 1 ELSE 0)
  BY <1>2, <1>3, RWFrame, RWNumbers DEF NumbersOK
<1>13. ReadersIn \in Int /\ Permits \in Int /\ readerWait \in Int /\ readerCount \in Int
         /\ ReadersIn' \in Int /\ Permits' \in Int
  BY AccountTypes, <1>1, CountSign DEF RWInv, RWClientsTypeOK, RWTypeOK
<1>14. /\ WriterOwed'
       /\ \/ ReadersIn' = ReadersIn
          \/ \A h \in Goroutines : ~Announced(h)
       /\ Cardinality(Asleep)' - Permits' = Cardinality(Asleep) - Permits
  <2>1. WriterOwed
    BY DEF RWInv, ReadersAccounted
  <2>2. CASE UNCHANGED sval /\ spc[g] # "xadd" /\ spc'[g] # "xadd" /\ (spc[g] \in AcquirePc => spc'[g] # "idle")
    <3>1. ~(rpc[g] \in {"rwait", "wwait"} /\ spc'[g] = "idle")
      BY <1>9, <1>10, <2>2
    <3> QED BY <1>2, <1>7, <1>8, <1>11, <1>12, <2>1, <2>2, <3>1, RWNumbers
            DEF NumbersOK, WriterOwed, ReadersIn, Permits
  <2>3. CASE spc[g] \in AcquirePc /\ spc'[g] = "idle" /\ sval[saddr[g]] > 0
               /\ sval' = [sval EXCEPT ![saddr[g]] = @ - 1]
    <3>1. CASE rpc[g] = "rwait" /\ saddr[g] = ReaderSem
      <4>1. sval'[ReaderSem] = sval[ReaderSem] - 1 /\ sval'[WriterSem] = sval[WriterSem]
        BY <1>8, <2>3, <3>1
      <4>2. \A a : Cardinality(Adding(a))' = Cardinality(Adding(a))
        BY <1>10, <1>12, <2>3, RWNumbers DEF NumbersOK
      <4>3. /\ Cardinality(Admitted)' = Cardinality(Admitted) + 1
            /\ Cardinality(Asleep)' = Cardinality(Asleep) - 1
            /\ Cardinality(Woken)' = Cardinality(Woken) + 0
        BY <1>12, <2>3, <3>1
      <4>4. WriterOwed'
        BY <1>2, <1>8, <1>11, <2>1, <4>1, <4>2, <4>3, RWNumbers DEF NumbersOK, WriterOwed
      <4>5. ReadersIn' = ReadersIn
        BY <1>7, <1>8, <1>11, <4>1, <4>3, RWNumbers DEF NumbersOK, ReadersIn
      <4> QED BY <1>8, <4>1, <4>2, <4>3, <4>4, <4>5, RWNumbers DEF NumbersOK, Permits
    <3>2. CASE rpc[g] = "wwait" /\ saddr[g] = WriterSem
      <4>1. sval'[WriterSem] = sval[WriterSem] - 1 /\ sval'[ReaderSem] = sval[ReaderSem]
        BY <1>8, <2>3, <3>2
      <4>2. \A a : Cardinality(Adding(a))' = Cardinality(Adding(a))
        BY <1>10, <1>12, <2>3, RWNumbers DEF NumbersOK
      <4>3. /\ Cardinality(Admitted)' = Cardinality(Admitted) + 0
            /\ Cardinality(Asleep)' = Cardinality(Asleep) - 0
            /\ Cardinality(Woken)' = Cardinality(Woken) + 1
        BY <1>12, <2>3, <3>2
      <4>4. WriterOwed'
        BY <1>2, <1>8, <1>11, <2>1, <4>1, <4>2, <4>3, RWNumbers DEF NumbersOK, WriterOwed
      <4>5. ReadersIn' = ReadersIn
        BY <1>7, <1>8, <1>11, <4>1, <4>3, RWNumbers DEF NumbersOK, ReadersIn
      <4> QED BY <1>8, <4>1, <4>2, <4>3, <4>4, <4>5, RWNumbers DEF NumbersOK, Permits
    <3> QED BY <1>9, <2>3, <3>1, <3>2
  <2>4. CASE spc[g] = "xadd" /\ spc'[g] = "check" /\ sval' = [sval EXCEPT ![saddr[g]] = @ + 1]
    <3>1. CASE rpc[g] = "rrelease" /\ saddr[g] = WriterSem
      <4>1. sval'[WriterSem] = sval[WriterSem] + 1 /\ sval'[ReaderSem] = sval[ReaderSem]
        BY <1>8, <2>4, <3>1
      <4> QED BY <1>2, <1>7, <1>8, <1>11, <1>12, <2>1, <2>4, <3>1, <4>1, RWNumbers
              DEF NumbersOK, WriterOwed, ReadersIn, Permits
    <3>2. CASE rpc[g] = "wake" /\ saddr[g] = ReaderSem
      <4>1. sval'[ReaderSem] = sval[ReaderSem] + 1 /\ sval'[WriterSem] = sval[WriterSem]
        BY <1>8, <2>4, <3>2
      <4>2. \A h \in Goroutines : ~Announced(h)
        BY <3>2, Unannounced
      <4> QED BY <1>2, <1>7, <1>8, <1>11, <1>12, <2>1, <2>4, <3>2, <4>1, <4>2, RWNumbers
              DEF NumbersOK, WriterOwed, Permits
    <3> QED BY <1>9, <1>10, <2>4, <3>1, <3>2 DEF ReleasePc
  <2> QED BY <1>3, <2>2, <2>3, <2>4
<1>15. WriterInv' /\ CountInv' /\ ReadersAccounted'
  <2>1. IF \E h \in Goroutines : Announced(h)
          THEN ReadersIn' - readerWait' = ReadersIn - readerWait
          ELSE Cardinality(Asleep)' - Permits' = Cardinality(Asleep) - Permits
    BY <1>2, <1>13, <1>14
  <2>2. readerCount' = readerCount + (Cardinality(Holding)' - Cardinality(Holding))
                                    + (Cardinality(Queued)' - Cardinality(Queued))
                                    + (Cardinality(Uncounting)' - Cardinality(Uncounting))
    BY <1>2, <1>7, <1>11, <1>13, RWNumbers DEF NumbersOK
  <2>3. readerWait' \in Int /\ readerWait' <= readerWait /\ readerWait' = readerWait
    BY <1>2, <1>13
  <2>4. UNCHANGED <<wHeld, r>> /\ \A h \in Goroutines : rpc'[h] = rpc[h]
    BY <1>2
  <2> QED BY <1>6, <1>13, <1>14, <2>1, <2>2, <2>3, <2>4, ReaderKeeps
<1> QED BY <1>1, <1>4, <1>5, <1>15 DEF RWInv

LEMMA RWInitInv == RWClientsInit => RWInv
<1> SUFFICES ASSUME RWClientsInit PROVE RWInv
  OBVIOUS
<1> USE DEF RWClientsInit
<1>1. SemaTypeOK /\ SemaInv
  BY SemaInitInv
<1>2. /\ readerCount = 0 /\ readerWait = 0 /\ wHeld = FALSE
      /\ rpc = [g \in Goroutines |-> "idle"] /\ r = [g \in Goroutines |-> 0]
      /\ asked = [g \in Goroutines |-> "none"] /\ late = {}
      /\ sval = [a \in Addrs |-> 0] /\ spc = [g \in Goroutines |-> "idle"]
      /\ ticket = [g \in Goroutines |-> FALSE]
  BY DEF RWInit, W!LockInit, SemaInit
<1> HIDE DEF RWClientsInit
<1>3. RWClientsTypeOK
  <2>1. 0 \in -MaxReaders .. MaxReaders /\ 0 \in 0 .. MaxReaders
    BY RWAssumption
  <2> QED BY <1>2, <2>1 DEF RWClientsTypeOK, RWTypeOK
<1>4. RWCallInv
  BY <1>2 DEF RWCallInv, RLockPc, WLockPc, WUnlockPc, AcquirePc, ReleasePc
<1>5. \A g \in Goroutines : ~Reads(g) /\ ~Writes(g) /\ ~Announced(g) /\ ~OwnsW(g)
  BY <1>2 DEF Reads, Writes, Announced, OwnsW
<1>6. /\ Holding = {} /\ Queued = {} /\ Uncounting = {} /\ Asleep = {} /\ Blocked = {} /\ Woken = {}
      /\ \A a : Adding(a) = {}
  BY <1>2, <1>5 DEF Holding, Queued, Uncounting, Asleep, Blocked, Woken, Adding
<1>7. Cardinality({}) = 0
  BY FS_EmptySet
<1>8. WriterInv
  BY <1>5 DEF WriterInv
<1>9. CountInv
  BY <1>2, <1>5, <1>6, <1>7 DEF CountInv
<1>10. ReadersAccounted
  <2>1. Permits = 0 /\ WriterOwed
    <3>1. sval[ReaderSem] = 0 /\ sval[WriterSem] = 0
      BY <1>2, RWAssumption
    <3> QED BY <1>2, <1>6, <1>7, <3>1 DEF Permits, WriterOwed
  <2> QED BY <1>2, <1>5, <1>6, <1>7, <2>1 DEF ReadersAccounted
<1> QED BY <1>1, <1>3, <1>4, <1>8, <1>9, <1>10 DEF RWInv

LEMMA RWNextKeepsInv == RWInv /\ [RWClientsNext]_rwClientVars => RWInv'
<1> SUFFICES ASSUME RWInv, [RWClientsNext]_rwClientVars PROVE RWInv'
  OBVIOUS
<1>1. ASSUME NEW g \in Goroutines, Read(g) \/ Write(g)
      PROVE  RWInv'
  BY <1>1, ReadKeepsInv, WriteKeepsInv
<1>2. ASSUME NEW g \in Goroutines, NEW h \in Goroutines, RWUnlock(g, h)
      PROVE  RWInv'
  BY <1>2, ReadEndKeepsInv, WriteEndKeepsInv DEF RWUnlock
<1>3. ASSUME NEW g \in Goroutines, RWStep(g), UNCHANGED <<asked, late>>
      PROVE  RWInv'
  <2>1. CASE ReaderStep(g)
    BY <1>3, <2>1, RLockAddKeepsInv, ReaderReturnKeepsInv, DepartKeepsInv DEF ReaderStep
  <2>2. CASE WriterStep(g)
    BY <1>3, <2>2, LockCompeteKeepsInv, LockAnnounceKeepsInv, LockAwaitKeepsInv, LockReturnKeepsInv,
       UnlockAnnounceKeepsInv, UnlockWakeKeepsInv, UnlockReturnKeepsInv DEF WriterStep
  <2> QED BY <1>3, <2>1, <2>2 DEF RWStep
<1>4. ASSUME NEW g \in Goroutines, SemaStep(g), UNCHANGED <<rwVars, asked>>,
             late' = IF \E h \in Goroutines : Sleeps(h) /\ ~Sleeps(h)' THEN {} ELSE late
      PROVE  RWInv'
  <2>1. late' \in SUBSET Goroutines
    BY <1>4 DEF RWInv, RWClientsTypeOK
  <2> QED BY <1>4, <2>1, RWSemaKeepsInv
<1>5. CASE UNCHANGED rwClientVars
  <2>1. UNCHANGED semaVars /\ UNCHANGED <<readerCount, readerWait, wHeld, rpc, r, asked, late>>
    BY <1>5 DEF rwClientVars, rwVars
  <2>2. UNCHANGED <<sval, spc, saddr, sflag, ticket>>
    BY <2>1 DEF semaVars
  <2>3. SemaTypeOK' /\ SemaInv'
    BY <2>1, SemaUnchanged DEF RWInv
  <2>4. RWClientsTypeOK' /\ RWCallInv'
    BY <2>1, <2>2 DEF RWInv, RWClientsTypeOK, RWTypeOK, RWCallInv
  <2>5. WriterInv' /\ CountInv' /\ ReadersAccounted'
    BY <2>1, <2>2 DEF RWInv, WriterInv, OwnsW, Announced, Writes, Reads, CountInv, ReadersAccounted,
       Holding, Queued, Uncounting, Leaving, Admitted, Asleep, Adding, Blocked, Woken,
       ReadersIn, Permits, WriterOwed
  <2> QED BY <2>3, <2>4, <2>5 DEF RWInv
<1> QED BY <1>1, <1>2, <1>3, <1>4, <1>5 DEF RWClientsNext, RWRun

\* A writer is alone: while it holds the lock no other writer and no reader does,
\* for any number of goroutines and however they come and go.
THEOREM RWWriterAlone == RWSpec => []WriterAlone
<1>1. RWInv => WriterAlone
  <2> SUFFICES ASSUME RWInv, NEW g \in Goroutines, NEW h \in Goroutines, Writes(g), g # h
               PROVE  ~Writes(h) /\ ~Reads(h)
    BY DEF WriterAlone
  <2>1. ~Writes(h)
    BY DEF RWInv, WriterInv, OwnsW, Announced
  <2>2. ReadersIn = 0
    BY DEF RWInv, ReadersAccounted
  <2> QED BY <2>1, <2>2, NobodyIn
<1> QED BY <1>1, RWInitInv, RWNextKeepsInv, PTL DEF RWSpec

\* A pending writer counts on exactly the readers that are in, is woken once when
\* they have departed, and each reader that sleeps is owed one permit.
THEOREM RWReadersAccounted == RWSpec => []ReadersAccounted
<1>1. RWInv => ReadersAccounted
  BY DEF RWInv
<1> QED BY <1>1, RWInitInv, RWNextKeepsInv, PTL DEF RWSpec

\* The types: in particular readerCount and readerWait stay within MaxReaders of
\* zero, so that they fit the 32 bits that rwmutex.go gives them.
THEOREM RWTypes == RWSpec => [](SemaTypeOK /\ RWClientsTypeOK)
<1>1. RWInv => SemaTypeOK /\ RWClientsTypeOK
  BY DEF RWInv
<1> QED BY <1>1, RWInitInv, RWNextKeepsInv, PTL DEF RWSpec

-----------------------------------------------------------------------------
(* sync.WaitGroup: the inductive invariant WGInv.                          *)

LEMMA UnitsFinite ==
  ASSUME NEW f \in [Goroutines -> Nat]
  PROVE  IsFiniteSet(Units(f)) /\ Total(f) \in Nat
<1> DEFINE row == [g \in Goroutines |-> {g} \X (1 .. f[g])]
           rows == {{g} \X (1 .. f[g]) : g \in Goroutines}
<1>1. row \in Surjection(Goroutines, rows)
  BY DEF Surjection
<1>2. IsFiniteSet(rows)
  BY <1>1, FS_Surjection, SemaAssumption
<1>3. \A g \in Goroutines : IsFiniteSet({g} \X (1 .. f[g]))
  <2> TAKE g \in Goroutines
  <2>1. f[g] \in Int
    OBVIOUS
  <2>2. IsFiniteSet({g})
    BY FS_Singleton
  <2>3. IsFiniteSet(1 .. f[g])
    BY <2>1, FS_Interval
  <2> QED BY <2>2, <2>3, FS_Product
<1>4. \A T \in rows : IsFiniteSet(T)
  BY <1>3
<1>5. IsFiniteSet(UNION rows)
  BY <1>2, <1>4, FS_UNION
<1> QED BY <1>5, FS_CardinalityType DEF Units, Total

\* The sum of a function that changes at one argument.
LEMMA TotalMoves ==
  ASSUME NEW f \in [Goroutines -> Nat], NEW e \in [Goroutines -> Nat], NEW g \in Goroutines,
         \A h \in Goroutines : h # g => e[h] = f[h]
  PROVE  Total(e) = Total(f) + e[g] - f[g] /\ f[g] <= Total(f)
<1> DEFINE rest == Units(f) \ ({g} \X (1 .. f[g]))
           part(n) == {g} \X (1 .. n)
<1>1. ASSUME NEW n \in Nat
      PROVE  IsFiniteSet(part(n)) /\ Cardinality(part(n)) = n
  <2>1. IsFiniteSet({g}) /\ Cardinality({g}) = 1
    BY FS_Singleton
  <2>2. n \in Int /\ 1 \in Int
    BY <1>1
  <2>3. IsFiniteSet(1 .. n) /\ Cardinality(1 .. n) = IF 1 > n THEN 0 ELSE n - 1 + 1
    BY <2>2, FS_Interval
  <2>4. Cardinality(1 .. n) = n
    BY <1>1, <2>3
  <2>5. /\ IsFiniteSet({g} \X (1 .. n))
        /\ Cardinality({g} \X (1 .. n)) = Cardinality({g}) * Cardinality(1 .. n)
    BY <2>1, <2>3, FS_Product
  <2>6. 1 * n = n
    BY <1>1
  <2> QED BY <2>1, <2>4, <2>5, <2>6
<1>2. IsFiniteSet(rest) /\ Cardinality(rest) \in Nat
  <2>1. IsFiniteSet(rest)
    BY UnitsFinite, FS_Difference
  <2> QED BY <2>1, FS_CardinalityType
<1>3. ASSUME NEW n \in Nat
      PROVE  Cardinality(rest \cup part(n)) = Cardinality(rest) + n
  <2>1. rest \cap part(n) = {}
    BY DEF Units
  <2>2. Cardinality(rest \cap part(n)) = 0
    BY <2>1, FS_EmptySet
  <2>3. IsFiniteSet(part(n)) /\ Cardinality(part(n)) = n
    BY <1>1, <1>3
  <2>4. Cardinality(rest \cup part(n)) = Cardinality(rest) + Cardinality(part(n)) - Cardinality(rest \cap part(n))
    BY <1>2, <2>3, FS_Union
  <2> QED BY <1>2, <1>3, <2>2, <2>3, <2>4
<1>4. Units(f) = rest \cup part(f[g])
  <2>1. part(f[g]) \subseteq Units(f)
    BY DEF Units
  <2> QED BY <2>1
<1>5. Units(e) = rest \cup part(e[g])
  <2>1. ASSUME NEW x \in Units(e)
        PROVE  x \in rest \cup part(e[g])
    <3>1. PICK h \in Goroutines : x \in {h} \X (1 .. e[h])
      BY <2>1 DEF Units
    <3> QED BY <3>1 DEF Units
  <2>2. ASSUME NEW x \in rest
        PROVE  x \in Units(e)
    <3>1. PICK h \in Goroutines : x \in {h} \X (1 .. f[h])
      BY <2>2 DEF Units
    <3>2. h # g
      BY <2>2, <3>1
    <3> QED BY <3>1, <3>2 DEF Units
  <2>3. part(e[g]) \subseteq Units(e)
    BY DEF Units
  <2> QED BY <2>1, <2>2, <2>3
<1>6. Total(f) = Cardinality(rest) + f[g] /\ Total(e) = Cardinality(rest) + e[g]
  <2>1. f[g] \in Nat /\ e[g] \in Nat
    OBVIOUS
  <2> HIDE DEF rest, part
  <2> QED BY <1>3, <1>4, <1>5, <2>1 DEF Total
<1> HIDE DEF rest
<1> QED BY <1>2, <1>6

LEMMA TotalZero ==
  ASSUME NEW f \in [Goroutines -> Nat]
  PROVE  Total(f) = 0 <=> \A g \in Goroutines : f[g] = 0
<1>1. ASSUME Total(f) = 0, NEW g \in Goroutines
      PROVE  f[g] = 0
  <2>1. f[g] <= Total(f)
    BY TotalMoves
  <2> QED BY <1>1, <2>1
<1>2. ASSUME \A g \in Goroutines : f[g] = 0
      PROVE  Total(f) = 0
  <2>1. Units(f) = {}
    BY <1>2 DEF Units
  <2> QED BY <2>1, FS_EmptySet DEF Total
<1> QED BY <1>1, <1>2

LEMMA AddedType == WGClientsTypeOK /\ WGCallInv
                     => Added \in [Goroutines -> Nat] /\ toWake \in [Goroutines -> Nat]
<1> SUFFICES ASSUME WGClientsTypeOK, WGCallInv
             PROVE  Added \in [Goroutines -> Nat] /\ toWake \in [Goroutines -> Nat]
  OBVIOUS
<1>1. ASSUME NEW g \in Goroutines
      PROVE  own[g] - (IF Adds(g) THEN delta[g] ELSE 0) \in Nat
  <2>1. own[g] \in Nat /\ delta[g] \in Int
    BY WGClientsAssumption DEF WGClientsTypeOK, WGTypeOK
  <2> QED BY <2>1 DEF WGCallInv, Adds
<1> QED BY <1>1 DEF Added, WGClientsTypeOK, WGTypeOK

LEMMA AddedTypeNext == (WGClientsTypeOK /\ WGCallInv)'
                         => (Added \in [Goroutines -> Nat] /\ toWake \in [Goroutines -> Nat])'
BY AddedType, PTL

\* The numbers that the account of waiters is made of.
LEMMA WGNumbers ==
  ASSUME WGInv
  PROVE  /\ Cardinality(Sleepers) \in Nat /\ Cardinality(Releasing) \in Nat
         /\ Cardinality(Subtracting) \in Nat
         /\ Total(Added) \in Nat /\ Total(toWake) \in Nat
         /\ sval[WaitSema] \in Nat /\ wg.waiters \in Nat /\ wg.counter \in Nat
<1>1. \A S \in SUBSET Goroutines : Cardinality(S) \in Nat
  BY SemaAssumption, FS_Subset, FS_CardinalityType
<1>2. /\ Cardinality(Sleepers) \in Nat /\ Cardinality(Releasing) \in Nat
      /\ Cardinality(Subtracting) \in Nat
  BY <1>1 DEF Sleepers, Releasing, Subtracting
<1>3. Total(Added) \in Nat /\ Total(toWake) \in Nat
  <2>1. Added \in [Goroutines -> Nat] /\ toWake \in [Goroutines -> Nat]
    BY AddedType DEF WGInv
  <2> QED BY <2>1, UnitsFinite
<1>4. sval[WaitSema] \in Nat /\ wg.waiters \in Nat
  BY WaitGroupAssumption DEF WGInv, SemaTypeOK, WGClientsTypeOK, WGTypeOK, Word
<1>5. wg.counter \in Nat
  BY <1>2, <1>3 DEF WGInv, CounterInv
<1> QED BY <1>2, <1>3, <1>4, <1>5

\* What the numbers become in a step that touches only what g does.
LEMMA WGFrame ==
  ASSUME NEW g \in Goroutines,
         \A h \in Goroutines : h # g =>
           /\ wpc'[h] = wpc[h] /\ saddr'[h] = saddr[h] /\ delta'[h] = delta[h]
           /\ spc'[h] = "idle" <=> spc[h] = "idle"
           /\ spc'[h] = "xadd" <=> spc[h] = "xadd"
  PROVE  /\ Cardinality(Sleepers)' = Cardinality(Sleepers)
                + (IF wpc'[g] = "sleep" /\ spc'[g] # "idle" THEN 1 ELSE 0)
                - (IF wpc[g] = "sleep" /\ spc[g] # "idle" THEN 1 ELSE 0)
         /\ Cardinality(Releasing)' = Cardinality(Releasing)
                + (IF spc'[g] = "xadd" /\ saddr'[g] = WaitSema THEN 1 ELSE 0)
                - (IF spc[g] = "xadd" /\ saddr[g] = WaitSema THEN 1 ELSE 0)
         /\ Cardinality(Subtracting)' = Cardinality(Subtracting)
                + (IF wpc'[g] = "add" /\ delta'[g] < 0 THEN 1 ELSE 0)
                - (IF wpc[g] = "add" /\ delta[g] < 0 THEN 1 ELSE 0)
         /\ Cardinality(Sleepers) \in Nat /\ Cardinality(Releasing) \in Nat
         /\ Cardinality(Subtracting) \in Nat
<1> DEFINE Fits(S, T) ==
             /\ Cardinality(T) = Cardinality(S) + (IF g \in T THEN 1 ELSE 0) - (IF g \in S THEN 1 ELSE 0)
             /\ Cardinality(S) \in Nat
<1>1. \A S, T \in SUBSET Goroutines : (\A h \in Goroutines : h # g => (h \in T <=> h \in S)) => Fits(S, T)
  BY SemaAssumption, OneMoves
<1> HIDE DEF Fits
<1>2. Fits(Sleepers, Sleepers') /\ Fits(Releasing, Releasing') /\ Fits(Subtracting, Subtracting')
  BY <1>1 DEF Sleepers, Releasing, Subtracting
<1>3. /\ g \in Sleepers <=> wpc[g] = "sleep" /\ spc[g] # "idle"
      /\ g \in Releasing <=> spc[g] = "xadd" /\ saddr[g] = WaitSema
      /\ g \in Subtracting <=> wpc[g] = "add" /\ delta[g] < 0
  BY DEF Sleepers, Releasing, Subtracting
<1>4. /\ g \in Sleepers' <=> wpc'[g] = "sleep" /\ spc'[g] # "idle"
      /\ g \in Releasing' <=> spc'[g] = "xadd" /\ saddr'[g] = WaitSema
      /\ g \in Subtracting' <=> wpc'[g] = "add" /\ delta'[g] < 0
  BY DEF Sleepers, Releasing, Subtracting
<1> QED BY <1>2, <1>3, <1>4 DEF Fits

\* With the counter at zero nobody is about to subtract, and who is about to add is
\* free of waiters.
LEMMA CounterAtZero ==
  ASSUME WGInv, wg.counter = 0, NEW g \in Goroutines
  PROVE  /\ ~(wpc[g] = "add" /\ delta[g] < 0)
         /\ Adds(g) => own[g] = delta[g] /\ \A h \in Goroutines : ~InWait(h)
         /\ ~Adds(g) => own[g] = 0
<1>1. Total(Added) = 0 /\ Cardinality(Subtracting) = 0
  BY WGNumbers DEF WGInv, CounterInv
<1>2. Subtracting = {}
  BY <1>1, SemaAssumption, FS_Subset, FS_EmptySet DEF Subtracting
<1>3. Added[g] = 0
  BY <1>1, AddedType, TotalZero DEF WGInv
<1>4. own[g] \in Int /\ delta[g] \in Int
  BY WGClientsAssumption DEF WGInv, WGClientsTypeOK, WGTypeOK
<1> QED BY <1>2, <1>3, <1>4 DEF Subtracting, Added, WGInv, WGCallInv

\* Whoever is owed a permit, has one or has been woken waits.
LEMMA SomebodyWaits ==
  ASSUME WGInv, \A g \in Goroutines : ~InWait(g)
  PROVE  /\ wg.waiters = 0 /\ Total(toWake) = 0 /\ sval[WaitSema] = 0 /\ Releasing = {}
<1>1. Sleepers = {}
  BY DEF Sleepers, InWait, WaitPc
<1>2. Cardinality(Sleepers) = 0
  BY <1>1, FS_EmptySet
<1>3. \A i, j, k, l \in Nat : i + j + k + l = 0 => i = 0 /\ j = 0 /\ k = 0 /\ l = 0
  OBVIOUS
<1>4. wg.waiters + Total(toWake) + Cardinality(Releasing) + sval[WaitSema] = 0
  BY <1>2 DEF WGInv, WaitersOwed
<1>5. /\ wg.waiters = 0 /\ Total(toWake) = 0 /\ Cardinality(Releasing) = 0 /\ sval[WaitSema] = 0
  BY ONLY <1>3, <1>4, WGNumbers, WGInv
<1>6. Releasing = {}
  BY <1>5, SemaAssumption, FS_Subset, FS_EmptySet DEF Releasing
<1> QED BY <1>5, <1>6

\* So while the counter is zero under waiters nobody adds or subtracts.
LEMMA NobodyAdds ==
  ASSUME WGInv, wg.counter = 0, wg.waiters # 0, NEW g \in Goroutines
  PROVE  wpc[g] # "add"
BY CounterAtZero, SomebodyWaits DEF WGInv, WGCallInv, WGClientsTypeOK, WGTypeOK, Adds

LEMMA OutsideWGSema ==
  ASSUME WGInv, NEW g \in Goroutines, wpc[g] \notin {"sleep", "release"}
  PROVE  spc[g] = "idle"
BY DEF WGInv, SemaTypeOK, WGCallInv

\* A step that leaves the word, the semaphore and those that sleep or release as
\* they are keeps the account of waiters.
LEMMA AccountKept ==
  ASSUME WGInv, NEW g \in Goroutines, UNCHANGED <<semaVars, wg, toWake>>,
         \A h \in Goroutines : h # g => wpc'[h] = wpc[h],
         wpc[g] # "sleep" \/ spc[g] = "idle",
         wpc'[g] \notin {"sleep", "panic"}
  PROVE  SemaTypeOK' /\ SemaInv' /\ RoundInv' /\ WaitersOwed'
<1>1. UNCHANGED <<sval, spc, saddr, toWake>>
  BY DEF semaVars
<1>2. SemaTypeOK' /\ SemaInv'
  BY SemaUnchanged DEF WGInv
<1>3. Sleepers' = Sleepers /\ Releasing' = Releasing
  BY <1>1 DEF Sleepers, Releasing
<1>4. RoundInv'
  BY <1>1, <1>3 DEF WGInv, RoundInv
<1>5. WaitersOwed'
  BY <1>1, <1>3 DEF WGInv, WaitersOwed
<1> QED BY <1>2, <1>4, <1>5

LEMMA StartKeepsInv ==
  ASSUME WGInv, NEW g \in Goroutines, NEW d \in 1 .. 2, Start(g, d)
  PROVE  WGInv'
<1>1. /\ wpc[g] = "idle" /\ wpc'[g] = "add" /\ delta'[g] = d /\ delta[g] \in Int
      /\ own'[g] = own[g] + d /\ own[g] \in Nat /\ d > 0 /\ d \in Int
      /\ \A h \in Goroutines : h # g => wpc'[h] = wpc[h] /\ delta'[h] = delta[h] /\ own'[h] = own[h]
      /\ UNCHANGED <<semaVars, wg, seen, toWake, zeroed>>
      /\ own[g] > 0 \/ \A h \in Goroutines : ~InWait(h)
  BY WGClientsAssumption DEF Start, CallAdd, WGGoto, WGInv, WGClientsTypeOK, WGTypeOK
<1>2. UNCHANGED <<sval, spc, saddr, sflag, ticket>>
  BY <1>1 DEF semaVars
<1>3. SemaTypeOK' /\ SemaInv' /\ RoundInv' /\ WaitersOwed'
  BY <1>1, AccountKept
<1>4. WGClientsTypeOK'
  <2>1. own' \in [Goroutines -> 0 .. MaxOwn]
    <3>1. own[g] + d \in 0 .. MaxOwn
      BY <1>1, WGClientsAssumption DEF Start
    <3> QED BY <3>1 DEF Start, WGInv, WGClientsTypeOK
  <2> QED BY <1>1, <2>1 DEF Start, CallAdd, WGGoto, WGInv, WGClientsTypeOK, WGTypeOK, AddPc
<1>5. \A h \in Goroutines : InWait(h)' <=> InWait(h)
  BY <1>1 DEF InWait, WaitPc
<1>6. \A h \in Goroutines : h # g => (Adds(h)' <=> Adds(h))
  BY <1>1 DEF Adds
<1>7. ~Adds(g) /\ Adds(g)'
  BY <1>1 DEF Adds
<1>8. WGCallInv'
  <2>1. own'[g] > delta'[g] \/ (own'[g] = delta'[g] /\ \A h \in Goroutines : ~InWait(h)')
    BY <1>1, <1>5
  <2>2. spc[g] = "idle"
    BY <1>1, OutsideWGSema
  <2>3. toWake[g] = 0
    BY <1>1 DEF WGInv, WGCallInv
  <2> QED BY <1>1, <1>2, <1>5, <1>6, <2>1, <2>2, <2>3 DEF WGInv, WGCallInv, AcquirePc, ReleasePc
<1>9. CounterInv'
  <2>1. \A h \in Goroutines : Added'[h] = Added[h]
    BY <1>1, <1>6, <1>7 DEF Added
  <2>2. Added' = Added
    BY <2>1, AddedType, AddedTypeNext, <1>4, <1>8 DEF WGInv
  <2>3. Subtracting' = Subtracting
    BY <1>1 DEF Subtracting
  <2> QED BY <1>1, <2>2, <2>3 DEF WGInv, CounterInv
<1>10. ZeroInv'
  BY <1>1, <1>5 DEF WGInv, ZeroInv
<1> QED BY <1>3, <1>4, <1>8, <1>9, <1>10 DEF WGInv

LEMMA FinishKeepsInv ==
  ASSUME WGInv, NEW g \in Goroutines, NEW k \in Goroutines, Finish(g, k)
  PROVE  WGInv'
<1>1. /\ wpc[g] = "idle" /\ wpc'[g] = "add" /\ delta'[g] = -1 /\ delta[g] \in Int
      /\ own'[k] = own[k] - 1 /\ own[k] > 0 /\ own[k] \in Nat /\ ~Adds(k)
      /\ \A h \in Goroutines : h # g => wpc'[h] = wpc[h] /\ delta'[h] = delta[h]
      /\ \A h \in Goroutines : h # k => own'[h] = own[h]
      /\ UNCHANGED <<semaVars, wg, seen, toWake, zeroed>>
  BY WGClientsAssumption DEF Finish, CallAdd, WGGoto, WGInv, WGClientsTypeOK, WGTypeOK, InAdd, AddPc, Adds
<1>2. UNCHANGED <<sval, spc, saddr, sflag, ticket>>
  BY <1>1 DEF semaVars
<1>3. SemaTypeOK' /\ SemaInv' /\ RoundInv' /\ WaitersOwed'
  BY <1>1, AccountKept
<1>4. WGClientsTypeOK'
  <2>1. own' \in [Goroutines -> 0 .. MaxOwn]
    <3>1. own[k] - 1 \in 0 .. MaxOwn
      BY <1>1, WGClientsAssumption DEF WGInv, WGClientsTypeOK
    <3> QED BY <3>1 DEF Finish, WGInv, WGClientsTypeOK
  <2> QED BY <1>1, <2>1 DEF Finish, CallAdd, WGGoto, WGInv, WGClientsTypeOK, WGTypeOK, AddPc
<1>5. \A h \in Goroutines : InWait(h)' <=> InWait(h)
  BY <1>1 DEF InWait, WaitPc
<1>6. \A h \in Goroutines : (Adds(h)' <=> Adds(h)) /\ (Adds(h) => h # g /\ h # k)
  BY <1>1 DEF Adds
<1>7. WGCallInv'
  <2>1. spc[g] = "idle" /\ toWake[g] = 0
    BY <1>1, OutsideWGSema DEF WGInv, WGCallInv
  <2> QED BY <1>1, <1>2, <1>5, <1>6, <2>1 DEF WGInv, WGCallInv, AcquirePc, ReleasePc
<1>8. CounterInv'
  <2>1. /\ \A h \in Goroutines : h # k => Added'[h] = Added[h]
        /\ Added'[k] = Added[k] - 1
    BY <1>1, <1>6 DEF Added
  <2>2. Added \in [Goroutines -> Nat] /\ Added' \in [Goroutines -> Nat]
    BY AddedType, AddedTypeNext, <1>4, <1>7 DEF WGInv
  <2>3. Total(Added') = Total(Added) + Added'[k] - Added[k] /\ Total(Added) \in Nat /\ Added[k] \in Nat
    BY <2>1, <2>2, TotalMoves, UnitsFinite
  <2>4. Total(Added') = Total(Added) - 1
    BY <2>1, <2>3
  <2>5. Cardinality(Subtracting)' = Cardinality(Subtracting) + 1 /\ Cardinality(Subtracting) \in Nat
    BY <1>1, <1>2, WGFrame
  <2>6. Total(Added)' = Total(Added')
    BY DEF Total, Units
  <2> QED BY <1>1, <2>3, <2>4, <2>5, <2>6 DEF WGInv, CounterInv
<1>9. ZeroInv'
  BY <1>1, <1>5 DEF WGInv, ZeroInv
<1> QED BY <1>3, <1>4, <1>7, <1>8, <1>9 DEF WGInv

LEMMA WaitKeepsInv ==
  ASSUME WGInv, NEW g \in Goroutines, Wait(g)
  PROVE  WGInv'
<1>1. /\ wpc[g] = "idle" /\ wpc'[g] = "load"
      /\ \A h \in Goroutines : h # g => wpc'[h] = wpc[h]
      /\ \A h \in Goroutines : Adds(h) => own[h] > delta[h]
      /\ UNCHANGED <<semaVars, wg, seen, delta, toWake, own>>
      /\ zeroed' = IF wg.counter = 0 THEN zeroed \cup {g} ELSE zeroed
  BY DEF Wait, CallWait, WGGoto, WGInv, WGClientsTypeOK, WGTypeOK, InAdd, AddPc, Adds
<1>2. UNCHANGED <<sval, spc, saddr, sflag, ticket>>
  BY <1>1 DEF semaVars
<1>3. SemaTypeOK' /\ SemaInv' /\ RoundInv' /\ WaitersOwed'
  BY <1>1, AccountKept
<1>4. WGClientsTypeOK'
  BY <1>1 DEF Wait, CallWait, WGGoto, WGInv, WGClientsTypeOK, WGTypeOK, WaitPc
<1>5. \A h \in Goroutines : h # g => (InWait(h)' <=> InWait(h))
  BY <1>1 DEF InWait
<1>6. \A h \in Goroutines : Adds(h)' <=> Adds(h)
  BY <1>1 DEF Adds
<1>7. WGCallInv'
  <2>1. spc[g] = "idle" /\ toWake[g] = 0
    BY <1>1, OutsideWGSema DEF WGInv, WGCallInv
  <2> QED BY <1>1, <1>2, <1>6, <2>1 DEF WGInv, WGCallInv, AcquirePc, ReleasePc
<1>8. CounterInv'
  <2>1. Added' = Added
    BY <1>1, <1>6 DEF Added
  <2>2. Subtracting' = Subtracting
    BY <1>1 DEF Subtracting
  <2> QED BY <1>1, <2>1, <2>2 DEF WGInv, CounterInv
<1>9. ZeroInv'
  BY <1>1, <1>5 DEF WGInv, ZeroInv
<1> QED BY <1>3, <1>4, <1>7, <1>8, <1>9 DEF WGInv

\* Those in whose Wait the counter has been zero, after a step of Add or Wait.
Zeroes == zeroed' = {h \in zeroed \cup (IF wg'.counter = 0 THEN Goroutines ELSE {}) : wpc'[h] \in WaitPc}

\* ... which therefore are all that wait, if it is zero.
LEMMA ZeroesAll ==
  ASSUME WGClientsTypeOK, Zeroes
  PROVE  /\ zeroed' \in SUBSET Goroutines
         /\ wg'.counter = 0 => \A h \in Goroutines : InWait(h)' => h \in zeroed'
BY DEF Zeroes, InWait, WGClientsTypeOK

LEMMA AddDeltaKeepsInv ==
  ASSUME WGInv, NEW g \in Goroutines, AddDelta(g), Zeroes, UNCHANGED own
  PROVE  WGInv'
<1>1. /\ wpc[g] = "add" /\ delta[g] \in Int /\ delta'[g] = 0 /\ (delta[g] = -1 \/ delta[g] > 0)
      /\ wg'.counter = wg.counter + delta[g] /\ wg'.waiters = wg.waiters
      /\ wg.counter \in Nat /\ wg.waiters \in Nat /\ wg' \in Word
      /\ \A h \in Goroutines : h # g => wpc'[h] = wpc[h] /\ delta'[h] = delta[h] /\ seen'[h] = seen[h]
      /\ UNCHANGED <<semaVars, toWake, own>>
  <2>1. wg \in Word /\ delta[g] \in Int /\ wg.counter \in Nat
    BY WGNumbers DEF WGInv, WGClientsTypeOK, WGTypeOK
  <2>2. wg' \in Word /\ wg'.counter = wg.counter + delta[g] /\ wg'.waiters = wg.waiters
    BY <2>1 DEF AddDelta, Word
  <2>3. \A h \in Goroutines : h # g => wpc'[h] = wpc[h] /\ seen'[h] = seen[h]
    BY DEF AddDelta, WGGoto, See, WGInv, WGClientsTypeOK, WGTypeOK
  <2> QED BY <2>1, <2>2, <2>3 DEF AddDelta, Word, WGInv, WGClientsTypeOK, WGTypeOK, WGCallInv
<1>2. UNCHANGED <<sval, spc, saddr, sflag, ticket>>
  BY <1>1 DEF semaVars
<1>3. /\ \A h \in Goroutines : h # g => (Adds(h)' <=> Adds(h))
      /\ ~Adds(g)' /\ (Adds(g) <=> delta[g] > 0)
  BY <1>1 DEF Adds
\* The counter afterwards.
<1>4. Total(Added') + Cardinality(Subtracting)' = wg'.counter
        /\ Total(Added') \in Nat /\ Cardinality(Subtracting)' \in Nat
  <2>1. Added \in [Goroutines -> Nat] /\ Added' \in [Goroutines -> Nat]
    <3>1. Added \in [Goroutines -> Nat]
      BY AddedType DEF WGInv
    <3>2. \A h \in Goroutines : h # g => Added'[h] = Added[h]
      BY <1>1, <1>3 DEF Added
    <3>3. Added'[g] = own[g] /\ own[g] \in Nat
      BY <1>1, <1>3, WGClientsAssumption DEF Added, WGInv, WGClientsTypeOK
    <3> QED BY <3>1, <3>2, <3>3 DEF Added
  <2>2. /\ \A h \in Goroutines : h # g => Added'[h] = Added[h]
        /\ Added'[g] = Added[g] + (IF delta[g] > 0 THEN delta[g] ELSE 0)
    <3>1. own[g] \in Int
      BY WGClientsAssumption DEF WGInv, WGClientsTypeOK
    <3> QED BY <1>1, <1>3, <3>1 DEF Added
  <2>3. Total(Added') = Total(Added) + Added'[g] - Added[g] /\ Total(Added) \in Nat /\ Added[g] \in Nat
          /\ Total(Added') \in Nat
    BY <2>1, <2>2, TotalMoves, UnitsFinite
  <2>4. Cardinality(Subtracting)' = Cardinality(Subtracting) - (IF delta[g] < 0 THEN 1 ELSE 0)
          /\ Cardinality(Subtracting) \in Nat
    BY <1>1, <1>2, WGFrame
  <2>5. Cardinality(Subtracting)' \in Nat
    BY SemaAssumption, FS_Subset, FS_CardinalityType DEF Subtracting
  <2> QED BY <1>1, <2>2, <2>3, <2>4, <2>5 DEF WGInv, CounterInv
\* Neither of the two panics.
<1>5. ~Misused(wg', delta[g])
  <2>1. wg'.counter >= 0
    BY <1>1, <1>4
  <2>2. ASSUME wg'.waiters # 0, delta[g] > 0, wg'.counter = delta[g]
        PROVE  FALSE
    <3>1. wg.counter = 0
      BY <1>1, <2>2
    <3> QED BY <1>1, <2>2, <3>1, NobodyAdds
  <2> QED BY <1>1, <2>1, <2>2 DEF Misused
<1>6. /\ wpc'[g] = IF wg'.counter > 0 \/ wg'.waiters = 0 THEN "idle" ELSE "recheck"
      /\ wpc'[g] = "recheck" => seen'[g] = wg'
      /\ wpc' = [wpc EXCEPT ![g] = wpc'[g]] /\ seen' \in [Goroutines -> Word]
  BY <1>1, <1>5 DEF AddDelta, WGGoto, See, WGInv, WGClientsTypeOK, WGTypeOK
<1>7. wpc'[g] \in {"idle", "recheck"}
  BY <1>6
<1>8. SemaTypeOK' /\ SemaInv'
  BY <1>1, SemaUnchanged DEF WGInv
<1>9. WGClientsTypeOK'
  <2>1. wpc' \in [Goroutines -> {"idle", "panic"} \cup AddPc \cup WaitPc]
    BY <1>6, <1>7 DEF WGInv, WGClientsTypeOK, WGTypeOK, AddPc
  <2>2. delta' \in [Goroutines -> Int]
    BY DEF AddDelta, WGInv, WGClientsTypeOK, WGTypeOK
  <2> QED BY <1>1, <1>6, <2>1, <2>2, ZeroesAll DEF WGInv, WGClientsTypeOK, WGTypeOK
<1>10. \A h \in Goroutines : InWait(h)' <=> InWait(h)
  BY <1>1, <1>7 DEF InWait, WaitPc
<1>11. WGCallInv'
  <2>1. spc[g] = "idle" /\ toWake[g] = 0
    BY <1>1, OutsideWGSema DEF WGInv, WGCallInv
  <2> QED BY <1>1, <1>2, <1>3, <1>7, <1>10, <2>1 DEF WGInv, WGCallInv, AcquirePc, ReleasePc
<1>12. CounterInv'
  <2>1. Total(Added)' = Total(Added')
    BY DEF Total, Units
  <2> QED BY <1>4, <2>1 DEF CounterInv
\* It alone has brought the counter to zero.
<1>13. \A h \in Goroutines : wpc[h] \notin {"recheck", "reset"}
  <2>1. ASSUME NEW h \in Goroutines, wpc[h] \in {"recheck", "reset"}
        PROVE  FALSE
    <3>1. wg.counter = 0 /\ wg.waiters # 0
      BY <2>1 DEF WGInv, ZeroInv
    <3> QED BY <1>1, <3>1, NobodyAdds
  <2> QED BY <2>1
<1>14. ZeroInv'
  <2>1. wpc'[g] = "recheck" => wg' = seen'[g] /\ wg'.counter = 0 /\ wg'.waiters # 0
    BY <1>1, <1>4, <1>6
  <2>2. \A h \in Goroutines : wpc'[h] \in {"recheck", "reset"} => h = g /\ wpc'[g] = "recheck"
    BY <1>1, <1>7, <1>13
  <2>3. wg'.counter = 0 => \A h \in Goroutines : InWait(h)' => h \in zeroed'
    BY ZeroesAll DEF WGInv
  <2> QED BY <2>1, <2>2, <2>3 DEF ZeroInv
<1>15. Sleepers' = Sleepers /\ Releasing' = Releasing /\ \A h \in Goroutines : wpc'[h] = "sleep" <=> wpc[h] = "sleep"
  BY <1>1, <1>2, <1>7 DEF Sleepers, Releasing
<1>16. RoundInv'
  <2>1. CASE wg # Zero
    BY <1>1, <1>2, <1>15, <2>1 DEF WGInv, RoundInv
  <2>2. CASE wg = Zero
    <3>1. wg.counter = 0
      BY <2>2 DEF Zero
    <3>2. \A h \in Goroutines : ~InWait(h)
      BY <1>1, <3>1, CounterAtZero DEF Adds
    <3>3. \A h \in Goroutines : wpc'[h] # "sleep"
      BY <1>15, <3>2 DEF InWait, WaitPc
    <3>4. Total(toWake) = 0 /\ sval[WaitSema] = 0 /\ Releasing = {}
      BY <3>2, SomebodyWaits
    <3> QED BY <1>1, <1>2, <1>15, <3>3, <3>4 DEF RoundInv
  <2> QED BY <2>1, <2>2
<1>17. WaitersOwed'
  <2>1. \A h \in Goroutines : wpc'[h] # "panic"
    BY <1>1, <1>7 DEF WGInv, WaitersOwed
  <2> QED BY <1>1, <1>2, <1>15, <2>1 DEF WGInv, WaitersOwed
<1> QED BY <1>8, <1>9, <1>11, <1>12, <1>14, <1>16, <1>17 DEF WGInv

\* The steps that only look at the word, and the returns.
LEMMA LookKeepsInv ==
  ASSUME WGInv, NEW g \in Goroutines, Zeroes, UNCHANGED own,
         \/ AddRecheck(g) \/ AddReturn(g) \/ WaitLoad(g) \/ WaitReturn(g)
         \/ WaitSwap(g) /\ wg # seen[g]
  PROVE  WGInv'
<1>1. /\ wpc[g] \in {"recheck", "release", "load", "sleep", "cas"}
      /\ wpc[g] \in {"release", "sleep"} => spc[g] = "idle"
      /\ wpc[g] = "release" => toWake[g] = 0
      /\ \A h \in Goroutines : h # g => wpc'[h] = wpc[h] /\ seen'[h] = seen[h]
      /\ UNCHANGED <<semaVars, wg, delta, toWake, own>>
      /\ wpc' = [wpc EXCEPT ![g] = wpc'[g]] /\ seen' \in [Goroutines -> Word]
  <2>1. Zero \in Word
    BY DEF Zero, Word
  <2> QED BY <2>1 DEF AddRecheck, AddReturn, WaitLoad, WaitReturn, WaitSwap, WGGoto, See,
                      WGInv, WGClientsTypeOK, WGTypeOK
\* Nothing that would panic is found.
<1>2. /\ wpc'[g] \in {"reset", "idle", "cas", "load"}
      /\ wpc'[g] = "reset" => wpc[g] = "recheck" /\ seen'[g] = seen[g]
      /\ wpc'[g] = "cas" => seen'[g].counter # 0 /\ wpc[g] = "load"
      /\ wpc'[g] = "load" => wpc[g] = "cas"
  <2>1. CASE AddRecheck(g)
    <3>1. wg = seen[g]
      BY <2>1 DEF AddRecheck, WGInv, ZeroInv
    <3> QED BY <2>1, <3>1 DEF AddRecheck, WGGoto, WGInv, WGClientsTypeOK, WGTypeOK
  <2>2. CASE WaitReturn(g)
    <3>1. wg = Zero
      BY <2>2 DEF WaitReturn, WGInv, RoundInv
    <3> QED BY <2>2, <3>1 DEF WaitReturn, WGGoto, WGInv, WGClientsTypeOK, WGTypeOK
  <2>3. CASE WaitLoad(g)
    BY <2>3 DEF WaitLoad, WGGoto, See, WGInv, WGClientsTypeOK, WGTypeOK
  <2>4. CASE AddReturn(g) \/ (WaitSwap(g) /\ wg # seen[g])
    BY <2>4 DEF AddReturn, WaitSwap, WGGoto, WGInv, WGClientsTypeOK, WGTypeOK
  <2> QED BY <2>1, <2>2, <2>3, <2>4
<1>3. UNCHANGED <<sval, spc, saddr, sflag, ticket>>
  BY <1>1 DEF semaVars
<1>4. SemaTypeOK' /\ SemaInv' /\ RoundInv' /\ WaitersOwed'
  BY <1>1, <1>2, AccountKept
<1>5. WGClientsTypeOK'
  <2>1. wpc' \in [Goroutines -> {"idle", "panic"} \cup AddPc \cup WaitPc]
    BY <1>1, <1>2 DEF WGInv, WGClientsTypeOK, WGTypeOK, AddPc, WaitPc
  <2> QED BY <1>1, <2>1, ZeroesAll DEF WGInv, WGClientsTypeOK, WGTypeOK
<1>6. \A h \in Goroutines : InWait(h)' => InWait(h)
  BY <1>1, <1>2 DEF InWait, WaitPc
<1>7. \A h \in Goroutines : Adds(h)' <=> Adds(h)
  BY <1>1, <1>2 DEF Adds
<1>8. WGCallInv'
  <2>1. spc[g] = "idle" /\ toWake[g] = 0
    BY <1>1, OutsideWGSema DEF WGInv, WGCallInv
  <2> QED BY <1>1, <1>2, <1>3, <1>6, <1>7, <2>1 DEF WGInv, WGCallInv, AcquirePc, ReleasePc
<1>9. CounterInv'
  <2>1. Added' = Added
    BY <1>1, <1>7 DEF Added
  <2>2. Subtracting' = Subtracting
    BY <1>1, <1>2 DEF Subtracting
  <2> QED BY <1>1, <2>1, <2>2 DEF WGInv, CounterInv
<1>10. ZeroInv'
  <2>1. wg'.counter = 0 => \A h \in Goroutines : InWait(h)' => h \in zeroed'
    BY ZeroesAll DEF WGInv
  <2>2. \A h \in Goroutines : wpc'[h] \in {"recheck", "reset"} => wpc[h] \in {"recheck", "reset"} /\ seen'[h] = seen[h]
    BY <1>1, <1>2
  <2> QED BY <1>1, <2>1, <2>2 DEF WGInv, ZeroInv
<1> QED BY <1>4, <1>5, <1>8, <1>9, <1>10 DEF WGInv

LEMMA AddResetKeepsInv ==
  ASSUME WGInv, NEW g \in Goroutines, AddReset(g), Zeroes, UNCHANGED own
  PROVE  WGInv'
<1>1. /\ wpc[g] = "reset" /\ wpc'[g] = "release" /\ wg' = Zero
      /\ wg = seen[g] /\ wg.counter = 0 /\ wg.waiters # 0
      /\ toWake'[g] = wg.waiters /\ wg.waiters \in Nat
      /\ \A h \in Goroutines : h # g =>
           /\ wpc'[h] = wpc[h] /\ seen'[h] = seen[h] /\ toWake'[h] = toWake[h]
           /\ wpc[h] \notin {"recheck", "reset"}
      /\ UNCHANGED <<semaVars, delta, own>>
  BY WGNumbers DEF AddReset, WGGoto, See, WGInv, WGClientsTypeOK, WGTypeOK, ZeroInv
<1>2. UNCHANGED <<sval, spc, saddr, sflag, ticket>>
  BY <1>1 DEF semaVars
<1>3. SemaTypeOK' /\ SemaInv'
  BY <1>1, SemaUnchanged DEF WGInv
<1>4. WGClientsTypeOK'
  <2>1. Zero \in Word
    BY DEF Zero, Word
  <2>2. toWake' \in [Goroutines -> Nat]
    BY <1>1 DEF AddReset, WGInv, WGClientsTypeOK, WGTypeOK
  <2> QED BY <1>1, <2>1, <2>2, ZeroesAll
          DEF AddReset, WGGoto, See, WGInv, WGClientsTypeOK, WGTypeOK, AddPc
<1>5. \A h \in Goroutines : (InWait(h)' <=> InWait(h)) /\ (Adds(h)' <=> Adds(h))
  BY <1>1 DEF InWait, Adds, WaitPc
<1>6. WGCallInv'
  <2>1. spc[g] = "idle"
    BY <1>1, OutsideWGSema
  <2> QED BY <1>1, <1>2, <1>5, <2>1 DEF WGInv, WGCallInv, AcquirePc, ReleasePc
<1>7. CounterInv'
  <2>1. Added' = Added
    BY <1>1, <1>5 DEF Added
  <2>2. Subtracting' = Subtracting
    BY <1>1 DEF Subtracting
  <2> QED BY <1>1, <2>1, <2>2 DEF WGInv, CounterInv, Zero
<1>8. ZeroInv'
  <2>1. wg'.counter = 0 => \A h \in Goroutines : InWait(h)' => h \in zeroed'
    BY ZeroesAll DEF WGInv
  <2>2. \A h \in Goroutines : wpc'[h] \notin {"recheck", "reset"}
    BY <1>1
  <2> QED BY <2>1, <2>2 DEF ZeroInv
<1>9. RoundInv'
  BY <1>1 DEF RoundInv
\* What the word owed is what is released now.
<1>10. WaitersOwed'
  <2>1. toWake[g] = 0 /\ Total(toWake) = 0
    <3>1. wg # Zero
      BY <1>1 DEF Zero
    <3> QED BY <3>1, TotalZero, AddedType DEF WGInv, RoundInv
  <2>2. toWake \in [Goroutines -> Nat] /\ toWake' \in [Goroutines -> Nat]
    BY <1>4 DEF WGInv, WGClientsTypeOK, WGTypeOK
  <2>3. Total(toWake') = Total(toWake) + toWake'[g] - toWake[g]
    BY <1>1, <2>2, TotalMoves
  <2>4. Total(toWake)' = Total(toWake')
    BY DEF Total, Units
  <2>5. Sleepers' = Sleepers /\ Releasing' = Releasing
    BY <1>1, <1>2 DEF Sleepers, Releasing
  <2>6. wg'.waiters = 0
    BY <1>1 DEF Zero
  <2>7. \A h \in Goroutines : wpc'[h] # "panic"
    BY <1>1 DEF WGInv, WaitersOwed
  <2>8. Total(toWake') = wg.waiters
    BY <1>1, <2>1, <2>3
  <2>9. Cardinality(Sleepers) = 0 + wg.waiters + Cardinality(Releasing) + sval[WaitSema]
    BY <1>1, <2>1, WGNumbers DEF WGInv, WaitersOwed
  <2> QED BY <1>2, <2>4, <2>5, <2>6, <2>7, <2>8, <2>9 DEF WaitersOwed
<1> QED BY <1>3, <1>4, <1>6, <1>7, <1>8, <1>9, <1>10 DEF WGInv

LEMMA AddReleaseKeepsInv ==
  ASSUME WGInv, NEW g \in Goroutines, AddRelease(g), Zeroes, UNCHANGED own
  PROVE  WGInv'
<1>1. /\ wpc[g] = "release" /\ toWake[g] # 0 /\ toWake[g] \in Nat /\ spc[g] = "idle"
      /\ toWake'[g] = toWake[g] - 1
      /\ \A h \in Goroutines : h # g => toWake'[h] = toWake[h]
      /\ CallSemrelease(g, WaitSema, FALSE)
      /\ UNCHANGED <<wg, wpc, seen, delta, own>>
  BY DEF AddRelease, CallSemrelease, Call, WGInv, WGClientsTypeOK, WGTypeOK
<1>2. /\ UNCHANGED <<sval, ticket>> /\ spc'[g] = "xadd" /\ saddr'[g] = WaitSema /\ ~sflag'[g]
      /\ \A h \in Goroutines : h # g => spc'[h] = spc[h] /\ saddr'[h] = saddr[h] /\ sflag'[h] = sflag[h]
  BY <1>1, WaitGroupAssumption DEF CallSemrelease, Call, WGInv, SemaTypeOK
<1>3. SemaTypeOK' /\ SemaInv'
  BY <1>1, CallKeepsInv, WaitGroupAssumption DEF CallSemrelease, WGInv
<1>4. WGClientsTypeOK'
  <2>1. toWake' \in [Goroutines -> Nat]
    BY <1>1 DEF AddRelease, WGInv, WGClientsTypeOK, WGTypeOK
  <2> QED BY <1>1, <2>1, ZeroesAll DEF WGInv, WGClientsTypeOK, WGTypeOK
<1>5. \A h \in Goroutines : (InWait(h)' <=> InWait(h)) /\ (Adds(h)' <=> Adds(h))
  BY <1>1 DEF InWait, Adds
<1>6. WGCallInv'
  BY <1>1, <1>2, <1>5 DEF WGInv, WGCallInv, AcquirePc, ReleasePc
<1>7. CounterInv'
  <2>1. Added' = Added
    BY <1>1, <1>5 DEF Added
  <2>2. Subtracting' = Subtracting
    BY <1>1 DEF Subtracting
  <2> QED BY <1>1, <2>1, <2>2 DEF WGInv, CounterInv
<1>8. ZeroInv'
  <2>1. wg'.counter = 0 => \A h \in Goroutines : InWait(h)' => h \in zeroed'
    BY ZeroesAll DEF WGInv
  <2> QED BY <1>1, <2>1 DEF WGInv, ZeroInv
<1>9. wg = Zero
  <2>1. Total(toWake) # 0
    BY <1>1, TotalZero, AddedType DEF WGInv
  <2> QED BY <2>1 DEF WGInv, RoundInv
<1>10. RoundInv'
  BY <1>1, <1>9 DEF RoundInv
<1>11. WaitersOwed'
  <2>1. toWake \in [Goroutines -> Nat] /\ toWake' \in [Goroutines -> Nat]
    BY <1>4 DEF WGInv, WGClientsTypeOK, WGTypeOK
  <2>2. Total(toWake') = Total(toWake) + toWake'[g] - toWake[g] /\ Total(toWake) \in Nat
    BY <1>1, <2>1, TotalMoves, UnitsFinite
  <2>3. Total(toWake)' = Total(toWake')
    BY DEF Total, Units
  <2>4. Cardinality(Sleepers)' = Cardinality(Sleepers) /\ Cardinality(Releasing)' = Cardinality(Releasing) + 1
    BY <1>1, <1>2, WGFrame
  <2>5. \A h \in Goroutines : wpc'[h] # "panic"
    BY <1>1 DEF WGInv, WaitersOwed
  <2>6. Total(toWake') = Total(toWake) - 1
    BY <1>1, <2>2
  <2> QED BY <1>1, <1>2, <2>2, <2>3, <2>4, <2>5, <2>6, WGNumbers DEF WGInv, WaitersOwed
<1> QED BY <1>3, <1>4, <1>6, <1>7, <1>8, <1>10, <1>11 DEF WGInv

\* The swap that adds a waiter, which goes to sleep.
LEMMA JoinKeepsInv ==
  ASSUME WGInv, NEW g \in Goroutines, WaitSwap(g), wg = seen[g], Zeroes, UNCHANGED own
  PROVE  WGInv'
<1>1. /\ wpc[g] = "cas" /\ wpc'[g] = "sleep" /\ spc[g] = "idle"
      /\ wg'.counter = wg.counter /\ wg.counter # 0 /\ wg'.waiters = wg.waiters + 1
      /\ wg.waiters \in Nat /\ wg' \in Word
      /\ \A h \in Goroutines : h # g => wpc'[h] = wpc[h] /\ seen'[h] = seen[h]
      /\ CallSemacquire(g, WaitSema, FALSE)
      /\ UNCHANGED <<delta, toWake, own>>
  <2>1. wg \in Word
    BY DEF WGInv, WGClientsTypeOK, WGTypeOK
  <2>2. wg' = [wg EXCEPT !.waiters = @ + 1]
    BY DEF WaitSwap
  <2>3. wg' \in Word /\ wg'.counter = wg.counter /\ wg'.waiters = wg.waiters + 1 /\ wg.waiters \in Nat
    BY <2>1, <2>2 DEF Word
  <2>4. wg.counter # 0
    BY DEF WaitSwap, WGInv, WGCallInv
  <2> QED BY <2>3, <2>4 DEF WaitSwap, WGGoto, See, CallSemacquire, Call, WGInv, WGClientsTypeOK, WGTypeOK
<1>2. /\ UNCHANGED <<sval, ticket>> /\ spc'[g] = "easy" /\ saddr'[g] = WaitSema
      /\ \A h \in Goroutines : h # g => spc'[h] = spc[h] /\ saddr'[h] = saddr[h] /\ sflag'[h] = sflag[h]
  BY <1>1, WaitGroupAssumption DEF CallSemacquire, Call, WGInv, SemaTypeOK
<1>3. SemaTypeOK' /\ SemaInv'
  BY <1>1, CallKeepsInv, WaitGroupAssumption DEF CallSemacquire, WGInv
<1>4. WGClientsTypeOK'
  <2>1. Zero \in Word
    BY DEF Zero, Word
  <2> QED BY <1>1, <2>1, ZeroesAll
          DEF WaitSwap, WGGoto, See, WGInv, WGClientsTypeOK, WGTypeOK, WaitPc
<1>5. \A h \in Goroutines : (InWait(h)' <=> InWait(h)) /\ (Adds(h)' <=> Adds(h))
  BY <1>1 DEF InWait, Adds, WaitPc
<1>6. WGCallInv'
  <2>1. toWake[g] = 0
    BY <1>1 DEF WGInv, WGCallInv
  <2> QED BY <1>1, <1>2, <1>5, <2>1 DEF WGInv, WGCallInv, AcquirePc, ReleasePc
<1>7. CounterInv'
  <2>1. Added' = Added
    BY <1>1, <1>5 DEF Added
  <2>2. Subtracting' = Subtracting
    BY <1>1 DEF Subtracting
  <2> QED BY <1>1, <2>1, <2>2 DEF WGInv, CounterInv
<1>8. ZeroInv'
  <2>1. \A h \in Goroutines : wpc'[h] \notin {"recheck", "reset"}
    BY <1>1 DEF WGInv, ZeroInv
  <2> QED BY <1>1, <2>1 DEF ZeroInv
<1>9. RoundInv'
  <2>1. wg # Zero
    BY <1>1 DEF Zero
  <2>2. Releasing' = Releasing
    BY <1>1, <1>2 DEF Releasing
  <2> QED BY <1>1, <1>2, <2>1, <2>2 DEF WGInv, RoundInv
<1>10. WaitersOwed'
  <2>1. Cardinality(Sleepers)' = Cardinality(Sleepers) + 1 /\ Cardinality(Releasing)' = Cardinality(Releasing)
    BY <1>1, <1>2, WGFrame, WGNumbers
  <2>2. \A h \in Goroutines : wpc'[h] # "panic"
    BY <1>1 DEF WGInv, WaitersOwed
  <2>3. Total(toWake)' = Total(toWake)
    BY <1>1
  <2> QED BY <1>1, <1>2, <2>1, <2>2, <2>3, WGNumbers DEF WGInv, WaitersOwed
<1> QED BY <1>3, <1>4, <1>6, <1>7, <1>8, <1>9, <1>10 DEF WGInv

LEMMA WGSemaKeepsInv ==
  ASSUME WGInv, NEW g \in Goroutines, SemaStep(g), UNCHANGED <<wgVars, own, zeroed>>
  PROVE  WGInv'
<1>1. SemaTypeOK' /\ SemaInv'
  BY SemaStepKeepsInv DEF WGInv
<1>2. UNCHANGED <<wg, wpc, seen, delta, toWake, own, zeroed>>
  BY DEF wgVars
<1>3. /\ UNCHANGED <<saddr, ticket>> /\ spc[g] # "idle"
      /\ \A h \in Goroutines :
           /\ spc'[h] \in ReleasePc => spc[h] \in ReleasePc /\ ~sflag'[h]
           /\ spc'[h] \in AcquirePc => spc[h] \in AcquirePc
           /\ h # g => /\ spc'[h] = "idle" <=> spc[h] = "idle"
                       /\ spc'[h] = "xadd" <=> spc[h] = "xadd"
      /\ \/ /\ UNCHANGED sval /\ spc[g] # "xadd" /\ spc'[g] # "xadd"
            /\ spc[g] \in AcquirePc => spc'[g] # "idle"
         \/ /\ spc[g] \in AcquirePc /\ spc'[g] = "idle" /\ sval[saddr[g]] > 0
            /\ sval' = [sval EXCEPT ![saddr[g]] = @ - 1]
         \/ /\ spc[g] = "xadd" /\ spc'[g] = "check"
            /\ sval' = [sval EXCEPT ![saddr[g]] = @ + 1]
  BY SemaEffect DEF WGInv, WGCallInv
<1>4. WGClientsTypeOK'
  BY <1>2 DEF WGInv, WGClientsTypeOK, WGTypeOK
<1>5. \A h \in Goroutines : (InWait(h)' <=> InWait(h)) /\ (Adds(h)' <=> Adds(h))
  BY <1>2 DEF InWait, Adds
<1>6. WGCallInv'
  BY <1>2, <1>3, <1>5 DEF WGInv, WGCallInv
<1>7. CounterInv'
  <2>1. Added' = Added /\ Subtracting' = Subtracting
    BY <1>2, <1>5 DEF Added, Subtracting
  <2> QED BY <1>2, <2>1 DEF WGInv, CounterInv
<1>8. ZeroInv'
  BY <1>2, <1>5 DEF WGInv, ZeroInv
<1>9. /\ spc[g] \in AcquirePc => spc[g] # "xadd" /\ wpc[g] = "sleep" /\ saddr[g] = WaitSema
      /\ spc[g] \in ReleasePc => wpc[g] = "release" /\ saddr[g] = WaitSema
      /\ spc[g] \in AcquirePc \/ spc[g] \in ReleasePc
  BY <1>3 DEF AcquirePc, ReleasePc, WGInv, WGCallInv, SemaTypeOK
<1>10. /\ sval[WaitSema] \in Nat /\ sval \in [Addrs -> Nat] /\ WaitSema \in Addrs
       /\ spc[g] = "xadd" => spc[g] \in ReleasePc
  BY WGNumbers, WaitGroupAssumption DEF WGInv, SemaTypeOK, ReleasePc
<1>11. /\ Cardinality(Sleepers)' = Cardinality(Sleepers)
                + (IF wpc'[g] = "sleep" /\ spc'[g] # "idle" THEN 1 ELSE 0)
                - (IF wpc[g] = "sleep" /\ spc[g] # "idle" THEN 1 ELSE 0)
       /\ Cardinality(Releasing)' = Cardinality(Releasing)
                + (IF spc'[g] = "xadd" /\ saddr'[g] = WaitSema THEN 1 ELSE 0)
                - (IF spc[g] = "xadd" /\ saddr[g] = WaitSema THEN 1 ELSE 0)
       /\ Cardinality(Sleepers) \in Nat /\ Cardinality(Releasing) \in Nat
  BY <1>2, <1>3, WGFrame
<1>12. Cardinality(Sleepers)' = Cardinality(Releasing)' + sval'[WaitSema] + wg.waiters + Total(toWake)
  <2>1. Cardinality(Sleepers) = wg.waiters + Total(toWake) + Cardinality(Releasing) + sval[WaitSema]
    BY DEF WGInv, WaitersOwed
  <2>2. CASE UNCHANGED sval /\ spc[g] # "xadd" /\ spc'[g] # "xadd" /\ (spc[g] \in AcquirePc => spc'[g] # "idle")
    BY <1>2, <1>3, <1>9, <1>10, <1>11, <2>1, <2>2, WGNumbers
  <2>3. CASE spc[g] \in AcquirePc /\ spc'[g] = "idle" /\ sval[saddr[g]] > 0
               /\ sval' = [sval EXCEPT ![saddr[g]] = @ - 1]
    <3>1. sval'[WaitSema] = sval[WaitSema] - 1
      BY <1>9, <1>10, <2>3
    <3> QED BY <1>2, <1>3, <1>9, <1>10, <1>11, <2>1, <2>3, <3>1, WGNumbers
  <2>4. CASE spc[g] = "xadd" /\ spc'[g] = "check" /\ sval' = [sval EXCEPT ![saddr[g]] = @ + 1]
    <3>1. sval'[WaitSema] = sval[WaitSema] + 1
      BY <1>9, <1>10, <2>4
    <3> QED BY <1>2, <1>3, <1>9, <1>10, <1>11, <2>1, <2>4, <3>1, WGNumbers
  <2> QED BY <1>3, <2>2, <2>3, <2>4
<1>13. WaitersOwed'
  <2>1. Cardinality(Sleepers)' \in Nat /\ Cardinality(Releasing)' \in Nat
    BY SemaAssumption, FS_Subset, FS_CardinalityType DEF Sleepers, Releasing
  <2>2. sval'[WaitSema] \in Nat
    BY <1>1, <1>10 DEF SemaTypeOK
  <2>3. wg'.waiters = wg.waiters /\ Total(toWake)' = Total(toWake) /\ \A h \in Goroutines : wpc'[h] # "panic"
    BY <1>2 DEF WGInv, WaitersOwed
  <2>4. Cardinality(Sleepers)' = wg'.waiters + Total(toWake)' + Cardinality(Releasing)' + sval'[WaitSema]
    BY <1>12, <2>1, <2>2, <2>3, WGNumbers
  <2> QED BY <2>3, <2>4 DEF WaitersOwed
\* While the word counts somebody no permit comes or goes.
<1>14. RoundInv'
  <2> SUFFICES ASSUME wg # Zero
               PROVE  /\ Total(toWake) = 0 /\ sval'[WaitSema] = 0 /\ Releasing' = {}
                      /\ \A h \in Goroutines : wpc[h] = "sleep" => spc'[h] # "idle"
    BY <1>2 DEF RoundInv
  <2>1. /\ Total(toWake) = 0 /\ sval[WaitSema] = 0 /\ Releasing = {}
        /\ \A h \in Goroutines : wpc[h] = "sleep" => spc[h] # "idle"
    BY DEF WGInv, RoundInv
  <2>2. spc[g] # "xadd"
    BY <1>9, <1>10, <2>1 DEF Releasing
  <2>3. UNCHANGED sval /\ spc'[g] # "xadd" /\ (spc[g] \in AcquirePc => spc'[g] # "idle")
    BY <1>3, <1>9, <2>1, <2>2
  <2>4. Releasing' = {}
    BY <1>3, <2>1, <2>3 DEF Releasing
  <2>5. ASSUME NEW h \in Goroutines, wpc[h] = "sleep"
        PROVE  spc'[h] # "idle"
    BY <1>3, <1>9, <2>1, <2>3, <2>5
  <2> QED BY <2>1, <2>3, <2>4, <2>5
<1> QED BY <1>1, <1>4, <1>6, <1>7, <1>8, <1>13, <1>14 DEF WGInv

LEMMA WGInitInv == WGClientsInit => WGInv
<1> SUFFICES ASSUME WGClientsInit
             PROVE  WGInv
  OBVIOUS
<1>1. SemaTypeOK /\ SemaInv
  BY SemaInitInv DEF WGClientsInit
<1>2. /\ wg = Zero /\ zeroed = {} /\ sval \in [Addrs -> Nat]
      /\ \A g \in Goroutines : /\ wpc[g] = "idle" /\ toWake[g] = 0 /\ own[g] = 0
                               /\ spc[g] = "idle" /\ ~ticket[g]
  BY <1>1 DEF WGClientsInit, WGInit, SemaInit, SemaTypeOK
<1>3. WGClientsTypeOK
  <2>1. Zero \in Word
    BY DEF Zero, Word
  <2> QED BY <2>1, WGClientsAssumption DEF WGClientsInit, WGInit, WGClientsTypeOK, WGTypeOK
<1>4. WGCallInv
  BY <1>2 DEF WGCallInv, AcquirePc, ReleasePc, Adds
<1>5. Total(Added) = 0 /\ Total(toWake) = 0
  <2>1. \A g \in Goroutines : Added[g] = 0
    <3>1. \A g \in Goroutines : own[g] = 0 /\ ~Adds(g)
      BY <1>2 DEF Adds
    <3>2. \A g \in Goroutines : Added[g] = own[g] - (IF Adds(g) THEN delta[g] ELSE 0)
      BY DEF Added
    <3>3. ASSUME NEW g \in Goroutines
          PROVE  Added[g] = 0
      <4>1. Added[g] = 0 - 0
        BY <3>1, <3>2
      <4> QED BY <4>1
    <3> QED BY <3>3
  <2> QED BY <1>2, <1>3, <1>4, <2>1, AddedType, TotalZero
<1>6. Cardinality(Subtracting) = 0 /\ Cardinality(Sleepers) = 0 /\ Cardinality(Releasing) = 0 /\ Releasing = {}
  <2>1. Subtracting = {} /\ Sleepers = {} /\ Releasing = {}
    BY <1>2 DEF Subtracting, Sleepers, Releasing
  <2> QED BY <2>1, FS_EmptySet
<1>7. CounterInv /\ ZeroInv
  BY <1>2, <1>5, <1>6 DEF CounterInv, ZeroInv, Zero, InWait, WaitPc
<1>8. RoundInv
  BY <1>2 DEF RoundInv
<1>9. WaitersOwed
  <2>1. sval[WaitSema] = 0
    BY WaitGroupAssumption DEF WGClientsInit, SemaInit
  <2> QED BY <1>2, <1>5, <1>6, <2>1 DEF WaitersOwed, Zero
<1> QED BY <1>1, <1>3, <1>4, <1>7, <1>8, <1>9 DEF WGInv

LEMMA WGNextKeepsInv == WGInv /\ [WGClientsNext]_wgClientVars => WGInv'
<1> SUFFICES ASSUME WGInv, [WGClientsNext]_wgClientVars
             PROVE  WGInv'
  OBVIOUS
<1>1. ASSUME NEW g \in Goroutines, NEW d \in 1 .. 2, Start(g, d)
      PROVE  WGInv'
  BY <1>1, StartKeepsInv
<1>2. ASSUME NEW g \in Goroutines, NEW h \in Goroutines, Finish(g, h)
      PROVE  WGInv'
  BY <1>2, FinishKeepsInv
<1>3. ASSUME NEW g \in Goroutines, Wait(g)
      PROVE  WGInv'
  BY <1>3, WaitKeepsInv
<1>4. ASSUME NEW g \in Goroutines, WGStep(g), Zeroes, UNCHANGED own
      PROVE  WGInv'
  <2>1. CASE AddDelta(g)
    BY <1>4, <2>1, AddDeltaKeepsInv
  <2>2. CASE AddReset(g)
    BY <1>4, <2>2, AddResetKeepsInv
  <2>3. CASE AddRelease(g)
    BY <1>4, <2>3, AddReleaseKeepsInv
  <2>4. CASE WaitSwap(g) /\ wg = seen[g]
    BY <1>4, <2>4, JoinKeepsInv
  <2>5. CASE AddRecheck(g) \/ AddReturn(g) \/ WaitLoad(g) \/ WaitReturn(g) \/ (WaitSwap(g) /\ wg # seen[g])
    BY <1>4, <2>5, LookKeepsInv
  <2> QED BY <1>4, <2>1, <2>2, <2>3, <2>4, <2>5 DEF WGStep, AddStep, WaitStep
<1>5. ASSUME NEW g \in Goroutines, SemaStep(g), UNCHANGED <<wgVars, own, zeroed>>
      PROVE  WGInv'
  BY <1>5, WGSemaKeepsInv
<1>6. CASE UNCHANGED wgClientVars
  <2>1. SemaTypeOK' /\ SemaInv'
    BY <1>6, SemaUnchanged DEF wgClientVars, WGInv
  <2>2. UNCHANGED <<sval, spc, saddr, sflag, ticket, wg, wpc, seen, delta, toWake, own, zeroed>>
    BY <1>6 DEF wgClientVars, wgVars, semaVars
  <2>3. /\ \A h \in Goroutines : (InWait(h)' <=> InWait(h)) /\ (Adds(h)' <=> Adds(h))
        /\ Sleepers' = Sleepers /\ Releasing' = Releasing /\ Subtracting' = Subtracting
    BY <2>2 DEF InWait, Adds, Sleepers, Releasing, Subtracting
  <2>4. Added' = Added
    BY <2>2, <2>3 DEF Added
  <2>5. WGClientsTypeOK' /\ WGCallInv'
    BY <2>2, <2>3 DEF WGInv, WGClientsTypeOK, WGTypeOK, WGCallInv
  <2>6. CounterInv' /\ ZeroInv' /\ RoundInv' /\ WaitersOwed'
    BY <2>2, <2>3, <2>4 DEF WGInv, CounterInv, ZeroInv, RoundInv, WaitersOwed
  <2> QED BY <2>1, <2>5, <2>6 DEF WGInv
<1> QED BY <1>1, <1>2, <1>3, <1>4, <1>5, <1>6 DEF WGClientsNext, WGRun, Zeroes

\* The waiters yet to get a permit are exactly those the word counts, those that
\* Add has still to release and those whose permit is on its way; no program that
\* keeps to the rules of reuse makes Add or Wait panic (waitgroup.go:82-85).
THEOREM WGWaitersOwed == WGSpec => []WaitersOwed
<1>1. WGInv => WaitersOwed
  BY DEF WGInv
<1> QED BY <1>1, WGInitInv, WGNextKeepsInv, PTL DEF WGSpec

\* A Wait returns in two places: at once, because it has read a counter of zero, and
\* after its sleep, when it finds the word zero.
LEMMA ReturnsAfterZero ==
  ASSUME WGInv, [WGClientsNext]_wgClientVars, NEW g \in Goroutines, InWait(g), wpc'[g] = "idle"
  PROVE  g \in zeroed
<1>1. ASSUME wg.counter = 0
      PROVE  g \in zeroed
  BY <1>1 DEF WGInv, ZeroInv
<1>2. wpc'[g] # wpc[g]
  BY DEF InWait, WaitPc
<1>3. WGClientsNext
  BY <1>2 DEF wgClientVars, wgVars
<1>4. wpc \in [Goroutines -> {"idle", "panic"} \cup AddPc \cup WaitPc]
  BY DEF WGInv, WGClientsTypeOK, WGTypeOK
<1>5. ASSUME NEW h \in Goroutines,
             \/ \E d \in 1 .. 2 : Start(h, d)
             \/ \E k \in Goroutines : Finish(h, k)
             \/ Wait(h)
      PROVE  FALSE
  <2>1. wpc[h] = "idle" /\ \A k \in Goroutines : k # h => wpc'[k] = wpc[k]
    BY <1>4, <1>5 DEF Start, Finish, Wait, CallAdd, CallWait, WGGoto
  <2>2. wpc'[h] # "idle"
    BY <1>4, <1>5 DEF Start, Finish, Wait, CallAdd, CallWait, WGGoto
  <2> QED BY <1>2, <2>1, <2>2
<1>6. ASSUME NEW h \in Goroutines, SemaStep(h), UNCHANGED wgVars
      PROVE  FALSE
  BY <1>2, <1>6 DEF wgVars
<1>7. ASSUME NEW h \in Goroutines, AddStep(h)
      PROVE  FALSE
  <2>1. wpc[h] \in AddPc /\ \A k \in Goroutines : k # h => wpc'[k] = wpc[k]
    BY <1>4, <1>7 DEF AddStep, AddDelta, AddRecheck, AddReset, AddRelease, AddReturn, WGGoto, AddPc
  <2> QED BY <1>2, <2>1 DEF InWait, AddPc, WaitPc
<1>8. ASSUME NEW h \in Goroutines, WaitStep(h)
      PROVE  wg.counter = 0
  <2>1. h = g
    BY <1>2, <1>4, <1>8 DEF WaitStep, WaitLoad, WaitSwap, WaitReturn, WGGoto
  <2>2. CASE WaitLoad(g)
    BY <1>4, <2>2 DEF WaitLoad, WGGoto
  <2>3. CASE WaitSwap(g)
    BY <1>4, <2>3 DEF WaitSwap, WGGoto
  <2>4. CASE WaitReturn(g)
    BY <1>4, <2>4 DEF WaitReturn, WGGoto, Zero
  <2> QED BY <1>8, <2>1, <2>2, <2>3, <2>4 DEF WaitStep
<1> QED BY <1>1, <1>3, <1>5, <1>6, <1>7, <1>8 DEF WGClientsNext, WGRun, WGStep

\* Wait returns only to a goroutine during whose call the counter was zero, over
\* any number of reuses.
THEOREM WGWaitsForZero == WGSpec => WaitsForZero
<1>1. WGInv /\ [WGClientsNext]_wgClientVars
        => [\A g \in Goroutines : InWait(g) /\ wpc'[g] = "idle" => g \in zeroed]_wgClientVars
  BY ReturnsAfterZero
<1> QED BY <1>1, WGInitInv, WGNextKeepsInv, PTL DEF WGSpec, WaitsForZero

-----------------------------------------------------------------------------
(* sync.Once: f runs once, and before anybody goes on.                     *)

USE DEF OnceInv, Inside

LEMMA OnceInitInv == OnceInit => OnceInv
<1> SUFFICES ASSUME OnceInit
             PROVE  OnceInv
  OBVIOUS
<1>1. ~done /\ ~onceHeld /\ ~over /\ begun = 0 /\ after = {}
  BY DEF OnceInit, M!LockInit
<1>2. done \in BOOLEAN /\ onceHeld \in BOOLEAN /\ over \in BOOLEAN
  BY DEF OnceInit, M!LockInit
<1>3. /\ opc \in [Goroutines -> {"idle", "fast", "lock", "test", "f", "store", "unlock"}]
      /\ \A g \in Goroutines : opc[g] = "idle"
  BY DEF OnceInit
<1> QED BY <1>1, <1>2, <1>3

\* What a step of g leaves alone.
LEMMA OtherGoroutines ==
  ASSUME OnceInv, NEW g \in Goroutines, NEW label, OGoto(g, label)
  PROVE  \A h \in Goroutines : opc'[h] = IF h = g THEN label ELSE opc[h]
BY DEF OGoto

LEMMA OnceNextInv == OnceInv /\ [OnceNext]_onceVars => OnceInv'
<1> SUFFICES ASSUME OnceInv, [OnceNext]_onceVars
             PROVE  OnceInv'
  OBVIOUS
<1>1. ASSUME NEW g \in Goroutines, Do(g)
      PROVE  OnceInv'
  BY <1>1, OtherGoroutines DEF Do, OGoto
<1>2. ASSUME NEW g \in Goroutines, DoFast(g)
      PROVE  OnceInv'
  <2>1. CASE done
    BY <1>2, <2>1, OtherGoroutines DEF DoFast, OReturn, OGoto
  <2>2. CASE ~done
    BY <1>2, <2>2, OtherGoroutines DEF DoFast, OGoto
  <2> QED BY <2>1, <2>2
<1>3. ASSUME NEW g \in Goroutines, DoLock(g)
      PROVE  OnceInv'
  <2>1. ~onceHeld /\ onceHeld'
    BY <1>3 DEF DoLock, M!Grant
  <2> QED BY <1>3, <2>1, OtherGoroutines DEF DoLock, OGoto
<1>4. ASSUME NEW g \in Goroutines, DoTest(g)
      PROVE  OnceInv'
  <2>1. CASE done
    BY <1>4, <2>1, OtherGoroutines DEF DoTest, OGoto
  <2>2. CASE ~done
    <3>1. begun = 0
      BY <1>4, <2>2 DEF DoTest
    <3> QED BY <1>4, <2>2, <3>1, OtherGoroutines DEF DoTest, OGoto
  <2> QED BY <2>1, <2>2
<1>5. ASSUME NEW g \in Goroutines, EndF(g)
      PROVE  OnceInv'
  BY <1>5, OtherGoroutines DEF EndF, OGoto
<1>6. ASSUME NEW g \in Goroutines, DoStore(g)
      PROVE  OnceInv'
  BY <1>6, OtherGoroutines DEF DoStore, OGoto
<1>7. ASSUME NEW g \in Goroutines, DoUnlock(g)
      PROVE  OnceInv'
  <2>1. onceHeld' = FALSE
    BY <1>7 DEF DoUnlock, M!Release
  <2> QED BY <1>7, <2>1, OtherGoroutines DEF DoUnlock, OReturn, OGoto
<1>8. CASE UNCHANGED onceVars
  BY <1>8 DEF onceVars
<1> QED BY <1>1, <1>2, <1>3, <1>4, <1>5, <1>6, <1>7, <1>8 DEF OnceNext, ORun

\* f is called at most once, and nobody returns from Do before that call has ended.
THEOREM OnceCorrect == OnceSpec => []OnceBeforeAll
<1>1. OnceInv => OnceBeforeAll
  BY DEF OnceBeforeAll
<1> QED BY <1>1, OnceInitInv, OnceNextInv, PTL DEF OnceSpec

-----------------------------------------------------------------------------
(* sync.Cond: the counters of tickets, which wrap around.                  *)

\* The width of the counters.
LEMMA WidthFact ==
  /\ Modulus \in Nat \ {0} /\ Modulus \div 2 \in Nat /\ 2 * (Modulus \div 2) = Modulus
  /\ MaxLag \in Nat /\ MaxLag <= Modulus \div 2
  /\ IsFiniteSet(Goroutines)
  /\ Cardinality(Goroutines) \in Nat /\ Cardinality(Goroutines) <= Modulus \div 2
<1>1. /\ Modulus \in Nat \ {0} /\ Modulus % 2 = 0
      /\ IsFiniteSet(Goroutines) /\ 2 * Cardinality(Goroutines) <= Modulus
  BY NotifyListAssumption
<1>2. Modulus \div 2 \in Nat /\ 2 * (Modulus \div 2) = Modulus
  BY <1>1
<1>3. Cardinality(Goroutines) \in Nat
  BY <1>1, FS_CardinalityType
<1> QED BY <1>1, <1>2, <1>3, CondAssumption

\* A number below twice the divisor.
LEMMA RemainderFact ==
  ASSUME NEW n \in Nat \ {0}, NEW x \in Nat, x < n + n
  PROVE  x % n = IF x < n THEN x ELSE x - n
<1>1. CASE x < n
  BY <1>1
<1>2. CASE x >= n
  BY <1>2
<1> QED BY <1>1, <1>2

LEMMA CountFact ==
  ASSUME NEW a
  PROVE  a \in Counts <=> a \in Nat /\ a < Modulus
BY WidthFact DEF Counts

\* The difference of two counters, and the successor of one, without the remainder.
LEMMA MinusFact ==
  ASSUME NEW a \in Counts, NEW b \in Counts
  PROVE  /\ Minus(a, b) = IF b <= a THEN a - b ELSE a + Modulus - b
         /\ Minus(a, b) \in Counts
<1>1. Modulus \in Nat \ {0} /\ a \in Nat /\ b \in Nat /\ a < Modulus /\ b < Modulus
  BY WidthFact, CountFact
<1>2. a + Modulus - b \in Nat /\ a + Modulus - b < Modulus + Modulus
  BY <1>1
<1>3. (a + Modulus - b) % Modulus
        = IF a + Modulus - b < Modulus THEN a + Modulus - b ELSE a + Modulus - b - Modulus
  <2> DEFINE x == a + Modulus - b
  <2>1. x \in Nat /\ x < Modulus + Modulus
    BY <1>2
  <2> HIDE DEF x
  <2>2. x % Modulus = IF x < Modulus THEN x ELSE x - Modulus
    BY <1>1, <2>1, RemainderFact
  <2> QED BY <1>1, <2>2 DEF x
<1>4. Minus(a, b) = IF b <= a THEN a - b ELSE a + Modulus - b
  BY <1>1, <1>3 DEF Minus
<1> QED BY <1>1, <1>4, CountFact

LEMMA Next1Fact ==
  ASSUME NEW a \in Counts
  PROVE  /\ Next1(a) = IF a + 1 = Modulus THEN 0 ELSE a + 1
         /\ Next1(a) \in Counts
<1>1. Modulus \in Nat \ {0} /\ a \in Nat /\ a < Modulus
  BY WidthFact, CountFact
<1>2. (a + 1) % Modulus = IF a + 1 < Modulus THEN a + 1 ELSE a + 1 - Modulus
  <2> DEFINE x == a + 1
  <2>1. x \in Nat /\ x < Modulus + Modulus
    BY <1>1
  <2> HIDE DEF x
  <2>2. x % Modulus = IF x < Modulus THEN x ELSE x - Modulus
    BY <1>1, <2>1, RemainderFact
  <2> QED BY <1>1, <2>2 DEF x
<1>3. Next1(a) = IF a + 1 = Modulus THEN 0 ELSE a + 1
  BY <1>1, <1>2 DEF Next1
<1> QED BY <1>1, <1>3, CountFact

\* The i-th ticket from notify on.
LEMMA PlaceFact ==
  ASSUME NEW a \in Counts, NEW b \in Counts, NEW i \in Counts
  PROVE  a = (b + i) % Modulus <=> Minus(a, b) = i
<1>1. /\ Modulus \in Nat \ {0} /\ a \in Nat /\ b \in Nat /\ i \in Nat
      /\ a < Modulus /\ b < Modulus /\ i < Modulus
  BY WidthFact, CountFact
<1>2. (b + i) % Modulus = IF b + i < Modulus THEN b + i ELSE b + i - Modulus
  <2> DEFINE x == b + i
  <2>1. x \in Nat /\ x < Modulus + Modulus
    BY <1>1
  <2> HIDE DEF x
  <2>2. x % Modulus = IF x < Modulus THEN x ELSE x - Modulus
    BY <1>1, <2>1, RemainderFact
  <2> QED BY <1>1, <2>2 DEF x
<1>3. Minus(a, b) = IF b <= a THEN a - b ELSE a + Modulus - b
  BY MinusFact
<1> QED BY <1>1, <1>2, <1>3

\* Differences as notify or wait moves on by one.
LEMMA MovesFact ==
  ASSUME NEW a \in Counts, NEW b \in Counts
  PROVE  /\ Minus(a, Next1(b)) = IF Minus(a, b) = 0 THEN Modulus - 1 ELSE Minus(a, b) - 1
         /\ Minus(Next1(a), b) = IF Minus(a, b) = Modulus - 1 THEN 0 ELSE Minus(a, b) + 1
<1>1. /\ Modulus \in Nat \ {0} /\ a \in Nat /\ b \in Nat /\ a < Modulus /\ b < Modulus
  BY WidthFact, CountFact
<1>2. /\ Next1(a) \in Counts /\ Next1(b) \in Counts
      /\ Next1(a) = IF a + 1 = Modulus THEN 0 ELSE a + 1
      /\ Next1(b) = IF b + 1 = Modulus THEN 0 ELSE b + 1
  BY Next1Fact
<1>3. Minus(a, b) = IF b <= a THEN a - b ELSE a + Modulus - b
  BY MinusFact
<1>4. Minus(a, Next1(b)) = IF Next1(b) <= a THEN a - Next1(b) ELSE a + Modulus - Next1(b)
  BY <1>2, MinusFact
<1>5. Minus(Next1(a), b) = IF b <= Next1(a) THEN Next1(a) - b ELSE Next1(a) + Modulus - b
  BY <1>2, MinusFact
<1>6. Minus(a, Next1(b)) = IF Minus(a, b) = 0 THEN Modulus - 1 ELSE Minus(a, b) - 1
  BY <1>1, <1>2, <1>3, <1>4
<1>7. Minus(Next1(a), b) = IF Minus(a, b) = Modulus - 1 THEN 0 ELSE Minus(a, b) + 1
  BY <1>1, <1>2, <1>3, <1>5
<1> QED BY <1>6, <1>7

\* Three counters.
LEMMA ChainFact ==
  ASSUME NEW a \in Counts, NEW b \in Counts, NEW c \in Counts
  PROVE  Minus(a, b) = IF Minus(b, c) <= Minus(a, c)
                         THEN Minus(a, c) - Minus(b, c)
                         ELSE Minus(a, c) - Minus(b, c) + Modulus
<1>1. /\ Modulus \in Nat \ {0} /\ a \in Nat /\ b \in Nat /\ c \in Nat
      /\ a < Modulus /\ b < Modulus /\ c < Modulus
  BY WidthFact, CountFact
<1>2. /\ Minus(a, b) = IF b <= a THEN a - b ELSE a + Modulus - b
      /\ Minus(b, c) = IF c <= b THEN b - c ELSE b + Modulus - c
      /\ Minus(a, c) = IF c <= a THEN a - c ELSE a + Modulus - c
  BY MinusFact
<1> QED BY <1>1, <1>2

\* Equal counters, and counters equally far from a third.
LEMMA SameCount ==
  ASSUME NEW a \in Counts, NEW b \in Counts, NEW c \in Counts
  PROVE  /\ Minus(a, b) = 0 <=> a = b
         /\ Minus(a, c) = Minus(b, c) => a = b
<1>1. /\ Modulus \in Nat \ {0} /\ a \in Nat /\ b \in Nat /\ c \in Nat
      /\ a < Modulus /\ b < Modulus /\ c < Modulus
  BY WidthFact, CountFact
<1>2. /\ Minus(a, b) = IF b <= a THEN a - b ELSE a + Modulus - b
      /\ Minus(b, c) = IF c <= b THEN b - c ELSE b + Modulus - c
      /\ Minus(a, c) = IF c <= a THEN a - c ELSE a + Modulus - c
  BY MinusFact
<1> QED BY <1>1, <1>2

\* Counted by their places in the window, those who hold a ticket are as many as tickets.
LEMMA WindowCount ==
  ASSUME ListTypeOK, WindowInv
  PROVE  /\ IsFiniteSet({g \in Goroutines : Unnotified(g)})
         /\ Cardinality({g \in Goroutines : Unnotified(g)}) = Outstanding
         /\ Outstanding \in Counts /\ Outstanding <= Modulus \div 2
<1> DEFINE U == {g \in Goroutines : Unnotified(g)}
           I == 0 .. Outstanding - 1
           f == [g \in U |-> Minus(ticketOf[g], notify)]
<1>1. /\ Outstanding \in Counts /\ Outstanding \in Nat
      /\ \A g \in Goroutines : ticketOf[g] \in Counts
      /\ notify \in Counts
  <2>1. /\ \A g \in Goroutines : ticketOf[g] \in Counts
        /\ notify \in Counts /\ wait \in Counts
    BY DEF ListTypeOK
  <2>2. Outstanding \in Counts
    BY <2>1, MinusFact DEF Outstanding
  <2> QED BY <2>1, <2>2, CountFact
<1>2. \A g \in U : f[g] \in I
  <2> TAKE g \in U
  <2>1. Minus(ticketOf[g], notify) < Outstanding
    BY DEF Unnotified
  <2>2. Minus(ticketOf[g], notify) \in Nat
    <3>1. Minus(ticketOf[g], notify) \in Counts
      BY <1>1, MinusFact
    <3> QED BY <3>1, CountFact
  <2> QED BY <1>1, <2>1, <2>2
<1>3. \A g, h \in U : f[g] = f[h] => g = h
  <2> TAKE g, h \in U
  <2> HAVE f[g] = f[h]
  <2>1. ticketOf[g] = ticketOf[h]
    <3>1. Minus(ticketOf[g], notify) = Minus(ticketOf[h], notify)
      OBVIOUS
    <3> QED BY <1>1, <3>1, SameCount
  <2> QED BY <2>1 DEF WindowInv
<1>4. \A i \in I : \E g \in U : f[g] = i
  BY DEF WindowInv
<1>5. f \in Bijection(U, I)
  <2>1. f \in [U -> I]
    BY <1>2
  <2> HIDE DEF f, U, I
  <2> QED BY <2>1, <1>3, <1>4, Fun_IsBij
<1>6. IsFiniteSet(U) /\ Cardinality(U) <= Cardinality(Goroutines)
  BY WidthFact, FS_Subset
<1>7. IsFiniteSet(I) /\ Cardinality(I) = Outstanding
  <2>1. 0 \in Int /\ Outstanding - 1 \in Int
    BY <1>1
  <2>2. IsFiniteSet(I)
    BY <2>1, FS_Interval
  <2>3. Cardinality(I) = IF 0 > Outstanding - 1 THEN 0 ELSE Outstanding - 1 - 0 + 1
    BY <2>1, FS_Interval
  <2> QED BY <1>1, <2>2, <2>3
<1>8. Cardinality(U) = Cardinality(I)
  <2>1. ExistsBijection(U, I)
    BY <1>5 DEF ExistsBijection
  <2> HIDE DEF f, U, I
  <2> QED BY <2>1, <1>6, <1>7, FS_Bijection DEF ExistsBijection
<1> QED BY <1>1, <1>6, <1>7, <1>8, WidthFact

-----------------------------------------------------------------------------
(* sync.Cond: the lists of goroutines.                                     *)

\* One more at the end of a sequence.
LEMMA AppendFact ==
  ASSUME NEW T, NEW q \in Seq(T), NEW x \in T
  PROVE  /\ Append(q, x) \in Seq(T) /\ ToSet(Append(q, x)) = ToSet(q) \cup {x}
         /\ IsInjective(q) /\ x \notin ToSet(q) => IsInjective(Append(q, x))
<1> DEFINE e == Append(q, x)
<1>1. /\ e \in Seq(T) /\ Len(e) = Len(q) + 1
      /\ \A i \in 1 .. Len(q) : e[i] = q[i]
      /\ e[Len(q) + 1] = x
  BY AppendProperties
<1> HIDE DEF e
<1>2. Len(q) \in Nat /\ DOMAIN q = 1 .. Len(q) /\ DOMAIN e = 1 .. Len(q) + 1
  BY <1>1, LenProperties
<1>3. ToSet(e) = ToSet(q) \cup {x}
  BY <1>1, <1>2 DEF ToSet
<1>4. IsInjective(q) /\ x \notin ToSet(q) => IsInjective(e)
  BY <1>1, <1>2 DEF IsInjective, ToSet
<1> QED BY <1>1, <1>3, <1>4 DEF e

\* The elements of a sequence, and those of one with a place left out or a goroutine more.
LEMMA ElementsFact ==
  ASSUME NEW T, NEW q \in Seq(T)
  PROVE  /\ ToSet(q) \subseteq T
         /\ ToSet(<<>>) = {} /\ IsInjective(<<>>)
         /\ q # <<>> => ToSet(q) # {}
         /\ \A x \in T : /\ ToSet(<<x>>) = {x} /\ IsInjective(<<x>>) /\ <<x>> \in Seq(T)
                         /\ Append(q, x) \in Seq(T) /\ ToSet(Append(q, x)) = ToSet(q) \cup {x}
                         /\ IsInjective(q) /\ x \notin ToSet(q) => IsInjective(Append(q, x))
         /\ q # <<>> /\ IsInjective(q) =>
              /\ Head(q) \in ToSet(q) /\ Tail(q) \in Seq(T)
              /\ ToSet(Tail(q)) = ToSet(q) \ {Head(q)} /\ IsInjective(Tail(q))
<1>1. \A s : ToSet(s) = Range(s)
  BY DEF ToSet, Range
<1>2. ToSet(q) \subseteq T /\ ToSet(<<>>) = {} /\ IsInjective(<<>>)
  BY DEF ToSet, IsInjective
<1>3. ASSUME q # <<>>
      PROVE  ToSet(q) # {}
  <2>1. Head(q) = q[1] /\ 1 \in DOMAIN q
    BY <1>3
  <2> QED BY <2>1 DEF ToSet
<1>4. ASSUME NEW x \in T
      PROVE  /\ ToSet(<<x>>) = {x} /\ IsInjective(<<x>>) /\ <<x>> \in Seq(T)
             /\ Append(q, x) \in Seq(T) /\ ToSet(Append(q, x)) = ToSet(q) \cup {x}
             /\ IsInjective(q) /\ x \notin ToSet(q) => IsInjective(Append(q, x))
  <2>1. /\ Append(q, x) \in Seq(T) /\ ToSet(Append(q, x)) = ToSet(q) \cup {x}
        /\ IsInjective(q) /\ x \notin ToSet(q) => IsInjective(Append(q, x))
    BY <1>4, AppendFact
  <2>2. ToSet(<<x>>) = {x} /\ IsInjective(<<x>>) /\ <<x>> \in Seq(T)
    BY DEF ToSet, IsInjective
  <2> QED BY <2>1, <2>2
<1>5. ASSUME q # <<>>, IsInjective(q)
      PROVE  /\ Head(q) \in ToSet(q) /\ Tail(q) \in Seq(T)
             /\ ToSet(Tail(q)) = ToSet(q) \ {Head(q)} /\ IsInjective(Tail(q))
  <2>1. /\ Head(q) \in Range(q) /\ Tail(q) \in Seq(T)
        /\ Range(Tail(q)) = Range(q) \ {Head(q)} /\ IsInjective(Tail(q))
    BY <1>5, DequeueFact
  <2> QED BY <1>1, <2>1
<1> QED BY <1>2, <1>3, <1>4, <1>5

\* The sequence with one place left out.
LEMMA RemoveFact ==
  ASSUME NEW T, NEW q \in Seq(T), NEW i \in DOMAIN q
  PROVE  /\ RemoveAt(q, i) \in Seq(T)
         /\ IsInjective(q) => /\ IsInjective(RemoveAt(q, i))
                              /\ ToSet(RemoveAt(q, i)) = ToSet(q) \ {q[i]}
<1> DEFINE n == Len(q)
           a == SubSeq(q, 1, i - 1)
           b == SubSeq(q, i + 1, n)
           rest == a \o b
<1>1. n \in Nat /\ DOMAIN q = 1 .. n /\ i \in 1 .. n
  OBVIOUS
<1>2. /\ a \in Seq(T) /\ Len(a) = i - 1 /\ \A k \in 1 .. i - 1 : a[k] = q[k]
  <2>1. 1 \in Int /\ i - 1 \in Int /\ \A k \in 1 .. i - 1 : q[k] \in T
    BY <1>1
  <2>2. /\ a \in Seq(T)
        /\ Len(a) = IF 1 <= i - 1 THEN i - 1 - 1 + 1 ELSE 0
        /\ \A k \in 1 .. i - 1 - 1 + 1 : a[k] = q[1 + k - 1]
    BY <2>1, SubSeqProperties
  <2> HIDE DEF a
  <2>3. Len(a) = i - 1
    BY <1>1, <2>2
  <2>4. \A k \in 1 .. i - 1 : a[k] = q[k]
    <3> TAKE k \in 1 .. i - 1
    <3>1. k \in 1 .. i - 1 - 1 + 1 /\ 1 + k - 1 = k
      BY <1>1
    <3> QED BY <2>2, <3>1
  <2> QED BY <2>2, <2>3, <2>4
<1>3. b \in Seq(T) /\ Len(b) = n - i /\ \A k \in 1 .. n - i : b[k] = q[i + k]
  <2>1. i + 1 \in Int /\ n \in Int /\ \A k \in i + 1 .. n : q[k] \in T
    BY <1>1
  <2>2. /\ b \in Seq(T)
        /\ Len(b) = IF i + 1 <= n THEN n - (i + 1) + 1 ELSE 0
        /\ \A k \in 1 .. n - (i + 1) + 1 : b[k] = q[i + 1 + k - 1]
    BY <2>1, SubSeqProperties
  <2> HIDE DEF b
  <2>3. Len(b) = n - i
    BY <1>1, <2>2
  <2>4. \A k \in 1 .. n - i : b[k] = q[i + k]
    <3> TAKE k \in 1 .. n - i
    <3>1. k \in 1 .. n - (i + 1) + 1 /\ i + 1 + k - 1 = i + k
      BY <1>1
    <3> QED BY <2>2, <3>1
  <2> QED BY <2>2, <2>3, <2>4
<1> HIDE DEF a, b
<1>4. /\ rest \in Seq(T) /\ Len(rest) = i - 1 + (n - i)
      /\ \A k \in 1 .. i - 1 + (n - i) : rest[k] = IF k <= i - 1 THEN a[k] ELSE b[k - (i - 1)]
  <2>1. /\ rest \in Seq(T) /\ Len(rest) = Len(a) + Len(b)
        /\ \A k \in 1 .. Len(a) + Len(b) : rest[k] = IF k <= Len(a) THEN a[k] ELSE b[k - Len(a)]
    BY <1>2, <1>3, ConcatProperties
  <2> HIDE DEF rest
  <2> QED BY <1>2, <1>3, <2>1
<1> HIDE DEF rest
<1>5. DOMAIN rest = 1 .. n - 1
  BY <1>1, <1>4
<1>6. ASSUME NEW k \in 1 .. n - 1
      PROVE  rest[k] = IF k < i THEN q[k] ELSE q[k + 1]
  <2>1. k \in 1 .. i - 1 + (n - i)
    BY <1>1
  <2>2. CASE k < i
    <3>1. k \in 1 .. i - 1 /\ k <= i - 1
      BY <1>1, <2>2
    <3> QED BY <1>2, <1>4, <2>1, <2>2, <3>1
  <2>3. CASE ~(k < i)
    <3>1. k - (i - 1) \in 1 .. n - i /\ ~(k <= i - 1) /\ i + (k - (i - 1)) = k + 1
      BY <1>1, <2>3
    <3>2. b[k - (i - 1)] = q[i + (k - (i - 1))]
      BY <1>3, <3>1
    <3> QED BY <1>4, <2>1, <2>3, <3>1, <3>2
  <2> QED BY <2>2, <2>3
<1>7. \A k \in 1 .. n - 1 : \E j \in 1 .. n : j # i /\ rest[k] = q[j] /\ j = IF k < i THEN k ELSE k + 1
  <2> TAKE k \in 1 .. n - 1
  <2>1. CASE k < i
    BY <1>1, <1>6, <2>1
  <2>2. CASE ~(k < i)
    <3>1. k + 1 \in 1 .. n /\ k + 1 # i
      BY <1>1, <2>2
    <3> QED BY <1>6, <2>2, <3>1
  <2> QED BY <2>1, <2>2
<1>8. \A j \in 1 .. n : j # i => \E k \in 1 .. n - 1 : rest[k] = q[j]
  <2> TAKE j \in 1 .. n
  <2> HAVE j # i
  <2>1. CASE j < i
    <3>1. j \in 1 .. n - 1
      BY <1>1, <2>1
    <3> QED BY <1>6, <2>1, <3>1
  <2>2. CASE ~(j < i)
    <3>1. j - 1 \in 1 .. n - 1 /\ ~(j - 1 < i) /\ j - 1 + 1 = j
      BY <1>1, <2>2
    <3>2. rest[j - 1] = q[j - 1 + 1]
      BY <1>6, <3>1
    <3> QED BY <3>1, <3>2
  <2> QED BY <2>1, <2>2
<1>9. ASSUME IsInjective(q)
      PROVE  IsInjective(rest) /\ ToSet(rest) = ToSet(q) \ {q[i]}
  <2>1. ASSUME NEW k \in 1 .. n - 1, NEW l \in 1 .. n - 1, rest[k] = rest[l]
        PROVE  k = l
    <3>1. PICK x \in 1 .. n : rest[k] = q[x] /\ x = IF k < i THEN k ELSE k + 1
      BY <1>7
    <3>2. PICK y \in 1 .. n : rest[l] = q[y] /\ y = IF l < i THEN l ELSE l + 1
      BY <1>7
    <3>3. x = y
      BY <1>1, <1>9, <2>1, <3>1, <3>2 DEF IsInjective
    <3> QED BY <1>1, <3>1, <3>2, <3>3
  <2>2. ASSUME NEW x \in ToSet(rest)
        PROVE  x \in ToSet(q) \ {q[i]}
    <3>1. PICK k \in 1 .. n - 1 : x = rest[k]
      BY <1>5 DEF ToSet
    <3>2. PICK j \in 1 .. n : j # i /\ x = q[j]
      BY <1>7, <3>1
    <3> QED BY <1>1, <1>9, <3>2 DEF IsInjective, ToSet
  <2>3. ASSUME NEW x \in ToSet(q), x # q[i]
        PROVE  x \in ToSet(rest)
    <3>1. PICK j \in 1 .. n : x = q[j]
      BY <1>1 DEF ToSet
    <3>2. PICK k \in 1 .. n - 1 : rest[k] = q[j]
      BY <1>8, <2>3, <3>1
    <3> QED BY <1>5, <3>1, <3>2 DEF ToSet
  <2> QED BY <1>5, <2>1, <2>2, <2>3 DEF IsInjective
<1> QED BY <1>4, <1>9 DEF RemoveAt, rest, a, b

-----------------------------------------------------------------------------
(* sync.Cond: the inductive invariant CondInv.                             *)

\* What a step does to the window of tickets that are not notified.
WindowSame ==
  /\ Outstanding' = Outstanding
  /\ \A h \in Goroutines : /\ Unnotified(h)' <=> Unnotified(h)
                           /\ Unnotified(h) => Minus(ticketOf[h], notify)' = Minus(ticketOf[h], notify)

WindowGrows(g) ==
  /\ Outstanding' = Outstanding + 1
  /\ ~Unnotified(g) /\ Unnotified(g)' /\ Minus(ticketOf[g], notify)' = Outstanding
  /\ \A h \in Goroutines \ {g} :
       /\ Unnotified(h)' <=> Unnotified(h)
       /\ Minus(ticketOf[h], notify)' = Minus(ticketOf[h], notify)

WindowShrinks ==
  /\ Outstanding # 0 /\ Outstanding' = Outstanding - 1
  /\ \A h \in Goroutines :
       /\ Unnotified(h)' <=> Unnotified(h) /\ Minus(ticketOf[h], notify) # 0
       /\ Unnotified(h)' => Minus(ticketOf[h], notify)' = Minus(ticketOf[h], notify) - 1

WindowCloses ==
  /\ Outstanding' = 0
  /\ \A h \in Goroutines : ~Unnotified(h)'

\* The lists hold goroutines, and who is off the lists is not parked.
LEMMA ListFact ==
  ASSUME ListTypeOK, ListInv
  PROVE  /\ ToSet(list) \subseteq Goroutines
         /\ \A h \in Goroutines : toReady[h] \in Seq(Goroutines) /\ ToSet(toReady[h]) \subseteq Goroutines
         /\ \A h \in Goroutines : npc[h] # "ready" => toReady[h] = <<>>
         /\ \A g \in Goroutines : npc[g] # "parked" => g \notin ToSet(list) /\ ~Taken(g)
<1>1. ToSet(list) \subseteq Goroutines
  BY ElementsFact DEF ListTypeOK
<1>2. \A h \in Goroutines : toReady[h] \in Seq(Goroutines) /\ ToSet(toReady[h]) \subseteq Goroutines
  BY ElementsFact DEF ListTypeOK
<1> QED BY <1>1, <1>2 DEF ListInv, Taken

\* Who holds a ticket that is not notified.
LEMMA UnnotifiedFact ==
  ASSUME ListTypeOK, ListInv, WindowInv, NEW g \in Goroutines
  PROVE  /\ Unnotified(g) <=> \/ g \in ToSet(list)
                              \/ npc[g] = "added" /\ Minus(ticketOf[g], notify) < Outstanding
         /\ g \in ToSet(list) => Minus(ticketOf[g], notify) < Outstanding
<1>1. g \in ToSet(list) => npc[g] = "parked" /\ ~Taken(g) /\ Unnotified(g)
  BY DEF ListInv, WindowInv
<1>2. npc[g] = "added" => ~Taken(g)
  BY ListFact
<1>3. npc[g] = "parked" => g \in ToSet(list) \/ Taken(g)
  BY DEF ListInv
<1> QED BY <1>1, <1>2, <1>3 DEF Unnotified

\* The types of the window.
LEMMA WindowTypes ==
  ASSUME ListTypeOK
  PROVE  /\ wait \in Counts /\ notify \in Counts /\ Outstanding \in Counts
         /\ wait \in Nat /\ notify \in Nat /\ Outstanding \in Nat
         /\ \A g \in Goroutines : /\ ticketOf[g] \in Counts /\ ticketOf[g] \in Nat
                                  /\ Minus(ticketOf[g], notify) \in Counts
                                  /\ Minus(ticketOf[g], notify) \in Nat
                                  /\ Minus(wait, ticketOf[g]) \in Counts
                                  /\ Minus(wait, ticketOf[g]) \in Nat
<1>1. wait \in Counts /\ notify \in Counts /\ \A g \in Goroutines : ticketOf[g] \in Counts
  BY DEF ListTypeOK
<1>2. Outstanding \in Counts
  BY <1>1, MinusFact DEF Outstanding
<1>3. \A g \in Goroutines : Minus(ticketOf[g], notify) \in Counts /\ Minus(wait, ticketOf[g]) \in Counts
  BY <1>1, MinusFact
<1> QED BY <1>1, <1>2, <1>3, CountFact

LEMMA WindowKept ==
  ASSUME ListTypeOK, WindowInv, UNCHANGED <<wait, notify>>,
         \A h \in Goroutines : Unnotified(h)' <=> Unnotified(h),
         \A h \in Goroutines : Unnotified(h) => ticketOf'[h] = ticketOf[h],
         \A h \in Goroutines : npc'[h] = "added" => npc[h] = "added" /\ ticketOf'[h] = ticketOf[h],
         \A h \in ToSet(list)' : h \in Goroutines /\ Unnotified(h)
  PROVE  WindowInv' /\ WindowSame
<1>1. Outstanding' = Outstanding
  BY DEF Outstanding, Minus
<1>2. \A h \in ToSet(list)' : Unnotified(h)'
  OBVIOUS
<1>3. ASSUME NEW h \in Goroutines, npc'[h] = "added"
      PROVE  Minus(wait, ticketOf[h])' \in 1 .. Modulus \div 2
  BY <1>3 DEF WindowInv, Minus
<1>4. ASSUME NEW g \in Goroutines, NEW h \in Goroutines,
             Unnotified(g)', Unnotified(h)', ticketOf'[g] = ticketOf'[h]
      PROVE  g = h
  BY <1>4 DEF WindowInv
<1>5. ASSUME NEW i \in 0 .. Outstanding - 1
      PROVE  \E g \in Goroutines : Unnotified(g)' /\ Minus(ticketOf[g], notify)' = i
  <2>1. PICK g \in Goroutines : Unnotified(g) /\ Minus(ticketOf[g], notify) = i
    BY DEF WindowInv
  <2>2. Unnotified(g)' /\ Minus(ticketOf[g], notify)' = i
    BY <2>1 DEF Minus
  <2> QED BY <2>2
<1>6. WindowInv'
  BY <1>1, <1>2, <1>3, <1>4, <1>5 DEF WindowInv
<1>7. WindowSame
  BY <1>1 DEF WindowSame, Minus
<1> QED BY <1>6, <1>7

\* A goroutine that is not on the list, and has nobody to ready, goes on.
LEMMA ListKept ==
  ASSUME ListTypeOK, ListInv, NEW g \in Goroutines,
         npc[g] # "parked", npc'[g] # "parked", toReady[g] = <<>>,
         \A h \in Goroutines : h # g => npc'[h] = npc[h],
         UNCHANGED <<list, toReady>>
  PROVE  ListInv' /\ \A h \in Goroutines : Taken(h)' <=> Taken(h)
<1>1. \A h \in Goroutines : Taken(h)' <=> Taken(h)
  BY DEF Taken
<1>2. \A h \in ToSet(list) : npc'[h] = "parked" /\ ~Taken(h)'
  BY <1>1, ListFact DEF ListInv
<1>3. \A h \in Goroutines : npc'[h] = "parked" => h \in ToSet(list) \/ Taken(h)'
  BY <1>1 DEF ListInv
<1>4. ASSUME NEW h \in Goroutines
      PROVE  /\ toReady[h] # <<>> => npc'[h] = "ready"
             /\ \A f \in ToSet(toReady[h]) : npc'[f] = "parked"
  BY ListFact DEF ListInv
<1> QED BY <1>1, <1>2, <1>3, <1>4 DEF ListInv

LEMMA MovesAlone ==
  ASSUME ListTypeOK, ListInv, WindowInv, NEW g \in Goroutines,
         npc[g] # "parked", npc'[g] \notin {"parked", "added"}, toReady[g] = <<>>, ~Unnotified(g),
         \A h \in Goroutines : h # g => npc'[h] = npc[h] /\ ticketOf'[h] = ticketOf[h],
         UNCHANGED <<list, toReady, wait, notify>>
  PROVE  ListInv' /\ WindowInv' /\ WindowSame
<1>1. ListInv' /\ \A h \in Goroutines : Taken(h)' <=> Taken(h)
  BY ListKept
<1>2. ASSUME NEW h \in Goroutines
      PROVE  Unnotified(h)' <=> Unnotified(h)
  BY <1>1 DEF Unnotified, Outstanding, Minus
<1>3. \A h \in ToSet(list) : h \in Goroutines /\ Unnotified(h)
  BY ListFact DEF WindowInv
<1> QED BY <1>1, <1>2, <1>3, WindowKept

\* Wait takes the next ticket.
LEMMA AddKeepsInv ==
  ASSUME ListTypeOK, ListInv, WindowInv, NEW g \in Goroutines, CondWait(g)
  PROVE  ListInv' /\ WindowInv' /\ WindowGrows(g)
<1>1. /\ npc[g] = "idle" /\ npc' = [npc EXCEPT ![g] = "added"]
      /\ ticketOf' = [ticketOf EXCEPT ![g] = wait] /\ wait' = Next1(wait)
      /\ UNCHANGED <<notify, list, toReady>>
      /\ \A h \in Goroutines : npc[h] = "added" => Minus(wait, ticketOf[h]) < MaxLag
  BY DEF CondWait, NotifyListAdd, NGoto
<1>2. /\ npc'[g] = "added" /\ ticketOf'[g] = wait
      /\ \A h \in Goroutines : h # g => npc'[h] = npc[h] /\ ticketOf'[h] = ticketOf[h]
  BY <1>1 DEF ListTypeOK
<1>3. toReady[g] = <<>> /\ g \notin ToSet(list) /\ ~Taken(g)
  BY <1>1, ListFact
<1>4. ListInv' /\ \A h \in Goroutines : Taken(h)' <=> Taken(h)
  BY <1>1, <1>2, <1>3, ListKept
<1>5. /\ wait \in Counts /\ notify \in Counts /\ Outstanding \in Counts /\ Outstanding \in Nat
      /\ \A h \in Goroutines : ticketOf[h] \in Counts
  BY WindowTypes
<1>6. Outstanding + 1 <= Modulus \div 2 /\ Outstanding # Modulus - 1
  <2> DEFINE U == {h \in Goroutines : Unnotified(h)}
  <2>1. IsFiniteSet(U) /\ Cardinality(U) = Outstanding
    BY WindowCount
  <2>2. g \notin U
    BY <1>1 DEF Unnotified
  <2>3. Cardinality(U \cup {g}) = Outstanding + 1
    BY <2>1, <2>2, FS_AddElement
  <2>4. Cardinality(U \cup {g}) <= Cardinality(Goroutines)
    <3>1. U \cup {g} \in SUBSET Goroutines
      OBVIOUS
    <3> HIDE DEF U
    <3> QED BY <3>1, WidthFact, FS_Subset
  <2> QED BY <1>5, <2>3, <2>4, WidthFact
<1>7. Outstanding' = Outstanding + 1
  <2>1. Minus(Next1(wait), notify) = Outstanding + 1
    BY <1>5, <1>6, MovesFact DEF Outstanding
  <2> QED BY <1>1, <2>1 DEF Outstanding
<1>8. Unnotified(g)' /\ Minus(ticketOf[g], notify)' = Outstanding
  <2>1. Minus(ticketOf[g], notify)' = Outstanding
    BY <1>1, <1>2 DEF Minus, Outstanding
  <2> QED BY <1>2, <1>3, <1>4, <1>5, <1>7, <2>1 DEF Unnotified
<1>9. ASSUME NEW h \in Goroutines, h # g
      PROVE  /\ Unnotified(h)' <=> Unnotified(h)
             /\ Minus(ticketOf[h], notify)' = Minus(ticketOf[h], notify)
             /\ Unnotified(h) => Minus(ticketOf[h], notify) < Outstanding
  <2>1. Minus(ticketOf[h], notify)' = Minus(ticketOf[h], notify)
    BY <1>1, <1>2, <1>9 DEF Minus
  <2>2. Minus(ticketOf[h], notify) \in Nat
    BY WindowTypes
  <2>3. npc[h] = "added" => Minus(ticketOf[h], notify) # Outstanding
    <3>1. Minus(ticketOf[h], notify) = Outstanding => ticketOf[h] = wait
      BY <1>5, SameCount DEF Outstanding
    <3>2. npc[h] = "added" => Minus(wait, ticketOf[h]) # 0
      BY DEF WindowInv
    <3> QED BY <1>5, <3>1, <3>2, SameCount
  <2>4. Unnotified(h) => Minus(ticketOf[h], notify) < Outstanding
    BY DEF Unnotified
  <2>5. npc[h] = "parked" /\ ~Taken(h) => Unnotified(h)
    BY DEF ListInv, WindowInv
  <2> QED BY <1>2, <1>4, <1>5, <1>7, <1>9, <2>1, <2>2, <2>3, <2>4, <2>5 DEF Unnotified
<1>10. ASSUME NEW h \in Goroutines, npc'[h] = "added"
       PROVE  Minus(wait, ticketOf[h])' \in 1 .. Modulus \div 2
  <2>1. CASE h = g
    <3>1. Minus(wait, ticketOf[g])' = Minus(Next1(wait), wait)
      BY <1>1, <1>2 DEF Minus
    <3>2. Minus(wait, wait) = 0
      BY <1>5, SameCount
    <3>3. Minus(Next1(wait), wait) = IF Minus(wait, wait) = Modulus - 1 THEN 0 ELSE Minus(wait, wait) + 1
      BY <1>5, MovesFact
    <3> QED BY <2>1, <3>1, <3>2, <3>3, WidthFact
  <2>2. CASE h # g
    <3>1. Minus(wait, ticketOf[h])' = Minus(Next1(wait), ticketOf[h])
      BY <1>1, <1>2, <2>2 DEF Minus
    <3>2. Minus(Next1(wait), ticketOf[h]) = IF Minus(wait, ticketOf[h]) = Modulus - 1
                                              THEN 0 ELSE Minus(wait, ticketOf[h]) + 1
      BY <1>5, MovesFact
    <3>3. /\ npc[h] = "added" /\ Minus(wait, ticketOf[h]) < MaxLag
          /\ Minus(wait, ticketOf[h]) \in Nat
      BY <1>1, <1>2, <1>10, <2>2, WindowTypes
    <3> QED BY <3>1, <3>2, <3>3, WidthFact
  <2> QED BY <2>1, <2>2
<1>11. ASSUME NEW f \in Goroutines, NEW h \in Goroutines,
              Unnotified(f)', Unnotified(h)', ticketOf'[f] = ticketOf'[h]
       PROVE  f = h
  <2>1. Minus(ticketOf[f], notify)' = Minus(ticketOf[h], notify)'
    BY <1>11 DEF Minus
  <2>2. CASE f # g /\ h # g
    BY <1>2, <1>9, <1>11, <2>2 DEF WindowInv
  <2>3. CASE f = g /\ h # g
    BY <1>5, <1>8, <1>9, <1>11, <2>1, <2>3
  <2>4. CASE f # g /\ h = g
    BY <1>5, <1>8, <1>9, <1>11, <2>1, <2>4
  <2> QED BY <2>2, <2>3, <2>4
<1>12. ASSUME NEW i \in 0 .. Outstanding
       PROVE  \E h \in Goroutines : Unnotified(h)' /\ Minus(ticketOf[h], notify)' = i
  <2>1. CASE i = Outstanding
    BY <1>8, <2>1
  <2>2. CASE i # Outstanding
    <3>1. i \in 0 .. Outstanding - 1
      BY <1>5, <2>2
    <3>2. PICK h \in Goroutines : Unnotified(h) /\ Minus(ticketOf[h], notify) = i
      BY <3>1 DEF WindowInv
    <3>3. h # g
      BY <1>1, <3>2 DEF Unnotified
    <3> QED BY <1>9, <3>2, <3>3
  <2> QED BY <2>1, <2>2
<1>13. \A h \in ToSet(list)' : Unnotified(h)'
  <2>1. \A h \in ToSet(list) : h \in Goroutines /\ h # g /\ Unnotified(h)
    BY <1>3, ListFact DEF WindowInv
  <2> QED BY <1>1, <1>9, <2>1
<1>14. 0 .. Outstanding' - 1 = 0 .. Outstanding
  BY <1>5, <1>7
<1>15. WindowInv'
  BY <1>10, <1>11, <1>12, <1>13, <1>14 DEF WindowInv
<1>16. WindowGrows(g)
  <2>1. ~Unnotified(g)
    BY <1>1 DEF Unnotified
  <2> QED BY <1>7, <1>8, <1>9, <2>1 DEF WindowGrows
<1> QED BY <1>4, <1>15, <1>16

\* Who comes to the list tells rightly whether its ticket has been notified.
LEMMA LessFact ==
  ASSUME ListTypeOK, ListInv, WindowInv, NEW g \in Goroutines, npc[g] = "added"
  PROVE  Less(ticketOf[g], notify) <=> ~Unnotified(g)
<1> DEFINE x == Minus(ticketOf[g], notify)
           y == Minus(wait, ticketOf[g])
<1>1. x \in Nat /\ y \in Nat /\ Outstanding \in Nat /\ x < Modulus /\ Outstanding <= Modulus \div 2
  BY WindowTypes, WindowCount, CountFact
<1>2. y \in 1 .. Modulus \div 2
  BY DEF WindowInv
<1>3. y = IF x <= Outstanding THEN Outstanding - x ELSE Outstanding - x + Modulus
  BY WindowTypes, ChainFact DEF Outstanding
<1>4. Less(ticketOf[g], notify) <=> x >= Modulus \div 2
  BY DEF Less
<1>5. Unnotified(g) <=> x < Outstanding
  BY ListFact DEF Unnotified
<1> HIDE DEF x, y
<1> QED BY <1>1, <1>2, <1>3, <1>4, <1>5, WidthFact

\* A waiter looks at its ticket, and parks or goes on.
LEMMA ParkKeepsInv ==
  ASSUME ListTypeOK, ListInv, WindowInv, NEW g \in Goroutines, NotifyListWait(g)
  PROVE  ListInv' /\ WindowInv' /\ WindowSame
<1>1. /\ npc[g] = "added" /\ UNCHANGED <<wait, notify, ticketOf, toReady>>
      /\ \/ ~Unnotified(g) /\ npc' = [npc EXCEPT ![g] = "woken"] /\ list' = list
         \/ Unnotified(g) /\ npc' = [npc EXCEPT ![g] = "parked"] /\ list' = Append(list, g)
  BY LessFact DEF NotifyListWait, NGoto
<1>2. toReady[g] = <<>> /\ g \notin ToSet(list) /\ ~Taken(g)
  BY <1>1, ListFact
<1>3. CASE npc' = [npc EXCEPT ![g] = "woken"] /\ ~Unnotified(g) /\ list' = list
  <2>1. npc'[g] = "woken" /\ \A h \in Goroutines : h # g => npc'[h] = npc[h]
    BY <1>3 DEF ListTypeOK
  <2> QED BY <1>1, <1>2, <1>3, <2>1, MovesAlone
<1>4. CASE npc' = [npc EXCEPT ![g] = "parked"] /\ Unnotified(g) /\ list' = Append(list, g)
  <2>1. npc'[g] = "parked" /\ \A h \in Goroutines : h # g => npc'[h] = npc[h]
    BY <1>4 DEF ListTypeOK
  <2>2. \A h \in Goroutines : Taken(h)' <=> Taken(h)
    BY <1>1 DEF Taken
  <2>3. /\ ToSet(list)' = ToSet(list) \cup {g}
        /\ IsInjective(list) => IsInjective(list)'
    <3>1. list \in Seq(Goroutines)
      BY DEF ListTypeOK
    <3>2. /\ ToSet(Append(list, g)) = ToSet(list) \cup {g}
          /\ IsInjective(list) => IsInjective(Append(list, g))
      BY <1>2, <3>1, AppendFact
    <3> QED BY <1>4, <3>2, Zenon
  <2>4. ListInv'
    <3>1. \A h \in ToSet(list)' : npc'[h] = "parked" /\ ~Taken(h)'
      BY <1>2, <2>1, <2>2, <2>3, ListFact DEF ListInv
    <3>2. \A h \in Goroutines : npc'[h] = "parked" => h \in ToSet(list)' \/ Taken(h)'
      BY <2>1, <2>2, <2>3 DEF ListInv
    <3>3. ASSUME NEW h \in Goroutines
          PROVE  /\ toReady[h] # <<>> => npc'[h] = "ready"
                 /\ \A f \in ToSet(toReady[h]) : npc'[f] = "parked"
      <4>1. toReady[h] # <<>> => h # g
        BY <1>2
      <4>2. \A f \in ToSet(toReady[h]) : f \in Goroutines /\ npc[f] = "parked" /\ f # g
        BY <1>1, ListFact DEF ListInv
      <4> QED BY <2>1, <4>1, <4>2 DEF ListInv
    <3> QED BY <1>1, <2>3, <3>1, <3>2, <3>3 DEF ListInv
  <2>5. ASSUME NEW h \in Goroutines
        PROVE  Unnotified(h)' <=> Unnotified(h)
    <3>1. Outstanding' = Outstanding /\ Minus(ticketOf[h], notify)' = Minus(ticketOf[h], notify)
      BY <1>1 DEF Outstanding, Minus
    <3>2. CASE h = g
      BY <1>1, <1>4, <2>1, <2>2, <3>1, <3>2 DEF Unnotified
    <3>3. CASE h # g
      BY <2>1, <2>2, <3>1, <3>3 DEF Unnotified
    <3> QED BY <3>2, <3>3
  <2>6. \A h \in Goroutines : npc'[h] = "added" => npc[h] = "added"
    BY <2>1
  <2>7. \A h \in ToSet(list)' : h \in Goroutines /\ Unnotified(h)
    BY <1>4, <2>3, ListFact DEF WindowInv
  <2>8. WindowInv' /\ WindowSame
    BY <1>1, <2>5, <2>6, <2>7, WindowKept
  <2> QED BY <2>4, <2>8
<1> QED BY <1>1, <1>3, <1>4

\* The steps that touch neither the counters nor the lists.
LEMMA PlainKeepsInv ==
  ASSUME ListTypeOK, ListInv, WindowInv, NEW g \in Goroutines,
         \/ NotifyListWaitReturn(g)
         \/ \E all \in BOOLEAN : CallNotify(g, all)
         \/ LoadWait(g)
         \/ LoadNotify(g)
  PROVE  ListInv' /\ WindowInv' /\ WindowSame
<1>1. /\ npc[g] \in {"woken", "idle", "start", "loaded"}
      /\ \E label \in {"idle", "start", "loaded", "lock"} : npc' = [npc EXCEPT ![g] = label]
      /\ ticketOf' = ticketOf \/ ticketOf' = [ticketOf EXCEPT ![g] = 0]
      /\ UNCHANGED <<list, toReady, wait, notify>>
  BY DEF NotifyListWaitReturn, CallNotify, LoadWait, LoadNotify, NotifierReturns, NGoto
<1>2. /\ npc'[g] \notin {"parked", "added"}
      /\ \A h \in Goroutines : h # g => npc'[h] = npc[h] /\ ticketOf'[h] = ticketOf[h]
  BY <1>1 DEF ListTypeOK
<1>3. toReady[g] = <<>> /\ ~Unnotified(g) /\ npc[g] # "parked"
  BY <1>1, ListFact DEF Unnotified
<1> QED BY <1>1, <1>2, <1>3, MovesAlone

\* Broadcast takes the whole list, and every ticket is notified.
LEMMA AllKeepsInv ==
  ASSUME ListTypeOK, ListInv, WindowInv, NEW g \in Goroutines, NotifyAll(g)
  PROVE  ListInv' /\ WindowInv' /\ WindowCloses
<1>1. /\ npc[g] = "lock" /\ npc' = [npc EXCEPT ![g] = "ready"]
      /\ toReady' = [toReady EXCEPT ![g] = list] /\ list' = <<>>
      /\ notify' = wait /\ UNCHANGED <<wait, ticketOf>>
  BY DEF NotifyAll, NGoto
<1>2. /\ npc'[g] = "ready" /\ toReady'[g] = list
      /\ \A h \in Goroutines : h # g => npc'[h] = npc[h] /\ toReady'[h] = toReady[h]
  BY <1>1 DEF ListTypeOK
<1>3. toReady[g] = <<>> /\ g \notin ToSet(list) /\ ~Taken(g)
  BY <1>1, ListFact
<1>4. ToSet(list)' = {} /\ IsInjective(list)'
  BY <1>1 DEF ToSet, IsInjective
<1>5. \A h \in Goroutines : h # g /\ toReady[h] # <<>> => npc[h] = "ready"
  BY DEF ListInv
<1>6. ASSUME NEW h \in Goroutines
      PROVE  Taken(h)' <=> Taken(h) \/ h \in ToSet(list)
  <2>1. ToSet(toReady[g]) = {}
    BY <1>3 DEF ToSet
  <2> QED BY <1>2, <2>1 DEF Taken
<1>7. ListInv'
  <2>1. \A h \in Goroutines : npc'[h] = "parked" => Taken(h)'
    BY <1>2, <1>6 DEF ListInv
  <2>2. ASSUME NEW h \in Goroutines
        PROVE  /\ toReady'[h] # <<>> => npc'[h] = "ready"
               /\ IsInjective(toReady'[h])
    BY <1>2, <1>5 DEF ListInv
  <2>3. ASSUME NEW h \in Goroutines, NEW x \in ToSet(toReady'[h])
        PROVE  /\ npc'[x] = "parked"
               /\ \A f \in Goroutines : x \in ToSet(toReady'[f]) => f = h
    <3>1. CASE h = g
      <4>1. x \in ToSet(list) /\ x \in Goroutines /\ npc[x] = "parked" /\ ~Taken(x)
        BY <1>2, <2>3, <3>1, ListFact DEF ListInv
      <4> QED BY <1>1, <1>2, <3>1, <4>1 DEF Taken
    <3>2. CASE h # g
      <4>1. x \in ToSet(toReady[h])
        BY <1>2, <2>3, <3>2
      <4>2. x \in Goroutines /\ npc[x] = "parked" /\ Taken(x)
        BY <4>1, ListFact DEF ListInv, Taken
      <4>3. x \notin ToSet(list)
        BY <4>2 DEF ListInv
      <4> QED BY <1>1, <1>2, <4>1, <4>2, <4>3 DEF ListInv
    <3> QED BY <3>1, <3>2
  <2> QED BY <1>4, <2>1, <2>2, <2>3 DEF ListInv
<1>8. WindowInv' /\ WindowCloses
  <2>1. Outstanding' = 0
    BY <1>1, WindowTypes, SameCount DEF Outstanding, Minus
  <2>2. ASSUME NEW h \in Goroutines
        PROVE  ~Unnotified(h)'
    <3>1. Minus(ticketOf[h], notify)' \in Nat
      <4>1. Minus(ticketOf[h], notify)' = Minus(ticketOf[h], wait)
        BY <1>1 DEF Minus
      <4>2. Minus(ticketOf[h], wait) \in Counts
        BY WindowTypes, MinusFact
      <4> QED BY <4>1, <4>2, CountFact
    <3> QED BY <2>1, <3>1 DEF Unnotified
  <2>3. ASSUME NEW h \in Goroutines, npc'[h] = "added"
        PROVE  Minus(wait, ticketOf[h])' \in 1 .. Modulus \div 2
    <3>1. npc[h] = "added"
      BY <1>2, <2>3
    <3> QED BY <1>1, <3>1 DEF WindowInv, Minus
  <2> QED BY <1>4, <2>1, <2>2, <2>3 DEF WindowInv, WindowCloses
<1> QED BY <1>7, <1>8

\* The window when the first ticket in it is notified.
LEMMA WindowMoves ==
  ASSUME ListTypeOK, WindowInv, notify # wait, notify' = Next1(notify), UNCHANGED <<wait, ticketOf>>,
         \A h \in Goroutines : Minus(ticketOf[h], notify) # 0 =>
           (npc'[h] \in {"added", "parked"} /\ ~Taken(h)'
              <=> npc[h] \in {"added", "parked"} /\ ~Taken(h)),
         \A h \in Goroutines : npc'[h] = "added" => npc[h] = "added",
         \A h \in ToSet(list)' : h \in Goroutines /\ Unnotified(h) /\ Minus(ticketOf[h], notify) # 0
  PROVE  WindowInv' /\ WindowShrinks
<1>1. /\ wait \in Counts /\ notify \in Counts /\ Outstanding \in Nat /\ Outstanding < Modulus
      /\ \A h \in Goroutines : ticketOf[h] \in Counts /\ Minus(ticketOf[h], notify) \in Nat
      /\ Modulus \in Nat
  BY WindowTypes, CountFact, WidthFact
<1>2. Outstanding # 0 /\ Outstanding' = Outstanding - 1
  <2>1. Outstanding # 0
    BY <1>1, SameCount DEF Outstanding
  <2>2. Outstanding' = Minus(wait, Next1(notify))
    BY DEF Outstanding, Minus
  <2> QED BY <1>1, <2>1, <2>2, MovesFact DEF Outstanding
<1>3. ASSUME NEW h \in Goroutines
      PROVE  Minus(ticketOf[h], notify)' = IF Minus(ticketOf[h], notify) = 0
                                             THEN Modulus - 1 ELSE Minus(ticketOf[h], notify) - 1
  <2>1. Minus(ticketOf[h], notify)' = Minus(ticketOf[h], Next1(notify))
    BY DEF Minus
  <2> QED BY <1>1, <2>1, MovesFact
<1>4. ASSUME NEW h \in Goroutines
      PROVE  Unnotified(h)' <=> Unnotified(h) /\ Minus(ticketOf[h], notify) # 0
  <2>1. CASE Minus(ticketOf[h], notify) = 0
    <3>1. ~(Minus(ticketOf[h], notify)' < Outstanding')
      BY <1>1, <1>2, <1>3, <2>1
    <3> QED BY <2>1, <3>1 DEF Unnotified
  <2>2. CASE Minus(ticketOf[h], notify) # 0
    <3>1. Minus(ticketOf[h], notify)' < Outstanding' <=> Minus(ticketOf[h], notify) < Outstanding
      BY <1>1, <1>2, <1>3, <2>2
    <3> QED BY <2>2, <3>1 DEF Unnotified
  <2> QED BY <2>1, <2>2
<1>5. \A h \in ToSet(list)' : Unnotified(h)'
  BY <1>4
<1>6. ASSUME NEW h \in Goroutines, npc'[h] = "added"
      PROVE  Minus(wait, ticketOf[h])' \in 1 .. Modulus \div 2
  BY <1>6 DEF WindowInv, Minus
<1>7. ASSUME NEW f \in Goroutines, NEW h \in Goroutines,
             Unnotified(f)', Unnotified(h)', ticketOf'[f] = ticketOf'[h]
      PROVE  f = h
  BY <1>4, <1>7 DEF WindowInv
<1>8. ASSUME NEW i \in 0 .. Outstanding' - 1
      PROVE  \E h \in Goroutines : Unnotified(h)' /\ Minus(ticketOf[h], notify)' = i
  <2>1. i + 1 \in 0 .. Outstanding - 1 /\ i + 1 # 0 /\ i + 1 - 1 = i
    BY <1>1, <1>2
  <2>2. PICK h \in Goroutines : Unnotified(h) /\ Minus(ticketOf[h], notify) = i + 1
    BY <2>1 DEF WindowInv
  <2> QED BY <1>3, <1>4, <2>1, <2>2
<1>9. WindowInv'
  BY <1>5, <1>6, <1>7, <1>8 DEF WindowInv
<1>10. WindowShrinks
  BY <1>2, <1>3, <1>4 DEF WindowShrinks
<1> QED BY <1>9, <1>10

\* Signal notifies the next ticket; its waiter may not have parked yet.
LEMMA OneKeepsInv ==
  ASSUME ListTypeOK, ListInv, WindowInv, NEW g \in Goroutines, NotifyOne(g)
  PROVE  ListInv' /\ WindowInv' /\ (WindowSame \/ WindowShrinks)
<1> DEFINE found == {i \in DOMAIN list : ticketOf[list[i]] = notify}
<1>1. npc[g] = "lock" /\ UNCHANGED <<wait, ticketOf>>
  BY DEF NotifyOne
<1>2. toReady[g] = <<>> /\ g \notin ToSet(list) /\ ~Taken(g) /\ ~Unnotified(g)
  BY <1>1, ListFact DEF Unnotified
<1>3. CASE notify = wait /\ NotifierReturns(g) /\ UNCHANGED <<notify, list, toReady>>
  <2>1. npc'[g] = "idle" /\ \A h \in Goroutines : h # g => npc'[h] = npc[h]
    BY <1>3 DEF NotifierReturns, NGoto, ListTypeOK
  <2> QED BY <1>1, <1>2, <1>3, <2>1, MovesAlone
<1>4. CASE /\ notify # wait /\ notify' = Next1(notify) /\ NGoto(g, "ready")
           /\ found = {} /\ UNCHANGED <<list, toReady>>
  <2>1. npc'[g] = "ready" /\ \A h \in Goroutines : h # g => npc'[h] = npc[h]
    BY <1>4 DEF NGoto, ListTypeOK
  <2>2. ListInv' /\ \A h \in Goroutines : Taken(h)' <=> Taken(h)
    BY <1>1, <1>2, <1>4, <2>1, ListKept
  <2>3. \A h \in Goroutines : (npc'[h] \in {"added", "parked"} /\ ~Taken(h)'
                                 <=> npc[h] \in {"added", "parked"} /\ ~Taken(h))
    BY <1>1, <2>1, <2>2
  <2>4. \A h \in Goroutines : npc'[h] = "added" => npc[h] = "added"
    BY <2>1
  <2>5. \A h \in ToSet(list)' : h \in Goroutines /\ Unnotified(h) /\ Minus(ticketOf[h], notify) # 0
    <3>1. \A h \in ToSet(list) : h \in Goroutines /\ Unnotified(h) /\ ticketOf[h] # notify
      BY <1>4, ListFact DEF WindowInv, ToSet
    <3>2. \A h \in ToSet(list) : Minus(ticketOf[h], notify) # 0
      BY <3>1, WindowTypes, SameCount
    <3> QED BY <1>4, <3>1, <3>2
  <2>6. WindowInv' /\ WindowShrinks
    BY <1>1, <1>4, <2>3, <2>4, <2>5, WindowMoves
  <2> QED BY <2>2, <2>6
<1>5. ASSUME NEW i \in found, notify # wait, notify' = Next1(notify), NGoto(g, "ready"),
             list' = RemoveAt(list, i), toReady' = [toReady EXCEPT ![g] = <<list[i]>>]
      PROVE  ListInv' /\ WindowInv' /\ WindowShrinks
  <2> DEFINE x == list[i]
  <2>1. /\ x \in ToSet(list) /\ x \in Goroutines /\ x # g /\ npc[x] = "parked" /\ ~Taken(x)
        /\ Unnotified(x) /\ ticketOf[x] = notify
    <3>1. x \in ToSet(list) /\ ticketOf[x] = notify
      BY DEF ToSet
    <3>2. x \in Goroutines /\ npc[x] = "parked" /\ ~Taken(x) /\ Unnotified(x)
      BY <3>1, ListFact DEF ListInv, WindowInv
    <3> QED BY <1>1, <3>1, <3>2
  <2>2. /\ npc'[g] = "ready" /\ toReady'[g] = <<x>>
        /\ \A h \in Goroutines : h # g => npc'[h] = npc[h] /\ toReady'[h] = toReady[h]
    BY <1>5 DEF NGoto, ListTypeOK
  <2>3. IsInjective(list)' /\ ToSet(list)' = ToSet(list) \ {x}
    <3>1. list \in Seq(Goroutines) /\ i \in DOMAIN list /\ IsInjective(list)
      BY DEF ListTypeOK, ListInv
    <3> QED BY <1>5, <3>1, RemoveFact
  <2>4. ToSet(toReady'[g]) = {x} /\ IsInjective(toReady'[g]) /\ ToSet(toReady[g]) = {}
    BY <1>2, <2>2 DEF ToSet, IsInjective
  <2> HIDE DEF x
  <2>5. \A h \in Goroutines : Taken(h)' <=> Taken(h) \/ h = x
    BY <1>1, <2>2, <2>4 DEF Taken
  <2>6. ListInv'
    <3>1. \A h \in ToSet(list)' : npc'[h] = "parked" /\ ~Taken(h)'
      BY <1>1, <2>2, <2>3, <2>5, ListFact DEF ListInv
    <3>2. \A h \in Goroutines : npc'[h] = "parked" => h \in ToSet(list)' \/ Taken(h)'
      BY <1>1, <2>2, <2>3, <2>5 DEF ListInv
    <3>3. ASSUME NEW h \in Goroutines
          PROVE  /\ toReady'[h] # <<>> => npc'[h] = "ready"
                 /\ IsInjective(toReady'[h])
      BY <2>2, <2>4, <3>3 DEF ListInv
    <3>4. ASSUME NEW h \in Goroutines, NEW y \in ToSet(toReady'[h])
          PROVE  npc'[y] = "parked" /\ \A f \in Goroutines : y \in ToSet(toReady'[f]) => f = h
      <4>1. CASE h = g
        <5>1. y = x
          BY <2>4, <3>4, <4>1
        <5> QED BY <2>1, <2>2, <4>1, <5>1 DEF Taken
      <4>2. CASE h # g
        <5>1. y \in ToSet(toReady[h])
          BY <2>2, <3>4, <4>2
        <5>2. y \in Goroutines /\ npc[y] = "parked" /\ y # x
          BY <2>1, <5>1, ListFact DEF ListInv, Taken
        <5>3. npc'[y] = "parked"
          BY <1>1, <2>2, <5>2
        <5> QED BY <2>2, <2>4, <4>2, <5>1, <5>2, <5>3 DEF ListInv
      <4> QED BY <4>1, <4>2
    <3> QED BY <2>3, <3>1, <3>2, <3>3, <3>4 DEF ListInv
  <2>7. Minus(ticketOf[x], notify) = 0
    BY <2>1, WindowTypes, SameCount
  <2>8. \A h \in Goroutines : Minus(ticketOf[h], notify) # 0 =>
          (npc'[h] \in {"added", "parked"} /\ ~Taken(h)'
             <=> npc[h] \in {"added", "parked"} /\ ~Taken(h))
    BY <1>1, <2>2, <2>5, <2>7
  <2>9. \A h \in Goroutines : npc'[h] = "added" => npc[h] = "added"
    BY <2>2
  <2>10. \A h \in ToSet(list)' : h \in Goroutines /\ Unnotified(h) /\ Minus(ticketOf[h], notify) # 0
    <3>1. \A h \in ToSet(list) : h \in Goroutines /\ Unnotified(h)
      BY ListFact DEF WindowInv
    <3>2. \A h \in ToSet(list) : h # x => ticketOf[h] # notify
      BY <2>1, <3>1 DEF WindowInv
    <3>3. \A h \in Goroutines : ticketOf[h] # notify => Minus(ticketOf[h], notify) # 0
      BY WindowTypes, SameCount
    <3> QED BY <2>3, <3>1, <3>2, <3>3
  <2>11. WindowInv' /\ WindowShrinks
    BY <1>1, <1>5, <2>8, <2>9, <2>10, WindowMoves
  <2> QED BY <2>6, <2>11
<1> QED BY <1>3, <1>4, <1>5 DEF NotifyOne

\* The notifier readies the next goroutine, or returns.
LEMMA ReadyKeepsInv ==
  ASSUME ListTypeOK, ListInv, WindowInv, NEW g \in Goroutines, NotifyReady(g)
  PROVE  ListInv' /\ WindowInv' /\ WindowSame
<1>1. npc[g] = "ready" /\ UNCHANGED <<wait, notify, list, ticketOf>>
  BY DEF NotifyReady
<1>2. CASE toReady[g] = <<>> /\ NotifierReturns(g) /\ UNCHANGED toReady
  <2>1. npc'[g] = "idle" /\ \A h \in Goroutines : h # g => npc'[h] = npc[h]
    BY <1>2 DEF NotifierReturns, NGoto, ListTypeOK
  <2>2. ~Unnotified(g)
    BY <1>1 DEF Unnotified
  <2> QED BY <1>1, <1>2, <2>1, <2>2, MovesAlone
<1>3. CASE /\ toReady[g] # <<>> /\ toReady' = [toReady EXCEPT ![g] = Tail(@)]
           /\ NGoto(Head(toReady[g]), "woken")
  <2> DEFINE x == Head(toReady[g])
  <2>1. /\ x \in ToSet(toReady[g])
        /\ ToSet(Tail(toReady[g])) = ToSet(toReady[g]) \ {x} /\ IsInjective(Tail(toReady[g]))
    <3>1. toReady[g] \in Seq(Goroutines) /\ IsInjective(toReady[g])
      BY DEF ListTypeOK, ListInv
    <3> QED BY <1>3, <3>1, ElementsFact
  <2>2. x \in Goroutines /\ npc[x] = "parked" /\ Taken(x) /\ x # g /\ x \notin ToSet(list)
    <3>1. x \in Goroutines /\ npc[x] = "parked" /\ Taken(x)
      BY <2>1, ListFact DEF ListInv, Taken
    <3> QED BY <1>1, <3>1 DEF ListInv
  <2>3. /\ npc'[x] = "woken" /\ \A h \in Goroutines : h # x => npc'[h] = npc[h]
        /\ toReady'[g] = Tail(toReady[g])
        /\ \A h \in Goroutines : h # g => toReady'[h] = toReady[h]
    BY <1>3, <2>2 DEF NGoto, ListTypeOK
  <2> HIDE DEF x
  <2>4. \A h \in Goroutines : Taken(h)' <=> Taken(h) /\ h # x
    <3>1. ASSUME NEW h \in Goroutines, NEW f \in Goroutines
          PROVE  h \in ToSet(toReady'[f]) <=> h \in ToSet(toReady[f]) /\ h # x
      <4>1. CASE f = g
        BY <2>1, <2>3, <4>1
      <4>2. CASE f # g
        BY <2>1, <2>3, <4>2 DEF ListInv
      <4> QED BY <4>1, <4>2
    <3> QED BY <3>1 DEF Taken
  <2>5. ListInv'
    <3>1. \A h \in ToSet(list) : npc'[h] = "parked" /\ ~Taken(h)'
      BY <2>2, <2>3, <2>4, ListFact DEF ListInv
    <3>2. \A h \in Goroutines : npc'[h] = "parked" => h \in ToSet(list) \/ Taken(h)'
      BY <2>3, <2>4 DEF ListInv
    <3>3. ASSUME NEW h \in Goroutines
          PROVE  /\ toReady'[h] # <<>> => npc'[h] = "ready"
                 /\ IsInjective(toReady'[h])
      <4>1. toReady'[h] # <<>> => npc[h] = "ready"
        BY <1>1, <2>3 DEF ListInv
      <4>2. npc[h] = "ready" => h # x
        BY <2>2
      <4>3. IsInjective(toReady'[h])
        BY <2>1, <2>3 DEF ListInv
      <4> QED BY <2>3, <4>1, <4>2, <4>3
    <3>4. ASSUME NEW h \in Goroutines, NEW y \in ToSet(toReady'[h])
          PROVE  npc'[y] = "parked" /\ \A f \in Goroutines : y \in ToSet(toReady'[f]) => f = h
      <4>1. \A f \in Goroutines : ToSet(toReady'[f]) \subseteq ToSet(toReady[f])
        BY <2>1, <2>3
      <4>2. y \in Goroutines /\ npc[y] = "parked" /\ y \in ToSet(toReady[h])
        BY <3>4, <4>1, ListFact DEF ListInv
      <4>3. y # x
        <5>1. CASE h = g
          BY <2>1, <2>3, <3>4, <5>1
        <5>2. CASE h # g
          BY <2>1, <4>2, <5>2 DEF ListInv
        <5> QED BY <5>1, <5>2
      <4> QED BY <2>3, <4>1, <4>2, <4>3 DEF ListInv
    <3> QED BY <1>1, <3>1, <3>2, <3>3, <3>4 DEF ListInv
  <2>6. ASSUME NEW h \in Goroutines
        PROVE  Unnotified(h)' <=> Unnotified(h)
    <3>1. Outstanding' = Outstanding /\ Minus(ticketOf[h], notify)' = Minus(ticketOf[h], notify)
      BY <1>1 DEF Outstanding, Minus
    <3> QED BY <2>2, <2>3, <2>4, <3>1 DEF Unnotified
  <2>7. \A h \in Goroutines : npc'[h] = "added" => npc[h] = "added"
    BY <2>2, <2>3
  <2>8. \A h \in ToSet(list)' : h \in Goroutines /\ Unnotified(h)
    BY <1>1, ListFact DEF WindowInv
  <2>9. WindowInv' /\ WindowSame
    BY <1>1, <2>6, <2>7, <2>8, WindowKept
  <2> QED BY <2>5, <2>9
<1> QED BY <1>2, <1>3 DEF NotifyReady

\* The list's variables keep their types.
LEMMA ListTypesKept ==
  ASSUME ListTypeOK, ListInv, NEW g \in Goroutines,
         \/ NotifyListAdd(g)
         \/ \E all \in BOOLEAN : CallNotify(g, all)
         \/ ListStep(g)
  PROVE  ListTypeOK'
<1>1. wait \in Counts /\ 0 \in Counts /\ Next1(wait) \in Counts /\ Next1(notify) \in Counts
  <2>1. 0 \in Counts
    BY WidthFact, CountFact
  <2> QED BY <2>1, Next1Fact DEF ListTypeOK
<1>2. CASE NotifyListAdd(g)
  BY <1>1, <1>2 DEF ListTypeOK, NotifyListAdd, NGoto
<1>3. CASE \E all \in BOOLEAN : CallNotify(g, all)
  BY <1>3 DEF ListTypeOK, CallNotify, NGoto
<1>4. CASE NotifyListWait(g)
  <2>1. Append(list, g) \in Seq(Goroutines)
    BY ElementsFact DEF ListTypeOK
  <2> QED BY <1>4, <2>1 DEF ListTypeOK, NotifyListWait, NGoto
<1>5. CASE NotifyListWaitReturn(g)
  BY <1>1, <1>5 DEF ListTypeOK, NotifyListWaitReturn, NGoto
<1>6. CASE LoadWait(g)
  BY <1>1, <1>6 DEF ListTypeOK, LoadWait, NGoto
<1>7. CASE LoadNotify(g)
  BY <1>1, <1>7 DEF ListTypeOK, LoadNotify, NotifierReturns, NGoto
<1>8. CASE NotifyAll(g)
  BY <1>8 DEF ListTypeOK, NotifyAll, NGoto
<1>9. CASE NotifyOne(g)
  <2>1. /\ list' \in Seq(Goroutines)
        /\ toReady' \in [Goroutines -> Seq(Goroutines)]
    <3>1. \A i \in DOMAIN list : RemoveAt(list, i) \in Seq(Goroutines) /\ <<list[i]>> \in Seq(Goroutines)
      BY RemoveFact DEF ListTypeOK
    <3> QED BY <1>9, <3>1 DEF ListTypeOK, NotifyOne
  <2> QED BY <1>1, <1>9, <2>1 DEF ListTypeOK, NotifyOne, NotifierReturns, NGoto
<1>10. CASE NotifyReady(g)
  <2>1. toReady' \in [Goroutines -> Seq(Goroutines)]
    <3>1. toReady[g] # <<>> => Tail(toReady[g]) \in Seq(Goroutines)
      BY ElementsFact DEF ListTypeOK, ListInv
    <3> QED BY <1>10, <3>1 DEF ListTypeOK, NotifyReady
  <2> QED BY <1>1, <1>10, <2>1 DEF ListTypeOK, NotifyReady, NotifierReturns, NGoto
<1> QED BY <1>2, <1>3, <1>4, <1>5, <1>6, <1>7, <1>8, <1>9, <1>10 DEF ListStep

\* What a notifier saw excuses it, as long as only it moves itself.
LEMMA ExcuseKept ==
  ASSUME CondTypeOK, ExcuseInv, Observe,
         \A h \in Goroutines : npc'[h] = "loaded" =>
           \/ npc[h] = "loaded" /\ waitSeen'[h] = waitSeen[h]
           \/ waitSeen'[h] = wait'
  PROVE  ExcuseInv'
<1> SUFFICES ASSUME NEW g \in Goroutines
             PROVE  /\ Notifying(g)' /\ wait' = notify' => quiet'[g]
                    /\ npc'[g] = "loaded" /\ waitSeen'[g] = notify' => quiet'[g] \/ overtaken'[g]
  BY DEF ExcuseInv
<1>1. /\ Notifying(g)' => quiet'[g] = (quiet[g] \/ wait' = notify')
      /\ Notifying(g)' => overtaken'[g] = (overtaken[g] \/ (Notifying(g) /\ notify' # notify))
  BY DEF Observe
<1>2. ASSUME Notifying(g)', wait' = notify'
      PROVE  quiet'[g]
  BY <1>1, <1>2
<1>3. ASSUME npc'[g] = "loaded", waitSeen'[g] = notify'
      PROVE  quiet'[g] \/ overtaken'[g]
  <2>1. Notifying(g)'
    BY <1>3 DEF Notifying
  <2>2. CASE waitSeen'[g] = wait'
    BY <1>2, <1>3, <2>1, <2>2
  <2>3. CASE npc[g] = "loaded" /\ waitSeen'[g] = waitSeen[g]
    <3>1. CASE notify' = notify
      BY <1>1, <1>3, <2>1, <2>3, <3>1 DEF ExcuseInv
    <3>2. CASE notify' # notify
      BY <1>1, <2>1, <2>3, <3>2 DEF Notifying
    <3> QED BY <3>1, <3>2
  <2> QED BY <1>3, <2>2, <2>3
<1> QED BY <1>2, <1>3

\* What a step does to a notifier between its two loads, and to one that returns.
LEMMA NotifierFact ==
  ASSUME ListTypeOK, ListInv, NEW g \in Goroutines,
         \/ NotifyListAdd(g)
         \/ \E all \in BOOLEAN : CallNotify(g, all)
         \/ ListStep(g)
  PROVE  \A h \in Goroutines :
           /\ npc'[h] = "loaded" => \/ npc[h] = "loaded" /\ waitSeen'[h] = waitSeen[h]
                                    \/ waitSeen'[h] = wait'
           /\ NotifierReturnsIdle(h) => \/ npc[h] = "loaded" /\ waitSeen[h] = notify
                                        \/ Notifying(h) /\ wait = notify
<1> USE DEF NotifierReturnsIdle, Notifying
<1> TAKE h \in Goroutines
<1>1. CASE NotifyListAdd(g)
  BY <1>1 DEF ListTypeOK, NotifyListAdd, NGoto
<1>2. CASE \E all \in BOOLEAN : CallNotify(g, all)
  BY <1>2 DEF ListTypeOK, CallNotify, NGoto
<1>3. CASE NotifyListWait(g)
  BY <1>3 DEF ListTypeOK, NotifyListWait, NGoto
<1>4. CASE NotifyListWaitReturn(g)
  BY <1>4 DEF ListTypeOK, NotifyListWaitReturn, NGoto
<1>5. CASE LoadWait(g)
  BY <1>5 DEF ListTypeOK, LoadWait, NGoto
<1>6. CASE LoadNotify(g)
  BY <1>6 DEF ListTypeOK, LoadNotify, NotifierReturns, NGoto
<1>7. CASE NotifyAll(g)
  BY <1>7 DEF ListTypeOK, NotifyAll, NGoto
<1>8. CASE NotifyOne(g)
  BY <1>8 DEF ListTypeOK, NotifyOne, NotifierReturns, NGoto
<1>9. CASE NotifyReady(g)
  BY <1>9 DEF ListTypeOK, NotifyReady, NotifierReturns, NGoto
<1> QED BY <1>1, <1>2, <1>3, <1>4, <1>5, <1>6, <1>7, <1>8, <1>9 DEF ListStep

\* The cases of a step.
LEMMA CondStepFact ==
  ASSUME NEW g \in Goroutines, CondWait(g) \/ Signal(g) \/ Broadcast(g) \/ CondRun(g)
  PROVE  /\ Observe
         /\ \/ NotifyListAdd(g)
            \/ \E all \in BOOLEAN : CallNotify(g, all)
            \/ ListStep(g)
BY DEF CondWait, Signal, Broadcast, CondRun

\* CondInv is inductive.
LEMMA CondInvInit == CondInit => CondInv
<1> SUFFICES ASSUME CondInit PROVE CondInv
  OBVIOUS
<1>1. /\ wait = 0 /\ notify = 0 /\ list = <<>>
      /\ \A g \in Goroutines : npc[g] = "idle" /\ toReady[g] = <<>>
  BY DEF CondInit, ListInit
<1>2. 0 \in Counts
  BY WidthFact, CountFact
<1>3. CondTypeOK
  BY <1>2 DEF CondTypeOK, ListTypeOK, CondInit, ListInit
<1>4. ToSet(<<>>) = {} /\ IsInjective(<<>>)
  BY DEF ToSet, IsInjective
<1>5. ListInv
  BY <1>1, <1>4 DEF ListInv
<1>6. Outstanding = 0
  BY <1>1, <1>2, SameCount DEF Outstanding
<1>7. WindowInv
  <2>1. \A g \in Goroutines : ~Unnotified(g)
    BY <1>1 DEF Unnotified
  <2> QED BY <1>1, <1>4, <1>6, <2>1 DEF WindowInv
<1>8. ExcuseInv
  BY <1>1 DEF ExcuseInv, Notifying
<1> QED BY <1>3, <1>5, <1>7, <1>8 DEF CondInv

LEMMA CondInvStep == CondInv /\ [CondNext]_condClientVars => CondInv'
<1> SUFFICES ASSUME CondInv, [CondNext]_condClientVars PROVE CondInv'
  OBVIOUS
<1>1. CASE UNCHANGED condClientVars
  BY <1>1 DEF CondInv, CondTypeOK, ListTypeOK, ListInv, WindowInv, ExcuseInv, Notifying,
       Taken, Unnotified, Outstanding, Minus, condClientVars, listVars
<1>2. ASSUME NEW g \in Goroutines, CondWait(g) \/ Signal(g) \/ Broadcast(g) \/ CondRun(g)
      PROVE  CondInv'
  <2>1. ListTypeOK /\ ListInv /\ WindowInv /\ ExcuseInv /\ CondTypeOK
    BY DEF CondInv, CondTypeOK
  <2>2. ListInv' /\ WindowInv'
    <3>1. CASE CondWait(g)
      BY <2>1, <3>1, AddKeepsInv
    <3>2. CASE \E all \in BOOLEAN : CallNotify(g, all)
      BY <2>1, <3>2, PlainKeepsInv
    <3>3. CASE NotifyListWait(g)
      BY <2>1, <3>3, ParkKeepsInv
    <3>4. CASE NotifyListWaitReturn(g) \/ LoadWait(g) \/ LoadNotify(g)
      BY <2>1, <3>4, PlainKeepsInv
    <3>5. CASE NotifyAll(g)
      BY <2>1, <3>5, AllKeepsInv
    <3>6. CASE NotifyOne(g)
      BY <2>1, <3>6, OneKeepsInv
    <3>7. CASE NotifyReady(g)
      BY <2>1, <3>7, ReadyKeepsInv
    <3> QED BY <1>2, <3>1, <3>2, <3>3, <3>4, <3>5, <3>6, <3>7 DEF Signal, Broadcast, CondRun, ListStep
  <2>3. CondTypeOK'
    <3>1. ListTypeOK'
      BY <1>2, <2>1, CondStepFact, ListTypesKept
    <3>2. Observe /\ quiet \in [Goroutines -> BOOLEAN] /\ overtaken \in [Goroutines -> BOOLEAN]
      BY <1>2, <2>1, CondStepFact DEF CondTypeOK
    <3>3. quiet' \in [Goroutines -> BOOLEAN] /\ overtaken' \in [Goroutines -> BOOLEAN]
      BY <3>2 DEF Observe
    <3> QED BY <3>1, <3>3 DEF CondTypeOK
  <2>4. ExcuseInv'
    <3>1. Observe
      BY <1>2, CondStepFact
    <3>2. \A h \in Goroutines : npc'[h] = "loaded" =>
            \/ npc[h] = "loaded" /\ waitSeen'[h] = waitSeen[h]
            \/ waitSeen'[h] = wait'
      BY <1>2, <2>1, CondStepFact, NotifierFact
    <3> QED BY <2>1, <3>1, <3>2, ExcuseKept
  <2> QED BY <2>2, <2>3, <2>4 DEF CondInv
<1> QED BY <1>1, <1>2 DEF CondNext

LEMMA CondInvAlways == CondBehavior => []CondInv
BY CondInvInit, CondInvStep, PTL DEF CondBehavior

\* TicketsHeld from the places in the window.
LEMMA TicketsHeldFact == CondInv => TicketsHeld
<1> SUFFICES ASSUME CondInv PROVE TicketsHeld
  OBVIOUS
<1>1. ListTypeOK /\ ListInv /\ WindowInv
  BY DEF CondInv, CondTypeOK
<1>2. Cardinality({g \in Goroutines : Unnotified(g)}) = Outstanding
  BY <1>1, WindowCount
<1>3. ASSUME NEW i \in 0 .. Outstanding - 1
      PROVE  \E g \in Goroutines : Unnotified(g) /\ ticketOf[g] = (notify + i) % Modulus
  <2>1. PICK g \in Goroutines : Unnotified(g) /\ Minus(ticketOf[g], notify) = i
    BY <1>1 DEF WindowInv
  <2>2. i \in Counts /\ ticketOf[g] \in Counts /\ notify \in Counts
    BY <1>1, <2>1, WindowTypes
  <2>3. ticketOf[g] = (notify + i) % Modulus
    BY <2>1, <2>2, PlaceFact
  <2> QED BY <2>1, <2>3
<1>4. ASSUME NEW g \in Goroutines, npc[g] = "parked"
      PROVE  Cardinality({i \in DOMAIN list : list[i] = g})
               + Cardinality({h \in Goroutines : g \in ToSet(toReady[h])}) = 1
  <2> DEFINE places == {i \in DOMAIN list : list[i] = g}
             takers == {h \in Goroutines : g \in ToSet(toReady[h])}
  <2>1. \/ places = {} /\ \E h \in Goroutines : takers = {h}
        \/ takers = {} /\ \E i \in DOMAIN list : places = {i}
    <3>1. CASE g \in ToSet(list)
      <4>1. PICK i \in DOMAIN list : list[i] = g
        BY <3>1 DEF ToSet
      <4>2. places = {i}
        BY <1>1, <4>1 DEF ListInv, IsInjective
      <4>3. takers = {}
        BY <1>1, <3>1 DEF ListInv, Taken
      <4> QED BY <4>2, <4>3
    <3>2. CASE g \notin ToSet(list)
      <4>1. PICK h \in Goroutines : g \in ToSet(toReady[h])
        BY <1>1, <1>4, <3>2 DEF ListInv, Taken
      <4>2. takers = {h}
        BY <1>1, <4>1 DEF ListInv
      <4>3. places = {}
        BY <3>2 DEF ToSet
      <4> QED BY <4>2, <4>3
    <3> QED BY <3>1, <3>2
  <2> HIDE DEF places, takers
  <2>2. Cardinality({}) = 0 /\ \A x : Cardinality({x}) = 1
    BY FS_Singleton, FS_EmptySet
  <2>3. \/ Cardinality(places) = 0 /\ Cardinality(takers) = 1
        \/ Cardinality(takers) = 0 /\ Cardinality(places) = 1
    BY <2>1, <2>2, Zenon
  <2>4. Cardinality(places) + Cardinality(takers) = 1
    BY <2>3
  <2> QED BY <2>4 DEF places, takers
<1> QED BY <1>2, <1>3, <1>4 DEF TicketsHeld

\* Each ticket between notify and wait has one waiter.
THEOREM CondTicketsHeld == CondBehavior => []TicketsHeld
BY CondInvAlways, TicketsHeldFact, PTL

LEMMA SignalExcusedStep ==
  CondInv /\ [CondNext]_condClientVars =>
    [\A g \in Goroutines : NotifierReturnsIdle(g) => quiet[g] \/ overtaken[g]]_condClientVars
<1> SUFFICES ASSUME CondInv, CondNext, NEW h \in Goroutines, NotifierReturnsIdle(h)
             PROVE  quiet[h] \/ overtaken[h]
  OBVIOUS
<1>1. ListTypeOK /\ ListInv /\ ExcuseInv
  BY DEF CondInv, CondTypeOK
<1>2. PICK g \in Goroutines : CondWait(g) \/ Signal(g) \/ Broadcast(g) \/ CondRun(g)
  BY DEF CondNext
<1>3. \/ npc[h] = "loaded" /\ waitSeen[h] = notify
      \/ Notifying(h) /\ wait = notify
  BY <1>1, <1>2, CondStepFact, NotifierFact
<1> QED BY <1>1, <1>3 DEF ExcuseInv

\* A Signal or Broadcast wakes nobody only if nobody waited at some moment of its call, or
\* another notifier woke somebody in between its two loads.
THEOREM CondSignalExcused == CondBehavior => SignalExcused
<1>1. CondInv /\ [CondNext]_condClientVars =>
        [\A g \in Goroutines : NotifierReturnsIdle(g) => quiet[g] \/ overtaken[g]]_condClientVars
  BY SignalExcusedStep
<1> QED BY <1>1, CondInvAlways, PTL DEF CondBehavior, SignalExcused

-----------------------------------------------------------------------------
(* sync.Cond implements CondSpec.                                          *)

\* The line holds the goroutines by their places in the window.
LineOK ==
  /\ Line \in Seq(Goroutines) /\ Len(Line) = Outstanding /\ Outstanding \in Nat
  /\ \A i \in 1 .. Outstanding : \A g \in Goroutines :
       Line[i] = g <=> Unnotified(g) /\ Minus(ticketOf[g], notify) = i - 1
  /\ \A g \in Goroutines : Unnotified(g) => Minus(ticketOf[g], notify) + 1 \in 1 .. Outstanding

LEMMA LineFact == CondInv => LineOK
<1> SUFFICES ASSUME CondInv PROVE LineOK
  OBVIOUS
<1>1. ListTypeOK /\ WindowInv
  BY DEF CondInv, CondTypeOK
<1>2. /\ Outstanding \in Nat /\ Outstanding < Modulus /\ notify \in Counts /\ notify \in Nat
      /\ \A g \in Goroutines : ticketOf[g] \in Counts /\ Minus(ticketOf[g], notify) \in Nat
  BY <1>1, WindowTypes, CountFact
<1>3. ASSUME NEW i \in 1 .. Outstanding
      PROVE  /\ Waiter(i) \in Goroutines
             /\ \A g \in Goroutines :
                  Waiter(i) = g <=> Unnotified(g) /\ Minus(ticketOf[g], notify) = i - 1
  <2>1. \A g \in Goroutines : Holds(g, i) <=> Unnotified(g) /\ Minus(ticketOf[g], notify) = i - 1
    <3>1. i - 1 \in Counts
      <4>1. i - 1 \in Nat /\ i - 1 < Modulus
        BY <1>2, WidthFact
      <4> QED BY <4>1, CountFact
    <3>2. notify + (i - 1) = notify + i - 1
      BY <1>2
    <3> QED BY <1>2, <3>1, <3>2, PlaceFact DEF Holds
  <2>2. PICK g \in Goroutines : Holds(g, i)
    <3>1. i - 1 \in 0 .. Outstanding - 1
      BY <1>2
    <3> QED BY <1>1, <2>1, <3>1 DEF WindowInv
  <2>3. Waiter(i) \in Goroutines /\ Holds(Waiter(i), i)
    <3>1. Waiter(i) \in Goroutines /\ (Holds(Waiter(i), i) \/ \A h \in Goroutines : ~Holds(h, i))
      BY <2>2 DEF Waiter
    <3> QED BY <2>2, <3>1
  <2>4. ASSUME NEW f \in Goroutines, NEW h \in Goroutines, Holds(f, i), Holds(h, i)
        PROVE  f = h
    BY <1>1, <2>4 DEF Holds, WindowInv
  <2> QED BY <2>1, <2>3, <2>4
<1>4. Line \in Seq(Goroutines) /\ Len(Line) = Outstanding
  BY <1>2, <1>3 DEF Line
<1>5. \A i \in 1 .. Outstanding : Line[i] = Waiter(i)
  BY DEF Line
<1>6. ASSUME NEW g \in Goroutines, Unnotified(g)
      PROVE  Minus(ticketOf[g], notify) + 1 \in 1 .. Outstanding
  BY <1>2, <1>6 DEF Unnotified
<1> QED BY <1>2, <1>3, <1>4, <1>5, <1>6 DEF LineOK

\* What becomes of the line with the window.
LEMMA LineMoves ==
  ASSUME LineOK, LineOK'
  PROVE  /\ WindowSame => Line' = Line
         /\ \A g \in Goroutines : WindowGrows(g) => Line' = Append(Line, g)
         /\ WindowShrinks => Line' = SubSeq(Line, 2, Len(Line)) /\ Line # <<>>
         /\ WindowCloses => Line' = <<>> /\ Line' = SubSeq(Line, Len(Line) + 1, Len(Line))
<1>1. /\ Line \in Seq(Goroutines) /\ Len(Line) = Outstanding /\ Outstanding \in Nat
      /\ \A i \in 1 .. Outstanding : Line[i] \in Goroutines
      /\ \A i \in 1 .. Outstanding : \A g \in Goroutines :
           Line[i] = g <=> Unnotified(g) /\ Minus(ticketOf[g], notify) = i - 1
  BY DEF LineOK
<1>2. /\ Line' \in Seq(Goroutines) /\ Len(Line') = Outstanding' /\ Outstanding' \in Nat
      /\ \A i \in 1 .. Outstanding' : \A g \in Goroutines :
           Line'[i] = g <=> Unnotified(g)' /\ Minus(ticketOf[g], notify)' = i - 1
  BY DEF LineOK
<1>3. ASSUME WindowSame
      PROVE  Line' = Line
  <2>1. \A i \in 1 .. Outstanding : Line'[i] = Line[i]
    BY <1>1, <1>2, <1>3 DEF WindowSame
  <2> QED BY <1>1, <1>2, <1>3, <2>1, SeqEqual DEF WindowSame
<1>4. ASSUME NEW g \in Goroutines, WindowGrows(g)
      PROVE  Line' = Append(Line, g)
  <2> DEFINE longer == Append(Line, g)
  <2>1. /\ longer \in Seq(Goroutines) /\ Len(longer) = Outstanding + 1
        /\ \A i \in 1 .. Outstanding : longer[i] = Line[i]
        /\ longer[Outstanding + 1] = g
    BY <1>1, AppendProperties
  <2>2. Outstanding' = Outstanding + 1
    BY <1>4 DEF WindowGrows
  <2> HIDE DEF longer
  <2>3. ASSUME NEW i \in 1 .. Outstanding
        PROVE  Line'[i] = longer[i]
    <3>1. PICK h \in Goroutines : h = Line[i]
      BY <1>1
    <3>2. Unnotified(h) /\ Minus(ticketOf[h], notify) = i - 1
      BY <1>1, <3>1
    <3>3. h # g
      BY <1>4, <3>2 DEF WindowGrows
    <3>4. Unnotified(h)' /\ Minus(ticketOf[h], notify)' = i - 1
      BY <1>4, <3>2, <3>3 DEF WindowGrows
    <3>5. i \in 1 .. Outstanding'
      BY <1>1, <2>2
    <3> QED BY <1>2, <2>1, <3>1, <3>4, <3>5
  <2>4. Line'[Outstanding + 1] = longer[Outstanding + 1]
    <3>1. Outstanding + 1 \in 1 .. Outstanding' /\ Outstanding + 1 - 1 = Outstanding
      BY <1>1, <2>2
    <3>2. PICK i \in 1 .. Outstanding' : i = Outstanding + 1
      BY <3>1
    <3>3. Unnotified(g)' /\ Minus(ticketOf[g], notify)' = i - 1
      BY <1>1, <1>4, <3>2 DEF WindowGrows
    <3>4. Line'[i] = g
      BY <1>2, <3>2, <3>3
    <3> QED BY <2>1, <3>2, <3>4
  <2>5. \A i \in 1 .. Outstanding' : Line'[i] = longer[i]
    BY <1>1, <2>2, <2>3, <2>4
  <2>6. Line' = longer
    BY <1>2, <2>1, <2>2, <2>5, SeqEqual
  <2> QED BY <2>6 DEF longer
<1>5. ASSUME WindowShrinks
      PROVE  Line' = SubSeq(Line, 2, Len(Line)) /\ Line # <<>>
  <2> DEFINE rest == SubSeq(Line, 2, Len(Line))
  <2>1. Outstanding # 0 /\ Outstanding' = Outstanding - 1
    BY <1>5 DEF WindowShrinks
  <2>2. /\ rest \in Seq(Goroutines) /\ Len(rest) = Outstanding - 1
        /\ \A i \in 1 .. Outstanding - 1 : rest[i] = Line[i + 1]
    <3>1. 2 \in Int /\ Outstanding \in Int /\ \A i \in 2 .. Outstanding : Line[i] \in Goroutines
      BY <1>1
    <3>2. /\ rest \in Seq(Goroutines)
          /\ Len(rest) = IF 2 <= Outstanding THEN Outstanding - 2 + 1 ELSE 0
          /\ \A i \in 1 .. Outstanding - 2 + 1 : rest[i] = Line[2 + i - 1]
      BY <1>1, <3>1, SubSeqProperties
    <3> HIDE DEF rest
    <3>3. Len(rest) = Outstanding - 1 /\ Outstanding - 2 + 1 = Outstanding - 1
      BY <1>1, <2>1, <3>2
    <3>4. \A i \in 1 .. Outstanding - 1 : 2 + i - 1 = i + 1
      BY <1>1
    <3> QED BY <3>2, <3>3, <3>4
  <2> HIDE DEF rest
  <2>3. ASSUME NEW i \in 1 .. Outstanding'
        PROVE  Line'[i] = rest[i]
    <3>1. i + 1 \in 1 .. Outstanding /\ i + 1 - 1 = i /\ i # 0 /\ i \in 1 .. Outstanding - 1
      BY <1>1, <2>1
    <3>2. PICK h \in Goroutines : h = Line[i + 1]
      BY <1>1, <3>1
    <3>3. Unnotified(h) /\ Minus(ticketOf[h], notify) = i
      BY <1>1, <3>1, <3>2
    <3>4. Unnotified(h)' /\ Minus(ticketOf[h], notify)' = i - 1
      BY <1>5, <3>1, <3>3 DEF WindowShrinks
    <3> QED BY <1>2, <2>2, <3>1, <3>2, <3>4
  <2>4. Line' = rest
    BY <1>2, <2>1, <2>2, <2>3, SeqEqual
  <2>5. Line # <<>>
    BY <1>1, <2>1
  <2> QED BY <2>4, <2>5 DEF rest
<1>6. ASSUME WindowCloses
      PROVE  Line' = <<>> /\ Line' = SubSeq(Line, Len(Line) + 1, Len(Line))
  <2>1. Line' = <<>>
    BY <1>2, <1>6 DEF WindowCloses
  <2>2. SubSeq(Line, Len(Line) + 1, Len(Line)) = <<>>
    <3>1. Len(Line) \in Int /\ Len(Line) + 1 \in Int /\ Len(Line) < Len(Line) + 1
      BY <1>1
    <3> QED BY <3>1, SubSeqEmpty
  <2> QED BY <2>1, <2>2
<1> QED BY <1>3, <1>4, <1>5, <1>6

\* Who is in Wait, and who was notified, when no ticket is.
LEMMA AwokenSame ==
  ASSUME WindowSame,
         \A h \in Goroutines : npc'[h] \in {"added", "parked", "woken"}
                                 <=> npc[h] \in {"added", "parked", "woken"}
  PROVE  Awoken' = Awoken
BY DEF WindowSame, Awoken, Notified

LEMMA CondStepRefines ==
  CondInv /\ CondInv' /\ [CondNext]_condClientVars => [Abstract!CondNext]_<<Line, Awoken>>
<1> SUFFICES ASSUME CondInv, CondInv', [CondNext]_condClientVars
             PROVE  Abstract!CondNext \/ (Line' = Line /\ Awoken' = Awoken)
  OBVIOUS
<1>1. ListTypeOK /\ ListInv /\ WindowInv /\ LineOK
  BY LineFact DEF CondInv, CondTypeOK
<1>2. LineOK'
  <2>1. CondInv' => LineOK'
    BY LineFact, PTL
  <2> QED BY <2>1
<1>3. ASSUME NEW g \in Goroutines, CondWait(g)
      PROVE  Abstract!Enter(g)
  <2>1. WindowGrows(g)
    BY <1>1, <1>3, AddKeepsInv
  <2>2. /\ npc[g] = "idle" /\ npc'[g] = "added"
        /\ \A h \in Goroutines : h # g => npc'[h] = npc[h]
    BY <1>1, <1>3 DEF CondWait, NotifyListAdd, NGoto, ListTypeOK
  <2>3. Line' = Append(Line, g)
    BY <1>1, <1>2, <2>1, LineMoves
  <2>4. Awoken' = Awoken /\ g \notin Awoken
    BY <2>1, <2>2 DEF WindowGrows, Awoken, Notified
  <2>5. \A i \in DOMAIN Line : Line[i] # g
    <3>1. DOMAIN Line = 1 .. Outstanding
      BY <1>1 DEF LineOK
    <3>2. ~Unnotified(g)
      BY <2>2 DEF Unnotified
    <3> QED BY <1>1, <3>1, <3>2 DEF LineOK
  <2> QED BY <2>3, <2>4, <2>5 DEF Abstract!Enter
<1>4. ASSUME NEW g \in Goroutines, NotifyListWaitReturn(g)
      PROVE  Abstract!Leave(g)
  <2>1. WindowSame
    BY <1>1, <1>4, PlainKeepsInv
  <2>2. /\ npc[g] = "woken" /\ npc'[g] = "idle"
        /\ \A h \in Goroutines : h # g => npc'[h] = npc[h]
    BY <1>1, <1>4 DEF NotifyListWaitReturn, NGoto, ListTypeOK
  <2>3. Line' = Line
    BY <1>1, <1>2, <2>1, LineMoves
  <2>4. g \in Awoken /\ Awoken' = Awoken \ {g}
    <3>1. ~Unnotified(g)
      BY <2>2 DEF Unnotified
    <3> QED BY <2>1, <2>2, <3>1 DEF WindowSame, Awoken, Notified
  <2> QED BY <2>3, <2>4 DEF Abstract!Leave
<1>5. ASSUME NEW g \in Goroutines,
             \/ \E all \in BOOLEAN : CallNotify(g, all)
             \/ LoadWait(g)
             \/ LoadNotify(g)
      PROVE  Line' = Line /\ Awoken' = Awoken
  <2>1. WindowSame
    BY <1>1, <1>5, PlainKeepsInv
  <2>2. \A h \in Goroutines : npc'[h] \in {"added", "parked", "woken"}
                                <=> npc[h] \in {"added", "parked", "woken"}
    BY <1>1, <1>5 DEF CallNotify, LoadWait, LoadNotify, NotifierReturns, NGoto, ListTypeOK
  <2> QED BY <1>1, <1>2, <2>1, <2>2, LineMoves, AwokenSame
<1>6. ASSUME NEW g \in Goroutines, NotifyListWait(g)
      PROVE  Line' = Line /\ Awoken' = Awoken
  <2>1. WindowSame
    BY <1>1, <1>6, ParkKeepsInv
  <2>2. \A h \in Goroutines : npc'[h] \in {"added", "parked", "woken"}
                                <=> npc[h] \in {"added", "parked", "woken"}
    BY <1>1, <1>6 DEF NotifyListWait, NGoto, ListTypeOK
  <2> QED BY <1>1, <1>2, <2>1, <2>2, LineMoves, AwokenSame
<1>7. ASSUME NEW g \in Goroutines, NotifyAll(g)
      PROVE  Abstract!Broadcasted \/ (Line' = Line /\ Awoken' = Awoken)
  <2>1. WindowCloses
    BY <1>1, <1>7, AllKeepsInv
  <2>2. Line' = <<>> /\ Line' = SubSeq(Line, Len(Line) + 1, Len(Line))
    BY <1>1, <1>2, <2>1, LineMoves
  <2>3. \A h \in Goroutines : npc'[h] \in {"added", "parked", "woken"}
                                <=> npc[h] \in {"added", "parked", "woken"}
    BY <1>1, <1>7 DEF NotifyAll, NGoto, ListTypeOK
  <2>4. Awoken' = Awoken \cup {h \in Goroutines : Unnotified(h)}
    <3>1. \A h \in Goroutines : Unnotified(h) => npc[h] \in {"added", "parked", "woken"}
      BY DEF Unnotified
    <3> QED BY <2>1, <2>3, <3>1 DEF WindowCloses, Awoken, Notified
  <2>5. {h \in Goroutines : Unnotified(h)} = {Line[i] : i \in 1 .. Len(Line)}
    <3>1. ASSUME NEW h \in Goroutines, Unnotified(h)
          PROVE  h \in {Line[i] : i \in 1 .. Len(Line)}
      <4> DEFINE i == Minus(ticketOf[h], notify) + 1
      <4>1. i \in 1 .. Outstanding /\ Minus(ticketOf[h], notify) = i - 1
        <5>1. Minus(ticketOf[h], notify) \in Nat
          BY <1>1, WindowTypes
        <5> QED BY <1>1, <3>1, <5>1 DEF LineOK
      <4> HIDE DEF i
      <4> QED BY <1>1, <3>1, <4>1 DEF LineOK
    <3>2. ASSUME NEW i \in 1 .. Len(Line)
          PROVE  Line[i] \in Goroutines /\ Unnotified(Line[i])
      BY <1>1 DEF LineOK
    <3> QED BY <3>1, <3>2
  <2>6. CASE Line = <<>>
    <3>1. {Line[i] : i \in 1 .. Len(Line)} = {}
      BY <2>6
    <3> QED BY <2>2, <2>4, <2>5, <2>6, <3>1
  <2>7. CASE Line # <<>>
    BY <2>2, <2>4, <2>5, <2>7 DEF Abstract!Broadcasted, Abstract!Wake
  <2> QED BY <2>6, <2>7
<1>8. ASSUME NEW g \in Goroutines, NotifyOne(g)
      PROVE  Abstract!Signalled \/ (Line' = Line /\ Awoken' = Awoken)
  <2>1. \A h \in Goroutines : npc'[h] \in {"added", "parked", "woken"}
                                <=> npc[h] \in {"added", "parked", "woken"}
    BY <1>1, <1>8 DEF NotifyOne, NotifierReturns, NGoto, ListTypeOK
  <2>2. CASE WindowSame
    BY <1>1, <1>2, <2>1, <2>2, LineMoves, AwokenSame
  <2>3. CASE WindowShrinks
    <3>1. Line' = SubSeq(Line, 2, Len(Line)) /\ Line # <<>>
      BY <1>1, <1>2, <2>3, LineMoves
    <3>2. /\ Line[1] \in Goroutines
          /\ \A h \in Goroutines : Line[1] = h <=> Unnotified(h) /\ Minus(ticketOf[h], notify) = 0
      <4>1. Outstanding \in Nat /\ Outstanding # 0
        BY <1>1, <2>3 DEF LineOK, WindowShrinks
      <4>2. 1 \in 1 .. Outstanding /\ 1 - 1 = 0
        BY <4>1
      <4> QED BY <1>1, <4>2 DEF LineOK
    <3>3. \A h \in Goroutines : Unnotified(h) => npc[h] \in {"added", "parked", "woken"}
      BY DEF Unnotified
    <3>4. Awoken' = Awoken \cup {Line[1]}
      BY <2>1, <2>3, <3>2, <3>3 DEF WindowShrinks, Awoken, Notified
    <3>5. {Line[i] : i \in 1 .. 1} = {Line[1]}
      OBVIOUS
    <3> QED BY <3>1, <3>4, <3>5 DEF Abstract!Signalled, Abstract!Wake
  <2> QED BY <1>1, <1>8, <2>2, <2>3, OneKeepsInv
<1>9. ASSUME NEW g \in Goroutines, NotifyReady(g)
      PROVE  Line' = Line /\ Awoken' = Awoken
  <2>1. WindowSame
    BY <1>1, <1>9, ReadyKeepsInv
  <2>2. toReady[g] # <<>> => Head(toReady[g]) \in Goroutines /\ npc[Head(toReady[g])] = "parked"
    <3>1. toReady[g] \in Seq(Goroutines) /\ IsInjective(toReady[g])
      BY <1>1 DEF ListTypeOK, ListInv
    <3>2. toReady[g] # <<>> => Head(toReady[g]) \in ToSet(toReady[g])
      BY <3>1, ElementsFact
    <3> QED BY <1>1, <3>2, ListFact DEF ListInv
  <2>3. \A h \in Goroutines : npc'[h] \in {"added", "parked", "woken"}
                                <=> npc[h] \in {"added", "parked", "woken"}
    BY <1>1, <1>9, <2>2 DEF NotifyReady, NotifierReturns, NGoto, ListTypeOK
  <2> QED BY <1>1, <1>2, <2>1, <2>3, LineMoves, AwokenSame
<1>10. ASSUME UNCHANGED condClientVars
       PROVE  Line' = Line /\ Awoken' = Awoken
  BY <1>10 DEF Line, Waiter, Holds, Awoken, Notified, Unnotified, Taken, Outstanding, Minus,
       condClientVars, listVars
<1> QED BY <1>3, <1>4, <1>5, <1>6, <1>7, <1>8, <1>9, <1>10
      DEF CondNext, Signal, Broadcast, CondRun, ListStep, Abstract!CondNext

\* The condition variable implements one line of waiters: every step of Wait, Signal and
\* Broadcast is the arrival of a waiter at the end of the line, the wakeup of the first or of
\* all of them, the return of one that was woken, or invisible.
THEOREM CondImplementsWaiting == CondBehavior => ImplementsCond
<1>1. CondInit => Abstract!CondInit
  <2> SUFFICES ASSUME CondInit PROVE Line = <<>> /\ Awoken = {}
    BY DEF Abstract!CondInit
  <2>1. \A g \in Goroutines : npc[g] = "idle"
    BY DEF CondInit, ListInit
  <2>2. Awoken = {}
    BY <2>1 DEF Awoken, Notified
  <2>3. wait = notify /\ wait \in Counts
    <3>1. CondTypeOK
      BY CondInvInit DEF CondInv
    <3> QED BY <3>1 DEF CondInit, ListInit, CondTypeOK, ListTypeOK
  <2>4. Outstanding = 0
    BY <2>3, SameCount DEF Outstanding
  <2>5. Line = <<>>
    BY <2>4 DEF Line
  <2> QED BY <2>2, <2>5
<1>2. CondInv /\ CondInv' /\ [CondNext]_condClientVars => [Abstract!CondNext]_Abstract!condVars
  BY CondStepRefines DEF Abstract!condVars
<1> QED BY <1>1, <1>2, CondInvAlways, PTL DEF CondBehavior, ImplementsCond, Abstract!Condition
=============================================================================
