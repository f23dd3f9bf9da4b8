---------------------------- MODULE MutexProofs ----------------------------
(***************************************************************************)
(* Theorems about sync.Mutex, for any number of goroutines, any number of  *)
(* spins and any other traffic on the roots of the semaphore.              *)
(***************************************************************************)
EXTENDS MutexClients, SemaLemmas

\* A step that is slow on one machine is given time on every one.
USE SMTT(40), ZenonT(40)

LEMMA ZeroState == Unlocked \in State
BY DEF State, Unlocked

LEMMA InitInv == Init => IInv
<1> SUFFICES ASSUME Init
             PROVE  IInv
  OBVIOUS
<1>1. SemaTypeOK /\ SemaInv
  BY SemaInitInv DEF Init
<1>2. MutexTypeOK
  BY MutexAssumption DEF Init, MutexInit, MutexTypeOK, State, Unlocked, lockLocals
<1>3. TypeOK
  BY <1>1, <1>2 DEF Init, TypeOK
<1>4. CallInv
  BY DEF Init, SemaInit, MutexInit, CallInv, AcquirePc, ReleasePc, LockPc, UnlockPc
<1>5. OwnerInv
  BY DEF Init, MutexInit, OwnerInv, Owns, Holds, Unlocked
<1>6. \A g \in Goroutines : ~Awake(g)
  BY DEF Init, MutexInit, Awake, Paying
<1>7. TokenInv
  BY <1>6, MutexAssumption DEF Init, SemaInit, TokenInv
<1>8. ModeInv
  BY DEF Init, MutexInit, ModeInv, Unlocked
<1> QED BY <1>1, <1>3, <1>4, <1>5, <1>7, <1>8 DEF IInv

-----------------------------------------------------------------------------
(* The steps inside the semaphore.                                         *)

\* A step of the semaphore moves the one token between the word, a ticket and a
\* goroutine that has it, and creates none.
LEMMA SemaMovesToken ==
  ASSUME IInv, NEW g \in Goroutines, SemaStep(g), UNCHANGED <<mutexVars, wants>>
  PROVE  TokenInv'
<1> DEFINE s == MutexSema
           Tok == sval[s] = 1 \/ \E h \in Goroutines : Awake(h)
<1> USE DEF IInv, TypeOK
<1>1. UNCHANGED <<m, mpc, awoke>>
  BY DEF mutexVars, lockLocals
<1>2. spc[g] # "idle" /\ saddr[g] = s /\ s \in Addrs
  BY MutexAssumption DEF SemaStep, Semacquire, Semrelease, SemacquireEasy, SemacquireLock,
     SemacquireRetry, SemacquireQueue, SemacquireWake, SemreleaseXadd, SemreleaseCheck,
     SemreleaseDequeue, SemreleaseReady, CallInv
<1>3. /\ spc[g] \in AcquirePc => mpc[g] = "acquire"
      /\ spc[g] \in ReleasePc => mpc[g] = "release"
  BY DEF CallInv
\* What a step may do, as far as tokens go: leave them, take the one of the word,
\* or put one there.
<1>4. ASSUME sval'[s] = sval[s], \A h \in Goroutines : Awake(h)' => Awake(h)
      PROVE  TokenInv'
  BY <1>1, <1>4 DEF TokenInv
<1>5. ASSUME NEW k \in Goroutines, sval[s] > 0, sval'[s] = sval[s] - 1,
             \A h \in Goroutines : h # k => (Awake(h)' => Awake(h))
      PROVE  TokenInv'
  <2>1. sval[s] = 1 /\ sval'[s] = 0
    BY <1>5 DEF TokenInv
  <2>2. \A h \in Goroutines : Awake(h)' => h = k
    BY <1>5, <2>1 DEF TokenInv
  <2> QED BY <1>1, <2>1, <2>2 DEF TokenInv
<1>6. ASSUME Awake(g), ~Awake(g)', sval'[s] = sval[s] + 1,
             \A h \in Goroutines : h # g => (Awake(h)' => Awake(h))
      PROVE  TokenInv'
  <2>1. sval[s] = 0 /\ sval'[s] = 1
    BY <1>6 DEF TokenInv
  <2>2. \A h \in Goroutines : ~Awake(h)'
    BY <1>6 DEF TokenInv
  <2> QED BY <1>1, <1>6, <2>1, <2>2 DEF TokenInv
<1>7. CASE SemacquireEasy(g)
  <2>1. \A h \in Goroutines : h # g => (Awake(h)' <=> Awake(h))
    BY <1>1, <1>7 DEF SemacquireEasy, Return, Goto, Awake, Paying, SemaTypeOK
  <2>2. CASE sval[s] > 0
    BY <1>2, <1>5, <1>7, <2>1, <2>2 DEF SemacquireEasy, CanSemacquire, SemaTypeOK
  <2>3. CASE ~(sval[s] > 0)
    <3>1. ~Awake(g)'
      BY <1>1, <1>2, <1>3, <1>7, <2>3 DEF SemacquireEasy, CanSemacquire, Goto, Awake, Paying, SemaTypeOK, AcquirePc, SemaInv, TicketInv
    <3> QED BY <1>2, <1>4, <1>7, <2>1, <2>3, <3>1 DEF SemacquireEasy, CanSemacquire
  <2> QED BY <2>2, <2>3
<1>8. CASE SemacquireWake(g)
  <2>1. \A h \in Goroutines : h # g => (Awake(h)' <=> Awake(h))
    BY <1>1, <1>8 DEF SemacquireWake, Return, Goto, Awake, Paying, SemaTypeOK
  <2>2. CASE ticket[g]
    <3>1. Awake(g)
      BY <1>3, <1>8, <2>2 DEF SemacquireWake, Awake, Paying, AcquirePc
    <3>2. sval'[s] = sval[s]
      BY <1>2, <1>8, <2>2 DEF SemacquireWake, SemaTypeOK
    <3> QED BY <1>4, <2>1, <3>1, <3>2
  <2>3. CASE ~ticket[g] /\ sval[s] > 0
    <3>1. sval'[s] = sval[s] - 1
      BY <1>2, <1>8, <2>3 DEF SemacquireWake, CanSemacquire, SemaTypeOK
    <3> QED BY <1>5, <2>1, <2>3, <3>1
  <2>4. CASE ~ticket[g] /\ ~(sval[s] > 0)
    <3>1. spc'[g] = "lock" /\ UNCHANGED <<sval, ticket>>
      BY <1>2, <1>8, <2>4 DEF SemacquireWake, CanSemacquire, Goto, SemaTypeOK
    <3>2. mpc[g] = "acquire"
      BY <1>3, <1>8 DEF SemacquireWake, AcquirePc
    <3>3. ~Awake(g)'
      BY <1>1, <2>4, <3>1, <3>2 DEF Awake, Paying
    <3> QED BY <1>4, <2>1, <3>1, <3>3
  <2> QED BY <2>2, <2>3, <2>4
<1>9. CASE SemreleaseXadd(g)
  <2>1. \A h \in Goroutines : h # g => (Awake(h)' <=> Awake(h))
    BY <1>1, <1>9 DEF SemreleaseXadd, Goto, Awake, Paying, SemaTypeOK
  <2>2. mpc[g] = "release" /\ spc[g] = "xadd" /\ spc'[g] = "check"
    BY <1>3, <1>9 DEF SemreleaseXadd, Goto, ReleasePc, SemaTypeOK
  <2>3. Awake(g) /\ ~Awake(g)'
    BY <1>1, <2>2 DEF Awake, Paying
  <2>4. sval'[s] = sval[s] + 1
    BY <1>2, <1>9 DEF SemreleaseXadd, SemaTypeOK
  <2> QED BY <1>6, <2>1, <2>3, <2>4
<1>10. CASE SemreleaseReady(g)
  <2> DEFINE t == target[g]
  <2>1. spc[g] = "ready" /\ t \in Goroutines /\ t # g /\ spc[t] = "parked" /\ ~ticket[t]
    BY <1>10 DEF SemreleaseReady, SemaInv, ParkedOnce, TicketInv
  <2>2. mpc[g] = "release" /\ mpc[t] = "acquire"
    BY <2>1 DEF CallInv, AcquirePc, ReleasePc
  <2>3. \A h \in Goroutines :
          spc'[h] = IF h = t THEN "woken" ELSE IF h = g THEN "idle" ELSE spc[h]
    BY <1>10, <2>1 DEF SemreleaseReady, SemaTypeOK
  <2>4. CASE sflag[g] /\ sval[s] > 0
    <3>1. sval'[s] = sval[s] - 1 /\ ticket' = [ticket EXCEPT ![t] = TRUE]
      BY <1>2, <1>10, <2>4 DEF SemreleaseReady, CanSemacquire, SemaTypeOK
    <3>2. \A h \in Goroutines : h # t => (Awake(h)' => Awake(h))
      BY <1>1, <2>2, <2>3, <3>1 DEF Awake, Paying, SemaTypeOK
    <3> QED BY <1>5, <2>1, <2>4, <3>1, <3>2
  <2>5. CASE ~(sflag[g] /\ sval[s] > 0)
    <3>1. UNCHANGED <<sval, ticket>>
      BY <1>2, <1>10, <2>5 DEF SemreleaseReady, CanSemacquire
    <3>2. \A h \in Goroutines : Awake(h)' => Awake(h)
      BY <1>1, <2>1, <2>2, <2>3, <3>1 DEF Awake, Paying
    <3> QED BY <1>4, <3>1, <3>2
  <2> QED BY <2>4, <2>5
<1>11. ASSUME SemacquireLock(g) \/ SemacquireQueue(g) \/ SemreleaseCheck(g)
              \/ SemreleaseDequeue(g)
       PROVE  TokenInv'
  <2>1. UNCHANGED <<sval, ticket>> /\ \A h \in Goroutines : h # g => spc'[h] = spc[h]
    BY <1>11 DEF SemacquireLock, SemacquireQueue, SemreleaseCheck, SemreleaseDequeue, Goto, Return,
                 SemaTypeOK
  <2>2. CASE spc[g] \in AcquirePc
    <3>1. mpc[g] = "acquire" /\ ~ticket[g] /\ spc'[g] # "idle"
      BY <1>3, <1>11, <2>2 DEF SemacquireLock, SemacquireQueue, SemreleaseCheck, SemreleaseDequeue,
                               Goto, SemaTypeOK, SemaInv, TicketInv, AcquirePc
    <3> QED BY <1>1, <1>4, <2>1, <3>1 DEF Awake, Paying
  <2>3. CASE spc[g] \in ReleasePc
    <3>1. mpc[g] = "release" /\ spc'[g] # "xadd"
      BY <1>3, <1>11, <2>3 DEF SemacquireLock, SemacquireQueue, SemreleaseCheck, SemreleaseDequeue,
                               Goto, Return, SemaTypeOK, ReleasePc
    <3> QED BY <1>1, <1>4, <2>1, <3>1 DEF Awake, Paying
  <2> QED BY <1>2, <2>2, <2>3 DEF SemaTypeOK
<1>12. CASE SemacquireRetry(g)
  <2>1. UNCHANGED ticket /\ \A h \in Goroutines : h # g => spc'[h] = spc[h]
    BY <1>12 DEF SemacquireRetry, Goto, Return, SemaTypeOK
  <2>2. mpc[g] = "acquire" /\ ~ticket[g]
    BY <1>3, <1>12 DEF SemacquireRetry, SemaInv, TicketInv, AcquirePc
  <2>3. \A h \in Goroutines : h # g => (Awake(h)' <=> Awake(h))
    BY <1>1, <2>1 DEF Awake, Paying
  <2>4. CASE sval[s] > 0
    BY <1>2, <1>5, <1>12, <2>3, <2>4 DEF SemacquireRetry, CanSemacquire, SemaTypeOK
  <2>5. CASE ~(sval[s] > 0)
    <3>1. UNCHANGED sval /\ spc'[g] = "queue"
      BY <1>2, <1>12, <2>5 DEF SemacquireRetry, CanSemacquire, Goto, SemaTypeOK
    <3>2. ~Awake(g)'
      BY <1>1, <2>1, <2>2, <3>1 DEF Awake, Paying
    <3> QED BY <1>4, <2>3, <3>1, <3>2
  <2> QED BY <2>4, <2>5
<1> QED BY <1>7, <1>8, <1>9, <1>10, <1>11, <1>12 DEF SemaStep, Semacquire, Semrelease

LEMMA SemaKeepsInv ==
  ASSUME IInv, NEW g \in Goroutines, SemaStep(g), UNCHANGED <<mutexVars, wants>>
  PROVE  IInv'
<1> USE DEF IInv, TypeOK
<1>1. SemaTypeOK' /\ SemaInv'
  BY SemaStepKeepsInv
<1>2. UNCHANGED <<m, mpc, old, starving, awoke, waited, iter, wants>>
  BY DEF mutexVars, lockLocals
<1>3. TypeOK'
  BY <1>1, <1>2 DEF MutexTypeOK
\* A call runs from its entry to idle without a change of kind.
<1>4. /\ saddr' = saddr
      /\ spc[g] # "idle"
      /\ \A h \in Goroutines :
           /\ spc'[h] \in AcquirePc => spc[h] \in AcquirePc
           /\ spc'[h] \in ReleasePc => spc[h] \in ReleasePc
  <2>1. \A h \in Goroutines : spc[h] = "ready" => spc[target[h]] = "parked"
    BY DEF SemaInv, ParkedOnce
  <2>2. CASE Semacquire(g)
    BY <2>2 DEF Semacquire, SemacquireEasy, SemacquireLock, SemacquireRetry,
                SemacquireQueue, SemacquireWake, Goto, Return, AcquirePc, ReleasePc, SemaTypeOK
  <2>3. CASE SemreleaseReady(g)
    BY <2>1, <2>3 DEF SemreleaseReady, AcquirePc, ReleasePc, SemaTypeOK
  <2>4. CASE SemreleaseXadd(g) \/ SemreleaseCheck(g) \/ SemreleaseDequeue(g)
    BY <2>4 DEF SemreleaseXadd, SemreleaseCheck, SemreleaseDequeue, Goto, Return, AcquirePc,
                ReleasePc, SemaTypeOK
  <2> QED BY <2>2, <2>3, <2>4 DEF SemaStep, Semrelease
<1>5. CallInv'
  <2>1. \A h \in Goroutines : spc'[h] # "idle" => spc'[h] \in AcquirePc \cup ReleasePc
    BY <1>1 DEF SemaTypeOK
  <2>2. \A h \in Goroutines : spc[h] \in AcquirePc \cup ReleasePc => spc[h] # "idle"
    BY DEF AcquirePc, ReleasePc
  <2> QED BY <1>2, <1>4, <2>1, <2>2 DEF CallInv
<1>6. OwnerInv' /\ ModeInv'
  BY <1>2 DEF OwnerInv, Owns, Holds, ModeInv
<1>7. TokenInv'
  BY SemaMovesToken
<1> QED BY <1>1, <1>3, <1>5, <1>6, <1>7

-----------------------------------------------------------------------------
(* The steps of Lock and Unlock.                                           *)

\* Outside the semaphore a goroutine has no call in progress and no ticket.
LEMMA OutsideSema ==
  ASSUME IInv, NEW g \in Goroutines, mpc[g] \notin {"acquire", "release"}
  PROVE  spc[g] = "idle" /\ ~ticket[g]
<1>1. spc[g] = "idle"
  BY DEF IInv, TypeOK, SemaTypeOK, CallInv
<1> QED BY <1>1 DEF IInv, SemaInv, TicketInv

\* The start of a Lock, and the steps that only load the state or lose a swap.
LEMMA PassiveStep ==
  ASSUME IInv, NEW g \in Goroutines, UNCHANGED semaVars,
         \/ Lock(g)
         \/ /\ LockLoad(g) \/ LockLost(g) \/ UnlockLost(g) \/ UnlockReload(g)
            /\ UNCHANGED wants
  PROVE  IInv'
<1> USE DEF IInv, TypeOK
<1>1. SemaTypeOK' /\ SemaInv'
  BY SemaUnchanged
<1>2. /\ mpc[g] \in {"idle", "load", "reload", "loop", "slow", "reslow"}
      /\ mpc'[g] \in {"lock", "loop", "reload", "throw", "slow", "reslow"}
      /\ \A h \in Goroutines : h # g => mpc'[h] = mpc[h] /\ old'[h] = old[h] /\ wants'[h] = wants[h]
      /\ UNCHANGED <<semaVars, m, lockLocals>>
  BY DEF Lock, CallLock, LockLoad, LockLost, UnlockLost, UnlockReload, MGoto, DropOld, MutexTypeOK
<1>3. TypeOK'
  <2>1. mpc' \in [Goroutines -> {"idle", "throw"} \cup LockPc \cup UnlockPc]
    BY DEF Lock, CallLock, LockLoad, LockLost, UnlockLost, UnlockReload, MGoto, MutexTypeOK,
           LockPc, UnlockPc
  <2>2. old' \in [Goroutines -> State]
    <3>1. \E x \in State : old' = [old EXCEPT ![g] = x] \/ old' = old
      BY ZeroState DEF Lock, CallLock, LockLoad, LockLost, UnlockLost, UnlockReload, DropOld,
                       MutexTypeOK
    <3> QED BY <3>1 DEF MutexTypeOK
  <2>3. wants' \in [Goroutines -> BOOLEAN]
    BY DEF Lock
  <2> QED BY <1>1, <1>2, <2>1, <2>2, <2>3 DEF MutexTypeOK, lockLocals
<1>4. CallInv'
  <2>1. spc[g] = "idle"
    BY <1>2, OutsideSema
  <2>2. /\ mpc'[g] \in LockPc => wants'[g]
        /\ mpc'[g] \in UnlockPc => ~wants'[g]
    BY DEF Lock, CallLock, LockLoad, LockLost, UnlockLost, UnlockReload, MGoto, MutexTypeOK,
           LockPc, UnlockPc, CallInv
  <2> QED BY <1>2, <2>1, <2>2 DEF CallInv, semaVars, AcquirePc, ReleasePc
<1>5. OwnerInv'
  <2>1. ~Owns(g) /\ ~Owns(g)'
    BY <1>2 DEF Owns, Holds, Lock, CallLock, LockLoad, LockLost, UnlockLost, UnlockReload
  <2>2. \A h \in Goroutines : Owns(h)' <=> Owns(h)
    BY <1>2, <2>1 DEF Owns, Holds
  <2> QED BY <1>2, <2>2 DEF OwnerInv
<1>6. \A h \in Goroutines : Awake(h)' => Awake(h)
  <2>1. Awake(g)' => Awake(g)
    BY <1>2 DEF Awake, Paying, Lock, CallLock, LockLoad, LockLost, UnlockLost, UnlockReload, MGoto,
                MutexTypeOK, ModeInv, lockLocals
  <2> QED BY <1>2, <2>1 DEF Awake, Paying, lockLocals, semaVars
<1>7. TokenInv'
  BY <1>2, <1>6 DEF TokenInv, semaVars
<1>8. ModeInv'
  <2>1. ASSUME LockLoad(g)
        PROVE  ModeInv'
    <3>1. mpc'[g] = "loop" /\ old'[g] = m
      BY <2>1 DEF LockLoad, MGoto, MutexTypeOK
    <3>2. awoke[g] => mpc[g] = "reload" /\ Awake(g)
      BY <2>1 DEF LockLoad, ModeInv, Awake, Paying
    <3>3. awoke[g] => m.woken /\ ~m.starving
      BY <3>2 DEF TokenInv, ModeInv
    <3>4. starving[g] => awoke[g]
      BY <2>1 DEF LockLoad, ModeInv
    <3> QED BY <1>2, <3>1, <3>3, <3>4 DEF ModeInv, lockLocals
  <2>2. ASSUME ~LockLoad(g)
        PROVE  ModeInv'
    <3>1. mpc'[g] \in {"lock", "reload", "throw", "slow", "reslow"}
      BY <2>2 DEF Lock, CallLock, LockLost, UnlockLost, UnlockReload, MGoto, MutexTypeOK
    <3>2. mpc'[g] = "reload" => mpc[g] = "loop"
      BY <2>2 DEF Lock, CallLock, LockLost, UnlockLost, UnlockReload, MGoto, MutexTypeOK
    <3>3. mpc'[g] = "lock" => mpc[g] = "idle"
      BY <2>2 DEF Lock, CallLock, LockLost, UnlockLost, UnlockReload, MGoto, MutexTypeOK
    <3> QED BY <1>2, <3>1, <3>2, <3>3 DEF ModeInv, lockLocals
  <2> QED BY <2>1, <2>2
<1> QED BY <1>1, <1>3, <1>4, <1>5, <1>7, <1>8

\* What a return from Lock or Unlock does to the locals.
LEMMA ReturnFact ==
  ASSUME MutexTypeOK, NEW g \in Goroutines, MReturn(g)
  PROVE  /\ mpc' \in [Goroutines -> {"idle", "throw"} \cup LockPc \cup UnlockPc]
         /\ old' \in [Goroutines -> State]
         /\ starving' \in [Goroutines -> BOOLEAN]
         /\ awoke' \in [Goroutines -> BOOLEAN]
         /\ waited' \in [Goroutines -> BOOLEAN]
         /\ iter' \in [Goroutines -> 0 .. ActiveSpin]
         /\ mpc'[g] = "idle" /\ ~awoke'[g] /\ ~starving'[g]
         /\ \A h \in Goroutines : h # g =>
              /\ mpc'[h] = mpc[h] /\ old'[h] = old[h]
              /\ awoke'[h] = awoke[h] /\ starving'[h] = starving[h]
<1>1. 0 \in 0 .. ActiveSpin
  BY MutexAssumption
<1> QED BY <1>1, ZeroState DEF MReturn, MGoto, DropOld, MutexTypeOK

\* The mutex is taken by the fast path, by a swap that finds it free, or by the
\* waiter it was handed to: in each case nobody owned it before, and no token is
\* left unless it stands for another waiter.
LEMMA TakeKeepsInv ==
  ASSUME IInv, NEW g \in Goroutines, UNCHANGED <<semaVars, wants>>, MReturn(g),
         mpc[g] \in {"lock", "loop", "fix"},
         m' \in State, m'.locked, ~m.locked, m'.starving => ~m'.woken,
         m.starving => mpc[g] = "fix",
         mpc[g] = "fix" \/ awoke[g] \/ (m'.woken = m.woken /\ m'.starving = m.starving)
  PROVE  IInv'
<1> USE DEF IInv, TypeOK
<1>1. SemaTypeOK' /\ SemaInv'
  BY SemaUnchanged
<1>2. /\ mpc'[g] = "idle" /\ ~awoke'[g] /\ ~starving'[g]
      /\ \A h \in Goroutines : h # g =>
           /\ mpc'[h] = mpc[h] /\ old'[h] = old[h]
           /\ awoke'[h] = awoke[h] /\ starving'[h] = starving[h]
  BY ReturnFact
<1>3. TypeOK'
  BY <1>1, ReturnFact DEF MutexTypeOK
<1>4. spc[g] = "idle" /\ ~ticket[g] /\ wants[g]
  BY OutsideSema DEF CallInv, LockPc
<1>5. CallInv'
  BY <1>2, <1>4 DEF CallInv, semaVars, AcquirePc, ReleasePc, LockPc, UnlockPc
<1>6. OwnerInv'
  <2>1. \A h \in Goroutines : ~Owns(h)
    BY DEF OwnerInv
  <2>2. Owns(g)'
    BY <1>2, <1>4 DEF Owns, Holds
  <2>3. \A h \in Goroutines : Owns(h)' => h = g
    BY <1>2, <2>1 DEF Owns, Holds
  <2> QED BY <2>2, <2>3 DEF OwnerInv
<1>7. \A h \in Goroutines : Awake(h)' => Awake(h) /\ h # g
  BY <1>2 DEF Awake, Paying, semaVars
<1>8. CASE mpc[g] = "fix" \/ (mpc[g] = "loop" /\ awoke[g])
  <2>1. Awake(g)
    BY <1>8 DEF Awake, Paying
  <2>2. sval[MutexSema] = 0 /\ \A h \in Goroutines : Awake(h) => h = g
    BY <2>1 DEF TokenInv
  <2>3. \A h \in Goroutines : ~Awake(h)'
    BY <1>7, <2>2
  <2>4. TokenInv'
    BY <2>2, <2>3 DEF TokenInv, semaVars
  <2>5. ModeInv'
    <3>1. \A h \in Goroutines : ~(mpc'[h] = "fix") /\ ~(mpc'[h] \in {"loop", "reload"} /\ awoke'[h])
      BY <2>3 DEF Awake, Paying
    <3> QED BY <1>2, <3>1 DEF ModeInv
  <2> QED BY <1>1, <1>3, <1>5, <1>6, <2>4, <2>5
<1>9. CASE ~(mpc[g] = "fix" \/ (mpc[g] = "loop" /\ awoke[g]))
  <2>1. ~awoke[g] /\ ~m.starving /\ m'.woken = m.woken /\ m'.starving = m.starving
    BY <1>9 DEF ModeInv
  <2>2. TokenInv'
    BY <1>7, <2>1 DEF TokenInv, semaVars
  <2>3. ModeInv'
    BY <1>2, <2>1 DEF ModeInv
  <2> QED BY <1>1, <1>3, <1>5, <1>6, <2>2, <2>3
<1> QED BY <1>8, <1>9

LEMMA LockFastInv ==
  ASSUME IInv, NEW g \in Goroutines, LockFast(g), UNCHANGED wants
  PROVE  IInv'
<1> USE DEF IInv, TypeOK
<1>1. CASE m = Unlocked
  <2>1. m' = [locked |-> TRUE, woken |-> FALSE, starving |-> FALSE, waiters |-> 0]
    BY <1>1 DEF LockFast, Unlocked
  <2>2. m' \in State
    BY <2>1 DEF State
  <2>3. mpc[g] = "lock" /\ MReturn(g) /\ UNCHANGED semaVars
    BY <1>1 DEF LockFast
  <2> QED BY <1>1, <2>1, <2>2, <2>3, TakeKeepsInv DEF Unlocked
<1>2. CASE m # Unlocked
  <2>1. mpc[g] = "lock" /\ mpc' = [mpc EXCEPT ![g] = "load"]
          /\ UNCHANGED <<semaVars, m, old, lockLocals, wants>>
    BY <1>2 DEF LockFast, MGoto
  <2>2. \A h \in Goroutines : mpc'[h] = IF h = g THEN "load" ELSE mpc[h]
    BY <2>1 DEF MutexTypeOK
  <2>3. SemaTypeOK' /\ SemaInv'
    BY <2>1, SemaUnchanged
  <2>4. TypeOK'
    BY <2>1, <2>3 DEF MutexTypeOK, LockPc, lockLocals
  <2>5. CallInv'
    BY <2>1, <2>2, OutsideSema DEF CallInv, semaVars, LockPc, UnlockPc, AcquirePc, ReleasePc
  <2>6. OwnerInv'
    BY <2>1, <2>2 DEF OwnerInv, Owns, Holds
  <2>7. \A h \in Goroutines : Awake(h)' <=> Awake(h)
    BY <2>1, <2>2 DEF Awake, Paying, semaVars, lockLocals
  <2>8. TokenInv'
    BY <2>1, <2>7 DEF TokenInv, semaVars
  <2>9. ModeInv'
    BY <2>1, <2>2 DEF ModeInv, lockLocals
  <2> QED BY <2>3, <2>4, <2>5, <2>6, <2>8, <2>9
<1> QED BY <1>1, <1>2

LEMMA LockFixInv ==
  ASSUME IInv, NEW g \in Goroutines, LockFix(g), UNCHANGED wants
  PROVE  IInv'
<1> USE DEF IInv, TypeOK
<1>1. mpc[g] = "fix" /\ MReturn(g) /\ UNCHANGED semaVars
  BY DEF LockFix
<1>2. m.starving /\ m.waiters > 0 /\ ~m.woken /\ ~m.locked
  BY <1>1 DEF ModeInv, TokenInv, Awake, Paying
<1>3. m' = [locked |-> TRUE, woken |-> m.woken,
            starving |-> starving[g] /\ old[g].waiters # 1, waiters |-> m.waiters - 1]
  BY DEF LockFix, MutexTypeOK, State
<1>4. m' \in State
  BY <1>2, <1>3 DEF MutexTypeOK, State
<1>5. m'.locked /\ ~m'.woken
  BY <1>2, <1>3
<1> HIDE DEF IInv, TypeOK
<1> QED BY <1>1, <1>2, <1>4, <1>5, TakeKeepsInv

\* A spinner may take the woken flag of a mutex that has none.
LEMMA LockSpinInv ==
  ASSUME IInv, NEW g \in Goroutines, LockSpin(g), UNCHANGED wants
  PROVE  IInv'
<1> USE DEF IInv, TypeOK
<1> DEFINE takes == ~awoke[g] /\ ~old[g].woken /\ old[g].waiters # 0 /\ m = old[g]
<1>1. /\ mpc[g] = "loop" /\ UNCHANGED <<semaVars, starving, waited>>
      /\ mpc' = [mpc EXCEPT ![g] = "reload"]
      /\ old' = [old EXCEPT ![g] = Unlocked]
      /\ iter' = [iter EXCEPT ![g] = @ + 1] /\ iter[g] < ActiveSpin
      /\ ~old[g].starving
  BY DEF LockSpin, MGoto, DropOld
<1>2. /\ takes => m' = [m EXCEPT !.woken = TRUE] /\ awoke' = [awoke EXCEPT ![g] = TRUE]
      /\ ~takes => m' = m /\ awoke' = awoke
  BY DEF LockSpin
<1> HIDE DEF takes
<1>3. \A h \in Goroutines : mpc'[h] = IF h = g THEN "reload" ELSE mpc[h]
  BY <1>1 DEF MutexTypeOK
<1>4. SemaTypeOK' /\ SemaInv'
  BY <1>1, SemaUnchanged
<1>5. m' \in State /\ m'.locked = m.locked /\ m'.starving = m.starving /\ m'.waiters = m.waiters
        /\ awoke' \in [Goroutines -> BOOLEAN]
  <2>1. CASE takes
    BY <1>2, <2>1 DEF MutexTypeOK, State
  <2>2. CASE ~takes
    BY <1>2, <2>2 DEF MutexTypeOK, State
  <2> QED BY <2>1, <2>2
<1>6. TypeOK'
  <2>1. iter' \in [Goroutines -> 0 .. ActiveSpin]
    BY <1>1, MutexAssumption DEF MutexTypeOK
  <2>2. mpc' \in [Goroutines -> {"idle", "throw"} \cup LockPc \cup UnlockPc]
    BY <1>1 DEF MutexTypeOK, LockPc
  <2> QED BY <1>1, <1>4, <1>5, <2>1, <2>2, ZeroState DEF MutexTypeOK
<1>7. CallInv'
  BY <1>1, <1>3, OutsideSema DEF CallInv, semaVars, LockPc, UnlockPc, AcquirePc, ReleasePc
<1>8. OwnerInv'
  BY <1>1, <1>3, <1>5 DEF OwnerInv, Owns, Holds
<1>9. CASE takes
  <2>1. ~m.woken /\ ~m.starving /\ m'.woken /\ \A h \in Goroutines : awoke'[h] = (h = g \/ awoke[h])
    BY <1>1, <1>2, <1>9 DEF takes, MutexTypeOK, State
  <2>2. sval[MutexSema] = 0 /\ \A h \in Goroutines : ~Awake(h)
    BY <2>1 DEF TokenInv
  <2>3. \A h \in Goroutines : Awake(h)' => h = g
    BY <1>1, <1>3, <2>1, <2>2, ZenonT(40) DEF Awake, Paying, semaVars
  <2>4. TokenInv'
    BY <1>1, <1>5, <2>1, <2>2, <2>3 DEF TokenInv, semaVars
  <2>5. ModeInv'
    <3>1. \A h \in Goroutines : h # g => mpc'[h] = mpc[h] /\ old'[h] = old[h] /\ awoke'[h] = awoke[h]
                                           /\ starving'[h] = starving[h]
      BY <1>1, <1>3, <2>1 DEF MutexTypeOK
    <3> QED BY <1>3, <1>5, <2>1, <3>1 DEF ModeInv
  <2> QED BY <1>4, <1>6, <1>7, <1>8, <2>4, <2>5
<1>10. CASE ~takes
  <2>1. UNCHANGED <<m, awoke, starving>>
    BY <1>1, <1>2, <1>10
  <2>2. \A h \in Goroutines : Awake(h)' <=> Awake(h)
    BY <1>1, <1>3, <2>1 DEF Awake, Paying, semaVars
  <2>3. TokenInv'
    BY <1>1, <2>1, <2>2 DEF TokenInv, semaVars
  <2>4. ModeInv'
    <3>1. \A h \in Goroutines : h # g => mpc'[h] = mpc[h] /\ old'[h] = old[h]
      BY <1>1, <1>3 DEF MutexTypeOK
    <3> QED BY <1>1, <1>3, <2>1, <3>1 DEF ModeInv
  <2> QED BY <1>4, <1>6, <1>7, <1>8, <2>3, <2>4
<1> QED BY <1>9, <1>10

\* A waiter that comes back from the semaphore goes on as the awake waiter, or
\* takes what has been handed to it.
LEMMA LockWakeInv ==
  ASSUME IInv, NEW g \in Goroutines, LockWake(g), UNCHANGED wants
  PROVE  IInv'
<1> USE DEF IInv, TypeOK
<1>1. /\ mpc[g] = "acquire" /\ spc[g] = "idle" /\ Awake(g)
      /\ UNCHANGED <<semaVars, m, waited, iter, wants>>
      /\ old' = [old EXCEPT ![g] = m]
  BY DEF LockWake, Awake, Paying
<1>2. PICK label \in {"throw", "fix", "loop"} :
        /\ mpc' = [mpc EXCEPT ![g] = label]
        /\ awoke' = [awoke EXCEPT ![g] = (label = "loop") \/ @]
        /\ label = "fix" => m.starving /\ m.waiters # 0
        /\ label = "loop" => ~m.starving
  <2>1. CASE m.starving
    <3>1. awoke' = awoke /\ mpc' = [mpc EXCEPT ![g] = IF m.locked \/ m.woken \/ m.waiters = 0
                                                       THEN "throw" ELSE "fix"]
      BY <2>1 DEF LockWake, MGoto
    <3>2. awoke' = [awoke EXCEPT ![g] = FALSE \/ @]
      BY <3>1 DEF MutexTypeOK
    <3> QED BY <2>1, <3>1, <3>2
  <2>2. CASE ~m.starving
    BY <2>2 DEF LockWake, MGoto, MutexTypeOK
  <2> QED BY <2>1, <2>2
<1>3. PICK late \in BOOLEAN : starving' = [starving EXCEPT ![g] = @ \/ late]
  BY DEF LockWake
<1>4. /\ \A h \in Goroutines : mpc'[h] = IF h = g THEN label ELSE mpc[h]
      /\ \A h \in Goroutines : h # g => old'[h] = old[h] /\ awoke'[h] = awoke[h]
                                          /\ starving'[h] = starving[h]
      /\ old'[g] = m
      /\ label = "loop" => awoke'[g]
  BY <1>1, <1>2, <1>3 DEF MutexTypeOK
<1>5. SemaTypeOK' /\ SemaInv'
  BY <1>1, SemaUnchanged
<1>6. TypeOK'
  <2>1. mpc' \in [Goroutines -> {"idle", "throw"} \cup LockPc \cup UnlockPc]
    BY <1>2 DEF MutexTypeOK, LockPc
  <2>2. starving' \in [Goroutines -> BOOLEAN] /\ awoke' \in [Goroutines -> BOOLEAN]
    BY <1>2, <1>3 DEF MutexTypeOK
  <2> QED BY <1>1, <1>5, <2>1, <2>2 DEF MutexTypeOK
<1>7. CallInv'
  BY <1>1, <1>4 DEF CallInv, semaVars, LockPc, UnlockPc, AcquirePc, ReleasePc
<1>8. OwnerInv'
  BY <1>1, <1>4 DEF OwnerInv, Owns, Holds
<1>9. \A h \in Goroutines : Awake(h)' => Awake(h)
  <2>1. \A h \in Goroutines : h # g => (Awake(h)' <=> Awake(h))
    BY <1>1, <1>4 DEF Awake, Paying, semaVars
  <2> QED BY <1>1, <2>1
<1>10. TokenInv'
  BY <1>1, <1>9 DEF TokenInv, semaVars
<1>11. ModeInv'
  <2>1. label = "loop" => m.woken
    BY <1>1, <1>2 DEF TokenInv
  <2>2. m.waiters # 0 => m.waiters > 0
    BY DEF MutexTypeOK, State
  <2> QED BY <1>1, <1>2, <1>4, <2>1, <2>2 DEF ModeInv
<1> QED BY <1>5, <1>6, <1>7, <1>8, <1>10, <1>11

\* The swap of Lock, when it queues the goroutine.
LEMMA LockSleepInv ==
  ASSUME IInv, NEW g \in Goroutines, LockSwap(g), UNCHANGED wants, Contended(old[g])
  PROVE  IInv'
<1> USE DEF IInv, TypeOK
<1>1. /\ mpc[g] = "loop" /\ m = old[g] /\ wants[g]
      /\ CallSemacquire(g, MutexSema, waited[g])
      /\ waited' = [waited EXCEPT ![g] = TRUE] /\ awoke' = [awoke EXCEPT ![g] = FALSE]
      /\ iter' = [iter EXCEPT ![g] = 0] /\ old' = [old EXCEPT ![g] = Unlocked]
      /\ mpc' = [mpc EXCEPT ![g] = "acquire"] /\ UNCHANGED <<starving, wants>>
  BY DEF LockSwap, MGoto, DropOld, CallInv, LockPc
<1>2. m' = [locked |-> m.locked, woken |-> m.woken /\ ~awoke[g],
            starving |-> m.starving \/ (starving[g] /\ m.locked), waiters |-> m.waiters + 1]
  <2>1. m.locked \in BOOLEAN /\ m.starving \in BOOLEAN
    BY DEF MutexTypeOK, State
  <2>2. (m.locked \/ ~m.starving) = m.locked
    BY <1>1, <2>1 DEF Contended
  <2> QED BY <1>1, <2>2 DEF LockSwap, Wanted
<1>3. SemaTypeOK' /\ SemaInv'
  BY <1>1, CallKeepsInv, MutexAssumption DEF CallSemacquire, MutexTypeOK
<1>4. /\ \A h \in Goroutines : mpc'[h] = IF h = g THEN "acquire" ELSE mpc[h]
      /\ \A h \in Goroutines : h # g => old'[h] = old[h] /\ awoke'[h] = awoke[h]
                                          /\ starving'[h] = starving[h]
      /\ \A h \in Goroutines : spc'[h] = IF h = g THEN "easy" ELSE spc[h]
      /\ \A h \in Goroutines : h # g => saddr'[h] = saddr[h]
      /\ saddr'[g] = MutexSema
      /\ UNCHANGED <<sval, ticket>>
      /\ ~ticket[g]
  <2>1. ~ticket[g]
    BY <1>1, OutsideSema
  <2> QED BY <1>1, <2>1, MutexAssumption DEF MutexTypeOK, SemaTypeOK, CallSemacquire, Call
<1>5. m' \in State
  <2>1. m.locked \in BOOLEAN /\ m.woken \in BOOLEAN /\ m.starving \in BOOLEAN /\ m.waiters \in Nat
          /\ awoke[g] \in BOOLEAN /\ starving[g] \in BOOLEAN
    BY DEF MutexTypeOK, State
  <2> QED BY <1>2, <2>1 DEF State
<1>6. TypeOK'
  <2>1. mpc' \in [Goroutines -> {"idle", "throw"} \cup LockPc \cup UnlockPc]
    BY <1>1 DEF MutexTypeOK, LockPc
  <2>2. iter' \in [Goroutines -> 0 .. ActiveSpin]
    BY <1>1, MutexAssumption DEF MutexTypeOK
  <2> QED BY <1>1, <1>3, <1>5, <2>1, <2>2, ZeroState DEF MutexTypeOK
<1>7. CallInv'
  BY <1>1, <1>4 DEF CallInv, LockPc, UnlockPc, AcquirePc, ReleasePc
<1>8. OwnerInv'
  <2>1. \A h \in Goroutines : Owns(h)' <=> Owns(h)
    BY <1>1, <1>4 DEF Owns, Holds
  <2>2. m'.locked = m.locked
    BY <1>2
  <2> QED BY <2>1, <2>2 DEF OwnerInv
<1>9. \A h \in Goroutines : Awake(h)' => Awake(h) /\ h # g
  BY <1>4 DEF Awake, Paying
<1>10. \A h \in Goroutines : h # g /\ awoke[g] => ~Awake(h)
  BY <1>1 DEF TokenInv, Awake, Paying
<1>11. TokenInv'
  <2>1. CASE awoke[g]
    <3>1. sval[MutexSema] = 0
      BY <1>1, <2>1 DEF TokenInv, Awake, Paying
    <3>2. \A h \in Goroutines : ~Awake(h)'
      BY <1>9, <1>10, <2>1
    <3> QED BY <1>4, <3>1, <3>2 DEF TokenInv
  <2>2. CASE ~awoke[g]
    <3>1. ~starving[g]
      BY <1>1, <2>2 DEF ModeInv
    <3>2. m'.starving = m.starving /\ m'.woken = m.woken /\ m'.locked = m.locked
      BY <1>2, <2>2, <3>1 DEF MutexTypeOK, State
    <3> QED BY <1>4, <1>9, <3>2 DEF TokenInv
  <2> QED BY <2>1, <2>2
<1>12. ModeInv'
  <2>1. m.starving => m'.starving
    BY <1>2
  <2>2. m'.waiters > 0
    BY <1>2 DEF MutexTypeOK, State
  <2>3. CASE awoke[g]
    <3>1. ~m'.woken
      BY <1>2, <2>3
    <3>2. \A h \in Goroutines : h # g => ~(mpc[h] \in {"loop", "reload"} /\ awoke[h])
      BY <1>10, <2>3 DEF Awake, Paying
    <3> QED BY <1>4, <2>1, <2>2, <3>1, <3>2 DEF ModeInv
  <2>4. CASE ~awoke[g]
    <3>1. ~starving[g]
      BY <1>1, <2>4 DEF ModeInv
    <3>2. m'.starving = m.starving /\ m'.woken = m.woken
      BY <1>2, <2>4, <3>1 DEF MutexTypeOK, State
    <3> QED BY <1>4, <2>2, <3>2 DEF ModeInv
  <2> QED BY <2>3, <2>4
<1> QED BY <1>3, <1>6, <1>7, <1>8, <1>11, <1>12

\* The swap of Lock, when it takes the mutex.
LEMMA LockTakeInv ==
  ASSUME IInv, NEW g \in Goroutines, LockSwap(g), UNCHANGED wants, ~Contended(old[g])
  PROVE  IInv'
<1> USE DEF IInv, TypeOK
<1>1. mpc[g] = "loop" /\ m = old[g] /\ MReturn(g) /\ UNCHANGED <<semaVars, wants>>
  BY DEF LockSwap
<1>2. ~m.locked /\ ~m.starving
  BY <1>1 DEF Contended
<1>3. m' = [locked |-> TRUE, woken |-> m.woken /\ ~awoke[g], starving |-> FALSE,
            waiters |-> m.waiters]
  <2>1. (m.locked \/ ~m.starving) = TRUE /\ (m.starving \/ (starving[g] /\ m.locked)) = FALSE
    BY <1>2
  <2>2. m.waiters + 0 = m.waiters
    BY DEF MutexTypeOK, State
  <2> QED BY <1>1, <2>1, <2>2 DEF LockSwap, Wanted
<1>4. m' \in State
  BY <1>3 DEF MutexTypeOK, State
<1>5. m'.locked /\ ~m'.starving /\ (~awoke[g] => m'.woken = m.woken /\ m'.starving = m.starving)
  BY <1>2, <1>3 DEF MutexTypeOK, State
<1>6. mpc[g] = "fix" \/ awoke[g] \/ (m'.woken = m.woken /\ m'.starving = m.starving)
  BY <1>5
<1> HIDE DEF IInv, TypeOK
<1> QED BY ONLY IInv, g \in Goroutines, <1>1, <1>2, <1>4, <1>5, <1>6, TakeKeepsInv

\* The call of Unlock moves the ownership to the goroutine that unlocks.
LEMMA UnlockCallInv ==
  ASSUME IInv, NEW g \in Goroutines, NEW h \in Goroutines, Unlock(g, h)
  PROVE  IInv'
<1> USE DEF IInv, TypeOK
<1>1. /\ mpc[g] = "idle" /\ Holds(h)
      /\ mpc' = [mpc EXCEPT ![g] = "unlock"] /\ wants' = [wants EXCEPT ![h] = FALSE]
      /\ UNCHANGED <<semaVars, m, old, lockLocals>>
  BY DEF Unlock, CallUnlock, MGoto
<1>2. /\ \A k \in Goroutines : mpc'[k] = IF k = g THEN "unlock" ELSE mpc[k]
      /\ \A k \in Goroutines : wants'[k] = IF k = h THEN FALSE ELSE wants[k]
  BY <1>1 DEF MutexTypeOK
<1>3. /\ mpc[h] = "idle" /\ wants[h]
      /\ \A k \in Goroutines : Owns(k) <=> k = h
  BY <1>1 DEF OwnerInv, Owns, Holds
<1>4. ~wants'[g]
  BY <1>1, <1>2, <1>3 DEF Owns, Holds
<1>5. SemaTypeOK' /\ SemaInv'
  BY <1>1, SemaUnchanged
<1>6. TypeOK'
  BY <1>1, <1>5 DEF MutexTypeOK, UnlockPc, lockLocals
<1>7. CallInv'
  BY <1>1, <1>2, <1>3, <1>4, OutsideSema DEF CallInv, semaVars, LockPc, UnlockPc, AcquirePc, ReleasePc
<1>8. OwnerInv'
  <2>1. \A k \in Goroutines : Owns(k)' <=> k = g
    BY <1>2, <1>3 DEF Owns, Holds
  <2>2. m.locked
    BY <1>3 DEF OwnerInv
  <2> QED BY <1>1, <2>1, <2>2 DEF OwnerInv
<1>9. \A k \in Goroutines : Awake(k)' <=> Awake(k)
  BY <1>1, <1>2 DEF Awake, Paying, semaVars, lockLocals
<1>10. TokenInv'
  BY <1>1, <1>9 DEF TokenInv, semaVars
<1>11. ModeInv'
  BY <1>1, <1>2 DEF ModeInv, lockLocals
<1> QED BY <1>5, <1>6, <1>7, <1>8, <1>10, <1>11

\* The owner drops the lock bit; on a starving mutex it makes the token that is
\* handed off.
LEMMA UnlockDropInv ==
  ASSUME IInv, NEW g \in Goroutines, UnlockDrop(g), UNCHANGED wants
  PROVE  IInv'
<1> USE DEF IInv, TypeOK
<1>1. mpc[g] = "unlock" /\ m' = [m EXCEPT !.locked = FALSE] /\ UNCHANGED <<lockLocals, wants>>
  BY DEF UnlockDrop
<1>2. /\ m.locked /\ ~wants[g] /\ spc[g] = "idle" /\ ~ticket[g]
      /\ \A h \in Goroutines : Owns(h) <=> h = g
  BY <1>1, OutsideSema DEF OwnerInv, Owns, CallInv, UnlockPc
<1>3. /\ m' \in State /\ ~m'.locked /\ m'.woken = m.woken /\ m'.starving = m.starving
      /\ m'.waiters = m.waiters
  BY <1>1 DEF MutexTypeOK, State
<1>4. ASSUME NEW label \in {"release", "slow"}, mpc' = [mpc EXCEPT ![g] = label]
      PROVE  /\ mpc' \in [Goroutines -> {"idle", "throw"} \cup LockPc \cup UnlockPc]
             /\ \A h \in Goroutines : mpc'[h] = IF h = g THEN label ELSE mpc[h]
             /\ OwnerInv'
             /\ \A h \in Goroutines : mpc'[h] \in {"idle", "lock", "load", "loop", "reload", "fix"}
                                        => mpc'[h] = mpc[h]
  <2>1. \A h \in Goroutines : mpc'[h] = IF h = g THEN label ELSE mpc[h]
    BY <1>4 DEF MutexTypeOK
  <2>2. \A h \in Goroutines : ~Owns(h)'
    BY <1>1, <1>2, <2>1 DEF Owns, Holds
  <2> QED BY <1>3, <1>4, <2>1, <2>2 DEF OwnerInv, MutexTypeOK, UnlockPc
<1>5. CASE m.starving
  <2>1. CallSemrelease(g, MutexSema, TRUE) /\ mpc' = [mpc EXCEPT ![g] = "release"] /\ UNCHANGED old
    BY <1>2, <1>5 DEF UnlockDrop, MGoto
  <2>2. SemaTypeOK' /\ SemaInv'
    BY <2>1, CallKeepsInv, MutexAssumption DEF CallSemrelease
  <2>3. TypeOK'
    BY <1>1, <1>3, <1>4, <2>1, <2>2 DEF MutexTypeOK, lockLocals
  <2>4. /\ \A h \in Goroutines : spc'[h] = IF h = g THEN "xadd" ELSE spc[h]
        /\ \A h \in Goroutines : h # g => saddr'[h] = saddr[h]
        /\ saddr'[g] = MutexSema
        /\ UNCHANGED <<sval, ticket>>
    BY <2>1, MutexAssumption DEF CallSemrelease, Call, SemaTypeOK
  <2>5. CallInv'
    BY <1>1, <1>2, <1>4, <2>1, <2>4 DEF CallInv, LockPc, UnlockPc, AcquirePc, ReleasePc
  <2>6. sval[MutexSema] = 0 /\ \A h \in Goroutines : ~Awake(h)
    BY <1>2, <1>5 DEF TokenInv
  <2>7. \A h \in Goroutines : Awake(h)' => h = g
    BY <1>1, <1>4, <2>1, <2>4, <2>6 DEF Awake, Paying, lockLocals
  <2>8. TokenInv'
    BY <1>3, <1>5, <2>4, <2>6, <2>7 DEF TokenInv
  <2>9. ModeInv'
    BY <1>1, <1>3, <1>4, <2>1 DEF ModeInv, lockLocals
  <2> QED BY <1>4, <2>1, <2>2, <2>3, <2>5, <2>8, <2>9
<1>6. CASE ~m.starving
  <2>1. mpc' = [mpc EXCEPT ![g] = "slow"] /\ old' = [old EXCEPT ![g] = m'] /\ UNCHANGED semaVars
    BY <1>2, <1>6 DEF UnlockDrop, MGoto
  <2>2. SemaTypeOK' /\ SemaInv'
    BY <2>1, SemaUnchanged
  <2>3. TypeOK'
    BY <1>1, <1>3, <1>4, <2>1, <2>2 DEF MutexTypeOK, lockLocals
  <2>4. CallInv'
    BY <1>1, <1>2, <1>4, <2>1 DEF CallInv, semaVars, LockPc, UnlockPc, AcquirePc, ReleasePc
  <2>5. \A h \in Goroutines : Awake(h)' <=> Awake(h)
    BY <1>1, <1>4, <2>1 DEF Awake, Paying, lockLocals, semaVars
  <2>6. TokenInv'
    BY <1>3, <1>6, <2>1, <2>5 DEF TokenInv, semaVars
  <2>7. ModeInv'
    <3>1. \A h \in Goroutines : h # g => old'[h] = old[h]
      BY <2>1 DEF MutexTypeOK
    <3> QED BY <1>1, <1>3, <1>4, <2>1, <3>1 DEF ModeInv, lockLocals
  <2> QED BY <1>4, <2>1, <2>2, <2>3, <2>4, <2>6, <2>7
<1> QED BY <1>5, <1>6

\* Unlock returns, from the loop or from the semaphore.
LEMMA UnlockEndInv ==
  ASSUME IInv, NEW g \in Goroutines, mpc[g] = "slow" \/ (mpc[g] = "release" /\ spc[g] = "idle"),
         MReturn(g), UNCHANGED <<semaVars, m, wants>>
  PROVE  IInv'
<1> USE DEF IInv, TypeOK
<1>1. SemaTypeOK' /\ SemaInv'
  BY SemaUnchanged
<1>2. /\ mpc'[g] = "idle" /\ ~awoke'[g] /\ ~starving'[g]
      /\ \A h \in Goroutines : h # g =>
           /\ mpc'[h] = mpc[h] /\ old'[h] = old[h]
           /\ awoke'[h] = awoke[h] /\ starving'[h] = starving[h]
  BY ReturnFact
<1>3. TypeOK'
  BY <1>1, ReturnFact DEF MutexTypeOK
<1>4. spc[g] = "idle" /\ ~wants[g]
  BY OutsideSema DEF CallInv, UnlockPc
<1>5. CallInv'
  BY <1>2, <1>4 DEF CallInv, semaVars, AcquirePc, ReleasePc, LockPc, UnlockPc
<1>6. OwnerInv'
  <2>1. \A h \in Goroutines : Owns(h)' <=> Owns(h)
    BY <1>2, <1>4 DEF Owns, Holds
  <2> QED BY <2>1 DEF OwnerInv
<1>7. \A h \in Goroutines : Awake(h)' => Awake(h)
  BY <1>2 DEF Awake, Paying, semaVars
<1>8. TokenInv'
  BY <1>7 DEF TokenInv, semaVars
<1>9. ModeInv'
  BY <1>2 DEF ModeInv
<1> QED BY <1>1, <1>3, <1>5, <1>6, <1>8, <1>9

\* Unlock takes the right to wake a waiter, and with it makes the token.
LEMMA UnlockWakeInv ==
  ASSUME IInv, NEW g \in Goroutines, UnlockSlow(g), UNCHANGED wants, ~NobodyToWake(old[g])
  PROVE  IInv'
<1> USE DEF IInv, TypeOK
<1>1. /\ mpc[g] = "slow" /\ m = old[g]
      /\ m' = [m EXCEPT !.waiters = @ - 1, !.woken = TRUE]
      /\ CallSemrelease(g, MutexSema, FALSE)
      /\ mpc' = [mpc EXCEPT ![g] = "release"] /\ old' = [old EXCEPT ![g] = Unlocked]
      /\ UNCHANGED <<lockLocals, wants>>
  BY DEF UnlockSlow, MGoto, DropOld
<1>2. m.waiters # 0 /\ ~m.locked /\ ~m.woken /\ ~m.starving
  BY <1>1 DEF NobodyToWake
<1>3. m' \in State /\ ~m'.locked /\ ~m'.starving /\ m'.woken
  <2>1. m.waiters - 1 \in Nat
    BY <1>2 DEF MutexTypeOK, State
  <2>2. m' = [locked |-> m.locked, woken |-> TRUE, starving |-> m.starving,
              waiters |-> m.waiters - 1]
    BY <1>1 DEF MutexTypeOK, State
  <2> QED BY <1>2, <2>1, <2>2 DEF MutexTypeOK, State
<1>4. /\ \A h \in Goroutines : mpc'[h] = IF h = g THEN "release" ELSE mpc[h]
      /\ \A h \in Goroutines : h # g => old'[h] = old[h]
      /\ \A h \in Goroutines : spc'[h] = IF h = g THEN "xadd" ELSE spc[h]
      /\ \A h \in Goroutines : h # g => saddr'[h] = saddr[h]
      /\ saddr'[g] = MutexSema
      /\ UNCHANGED <<sval, ticket>>
  BY <1>1, MutexAssumption DEF MutexTypeOK, SemaTypeOK, CallSemrelease, Call
<1>5. SemaTypeOK' /\ SemaInv'
  BY <1>1, CallKeepsInv, MutexAssumption DEF CallSemrelease
<1>6. TypeOK'
  <2>1. mpc' \in [Goroutines -> {"idle", "throw"} \cup LockPc \cup UnlockPc]
    BY <1>1 DEF MutexTypeOK, UnlockPc
  <2> QED BY <1>1, <1>3, <1>5, <2>1, ZeroState DEF MutexTypeOK, lockLocals
<1>7. ~wants[g]
  BY <1>1 DEF CallInv, UnlockPc
<1>8. CallInv'
  BY <1>1, <1>4, <1>7 DEF CallInv, LockPc, UnlockPc, AcquirePc, ReleasePc
<1>9. OwnerInv'
  <2>1. \A h \in Goroutines : Owns(h)' <=> Owns(h)
    BY <1>1, <1>4 DEF Owns, Holds
  <2> QED BY <1>2, <1>3, <2>1 DEF OwnerInv
<1>10. sval[MutexSema] = 0 /\ \A h \in Goroutines : ~Awake(h)
  BY <1>2 DEF TokenInv
<1>11. \A h \in Goroutines : Awake(h)' => h = g
  BY <1>1, <1>4, <1>10 DEF Awake, Paying, lockLocals
<1>12. TokenInv'
  BY <1>3, <1>4, <1>10, <1>11 DEF TokenInv
<1>13. ModeInv'
  BY <1>1, <1>2, <1>3, <1>4 DEF ModeInv, lockLocals
<1> QED BY <1>5, <1>6, <1>8, <1>9, <1>12, <1>13

-----------------------------------------------------------------------------
(* The theorems.                                                           *)

LEMMA NextKeepsInv == IInv /\ [Next]_vars => IInv'
<1> SUFFICES ASSUME IInv, [Next]_vars
             PROVE  IInv'
  OBVIOUS
<1>1. ASSUME NEW g \in Goroutines, Lock(g)
      PROVE  IInv'
  BY <1>1, PassiveStep DEF Lock
<1>2. ASSUME NEW g \in Goroutines, NEW h \in Goroutines, Unlock(g, h)
      PROVE  IInv'
  BY <1>2, UnlockCallInv
<1>3. ASSUME NEW g \in Goroutines, SemaStep(g), UNCHANGED <<mutexVars, wants>>
      PROVE  IInv'
  BY <1>3, SemaKeepsInv
<1>4. ASSUME NEW g \in Goroutines, LockStep(g), UNCHANGED wants
      PROVE  IInv'
  <2>1. CASE LockLoad(g) \/ LockLost(g)
    <3>1. UNCHANGED semaVars
      BY <2>1 DEF LockLoad, LockLost
    <3> QED BY <1>4, <2>1, <3>1, PassiveStep
  <2>2. CASE LockSwap(g)
    BY <1>4, <2>2, LockSleepInv, LockTakeInv
  <2>3. CASE LockFast(g) \/ LockSpin(g) \/ LockWake(g) \/ LockFix(g)
    BY <1>4, <2>3, LockFastInv, LockSpinInv, LockWakeInv, LockFixInv
  <2> QED BY <1>4, <2>1, <2>2, <2>3 DEF LockStep
<1>5. ASSUME NEW g \in Goroutines, UnlockStep(g), UNCHANGED wants
      PROVE  IInv'
  <2>1. CASE UnlockLost(g) \/ UnlockReload(g)
    <3>1. UNCHANGED semaVars
      BY <2>1 DEF UnlockLost, UnlockReload
    <3> QED BY <1>5, <2>1, <3>1, PassiveStep
  <2>2. CASE UnlockDrop(g)
    BY <1>5, <2>2, UnlockDropInv
  <2>3. CASE UnlockSlow(g) /\ NobodyToWake(old[g])
    <3>1. mpc[g] = "slow" /\ MReturn(g) /\ UNCHANGED <<semaVars, m, wants>>
      BY <1>5, <2>3 DEF UnlockSlow
    <3> QED BY <3>1, UnlockEndInv
  <2>4. CASE UnlockSlow(g) /\ ~NobodyToWake(old[g])
    BY <1>5, <2>4, UnlockWakeInv
  <2>5. CASE UnlockReturn(g)
    <3>1. mpc[g] = "release" /\ spc[g] = "idle" /\ MReturn(g) /\ UNCHANGED <<semaVars, m, wants>>
      BY <1>5, <2>5 DEF UnlockReturn
    <3> QED BY <3>1, UnlockEndInv
  <2> QED BY <1>5, <2>1, <2>2, <2>3, <2>4, <2>5 DEF UnlockStep
<1>6. CASE UNCHANGED vars
  <2>1. SemaTypeOK' /\ SemaInv'
    BY <1>6, SemaUnchanged DEF vars, IInv, TypeOK
  <2> QED BY <1>6, <2>1 DEF vars, semaVars, mutexVars, lockLocals, IInv, TypeOK, MutexTypeOK,
                            CallInv, OwnerInv, Owns, Holds, TokenInv, Awake, Paying, ModeInv
<1> QED BY <1>1, <1>2, <1>3, <1>4, <1>5, <1>6 DEF Next, Run, MutexStep

LEMMA SpecInv == Spec => []IInv
BY InitInv, NextKeepsInv, PTL DEF Spec

\* The state word, the locals and the semaphore keep their types; in particular
\* neither the waiter count of the mutex nor nwait is ever decremented below 0.
THEOREM MutexTypeCorrect == Spec => []TypeOK
<1>1. IInv => TypeOK
  BY DEF IInv
<1> QED BY <1>1, SpecInv, PTL

\* At most one goroutine holds the mutex, and the lock bit is set while one does.
THEOREM MutexExclusion == Spec => []MutualExclusion
<1>1. IInv => MutualExclusion
  BY DEF IInv, OwnerInv, Owns, MutualExclusion
<1> QED BY <1>1, SpecInv, PTL

\* The atomic addition with which a waiter takes the mutex handed to it never
\* carries from one field of the state word into another.
THEOREM MutexHandoffAdds == Spec => []HandoffAdds
<1>1. IInv => HandoffAdds
  BY DEF IInv, TokenInv, ModeInv, Awake, Paying, HandoffAdds
<1> QED BY <1>1, SpecInv, PTL

\* In starvation mode only the goroutine the mutex is handed to sets the lock bit.
THEOREM MutexStarvingExcludesArrivals == Spec => StarvingExcludesArrivals
<1> DEFINE A == m.starving /\ ~m.locked /\ m'.locked =>
                  \E g \in Goroutines : mpc[g] = "fix" /\ mpc'[g] = "idle"
<1>1. IInv /\ [Next]_vars => [A]_vars
  <2> SUFFICES ASSUME IInv, Next, m.starving, ~m.locked, m'.locked
               PROVE  \E g \in Goroutines : mpc[g] = "fix" /\ mpc'[g] = "idle"
    OBVIOUS
  <2>1. m' # m
    OBVIOUS
  <2>2. PICK g \in Goroutines : MutexStep(g)
    BY <2>1 DEF Next, Lock, CallLock, Unlock, CallUnlock, Run, mutexVars
  <2>3. mpc \in [Goroutines -> {"idle", "throw"} \cup LockPc \cup UnlockPc] /\ m \in State
    BY DEF IInv, TypeOK, MutexTypeOK
  <2>4. CASE LockSwap(g)
    <3>1. m = old[g] /\ m' = Wanted(g)
      BY <2>4 DEF LockSwap
    <3> QED BY <3>1 DEF Wanted
  <2>5. CASE LockFix(g)
    BY <2>3, <2>5 DEF LockFix, MReturn, MGoto
  <2>6. CASE LockFast(g) \/ LockLoad(g) \/ LockLost(g) \/ LockWake(g)
    BY <2>1, <2>6 DEF LockFast, LockLoad, LockLost, LockWake, Unlocked
  <2>7. CASE LockSpin(g)
    BY <2>1, <2>3, <2>7 DEF LockSpin, State
  <2>8. CASE UnlockStep(g)
    BY <2>1, <2>3, <2>8 DEF UnlockStep, UnlockDrop, UnlockSlow, UnlockLost, UnlockReload, UnlockReturn,
                            State
  <2> QED BY <2>2, <2>4, <2>5, <2>6, <2>7, <2>8 DEF MutexStep, LockStep
<1> QED BY <1>1, SpecInv, PTL DEF Spec, StarvingExcludesArrivals

-----------------------------------------------------------------------------
(* What the state word says of waiters and wakeups.                        *)

\* At most one goroutine pays, so that the permits that are paid for count as one or
\* none; and so do the tokens.
LEMMA CountAtMostOne ==
  ASSUME IInv
  PROVE  /\ Tokens = IF HasToken THEN 1 ELSE 0
         /\ Paid = IF HasPaid THEN 1 ELSE 0
<1>1. \A T \in SUBSET Goroutines :
        (\A g, h \in T : g = h) => Cardinality(T) = IF T = {} THEN 0 ELSE 1
  <2> SUFFICES ASSUME NEW T \in SUBSET Goroutines, \A g, h \in T : g = h
               PROVE  Cardinality(T) = IF T = {} THEN 0 ELSE 1
    OBVIOUS
  <2>1. CASE T = {}
    BY <2>1, FS_EmptySet
  <2>2. CASE T # {}
    <3>1. PICK x \in T : T = {x}
      BY <2>2
    <3> QED BY <2>2, <3>1, FS_Singleton
  <2> QED BY <2>1, <2>2
<1>2. sval[MutexSema] \in {0, 1}
        /\ (sval[MutexSema] = 1 => \A g \in Goroutines : ~Awake(g) /\ ~Paying(g))
        /\ \A g \in Goroutines : Paying(g) => Awake(g)
  BY DEF IInv, TokenInv, Awake
<1>3. Cardinality({g \in Goroutines : Awake(g)})
        = IF {g \in Goroutines : Awake(g)} = {} THEN 0 ELSE 1
  BY <1>1 DEF IInv, TokenInv
<1>4. Cardinality({g \in Goroutines : Paying(g)})
        = IF {g \in Goroutines : Paying(g)} = {} THEN 0 ELSE 1
  BY <1>1, <1>2 DEF IInv, TokenInv
<1> QED BY <1>2, <1>3, <1>4 DEF Tokens, Paid, HasToken, HasPaid

\* A step of the semaphore neither makes a token nor loses one: it is in the word, with
\* a releaser that is about to add it, or with the waiter it is for.
LEMMA SemaKeepsPaid ==
  ASSUME IInv, IInv', NEW g \in Goroutines, SemaStep(g), UNCHANGED <<mutexVars, wants>>
  PROVE  HasPaid' <=> HasPaid
<1> DEFINE s == MutexSema
<1> USE DEF IInv, TypeOK
<1>1. UNCHANGED <<m, mpc, awoke>>
  BY DEF mutexVars, lockLocals
<1>2. spc[g] # "idle" /\ saddr[g] = s /\ s \in Addrs
  BY MutexAssumption DEF SemaStep, Semacquire, Semrelease, SemacquireEasy, SemacquireLock,
     SemacquireRetry, SemacquireQueue, SemacquireWake, SemreleaseXadd, SemreleaseCheck,
     SemreleaseDequeue, SemreleaseReady, CallInv
<1>3. /\ spc[g] \in AcquirePc => mpc[g] = "acquire"
      /\ spc[g] \in ReleasePc => mpc[g] = "release"
  BY DEF CallInv
<1>4. sval[s] \in {0, 1} /\ sval'[s] \in {0, 1}
  BY DEF TokenInv
\* The token stays where it is; it goes to a goroutine; it comes from one.
<1>5. ASSUME sval'[s] = sval[s], \A h \in Goroutines : Paying(h)' <=> Paying(h)
      PROVE  HasPaid' <=> HasPaid
  BY <1>5 DEF HasPaid
<1>6. ASSUME NEW k \in Goroutines, sval[s] > 0, Paying(k)'
      PROVE  HasPaid' <=> HasPaid
  BY <1>4, <1>6 DEF HasPaid
<1>7. ASSUME Paying(g), sval'[s] > 0
      PROVE  HasPaid' <=> HasPaid
  BY <1>4, <1>7 DEF HasPaid
<1>8. CASE SemacquireEasy(g) \/ SemacquireRetry(g)
  <2>1. /\ \A h \in Goroutines : h # g => (Paying(h)' <=> Paying(h))
        /\ mpc[g] = "acquire" /\ ~ticket[g] /\ spc[g] # "idle"
        /\ UNCHANGED ticket
    BY <1>1, <1>3, <1>8 DEF SemacquireEasy, SemacquireRetry, Return, Goto, Paying, SemaTypeOK,
                            SemaInv, TicketInv, AcquirePc
  <2>2. CASE sval[s] > 0
    <3>1. spc'[g] = "idle"
      BY <1>2, <1>8, <2>2 DEF SemacquireEasy, SemacquireRetry, CanSemacquire, Return, SemaTypeOK
    <3> QED BY <1>1, <1>6, <2>1, <2>2, <3>1 DEF Paying
  <2>3. CASE ~(sval[s] > 0)
    <3>1. spc'[g] \in {"lock", "queue"} /\ UNCHANGED sval
      BY <1>2, <1>8, <2>3 DEF SemacquireEasy, SemacquireRetry, CanSemacquire, Goto, SemaTypeOK
    <3> QED BY <1>1, <1>5, <2>1, <3>1 DEF Paying
  <2> QED BY <2>2, <2>3
<1>9. CASE SemacquireWake(g)
  <2>1. /\ \A h \in Goroutines : h # g => (Paying(h)' <=> Paying(h))
        /\ mpc[g] = "acquire" /\ spc[g] # "idle"
    BY <1>1, <1>3, <1>9 DEF SemacquireWake, Return, Goto, Paying, SemaTypeOK, AcquirePc
  <2>2. CASE ticket[g]
    <3>1. spc'[g] = "idle" /\ sval'[s] = sval[s]
      BY <1>2, <1>9, <2>2 DEF SemacquireWake, Return, SemaTypeOK
    <3> QED BY <1>1, <1>5, <2>1, <2>2, <3>1 DEF Paying
  <2>3. CASE ~ticket[g] /\ sval[s] > 0
    <3>1. spc'[g] = "idle"
      BY <1>2, <1>9, <2>3 DEF SemacquireWake, CanSemacquire, Return, SemaTypeOK
    <3> QED BY <1>1, <1>6, <2>1, <2>3, <3>1 DEF Paying
  <2>4. CASE ~ticket[g] /\ ~(sval[s] > 0)
    <3>1. spc'[g] = "lock" /\ UNCHANGED <<sval, ticket>>
      BY <1>2, <1>9, <2>4 DEF SemacquireWake, CanSemacquire, Goto, SemaTypeOK
    <3> QED BY <1>1, <1>5, <2>1, <2>4, <3>1 DEF Paying
  <2> QED BY <2>2, <2>3, <2>4
<1>10. CASE SemreleaseXadd(g)
  <2>1. sval'[s] = sval[s] + 1
    BY <1>2, <1>10 DEF SemreleaseXadd, SemaTypeOK
  <2>2. Paying(g)
    BY <1>3, <1>10 DEF SemreleaseXadd, Paying, ReleasePc
  <2> QED BY <1>4, <1>7, <2>1, <2>2
<1>11. CASE SemreleaseReady(g)
  <2> DEFINE t == target[g]
  <2>1. spc[g] = "ready" /\ t \in Goroutines /\ t # g /\ spc[t] = "parked" /\ ~ticket[t]
    BY <1>11 DEF SemreleaseReady, SemaInv, ParkedOnce, TicketInv
  <2>2. mpc[g] = "release" /\ mpc[t] = "acquire"
    BY <2>1 DEF CallInv, AcquirePc, ReleasePc
  <2>3. \A h \in Goroutines :
          spc'[h] = IF h = t THEN "woken" ELSE IF h = g THEN "idle" ELSE spc[h]
    BY <1>11, <2>1 DEF SemreleaseReady, SemaTypeOK
  <2>4. CASE sflag[g] /\ sval[s] > 0
    <3>1. ticket'[t]
      BY <1>2, <1>11, <2>1, <2>4 DEF SemreleaseReady, CanSemacquire, SemaTypeOK
    <3> QED BY <1>1, <1>6, <2>1, <2>2, <2>4, <3>1 DEF Paying
  <2>5. CASE ~(sflag[g] /\ sval[s] > 0)
    <3>1. UNCHANGED <<sval, ticket>>
      BY <1>2, <1>11, <2>5 DEF SemreleaseReady, CanSemacquire
    <3>2. \A h \in Goroutines : Paying(h)' <=> Paying(h)
      BY <1>1, <2>1, <2>2, <2>3, <3>1 DEF Paying
    <3> QED BY <1>5, <3>1, <3>2
  <2> QED BY <2>4, <2>5
<1>12. CASE SemacquireLock(g) \/ SemacquireQueue(g)
  <2>1. /\ UNCHANGED <<sval, ticket>> /\ mpc[g] = "acquire" /\ ~ticket[g]
        /\ spc[g] # "idle" /\ spc'[g] # "idle"
        /\ \A h \in Goroutines : h # g => spc'[h] = spc[h]
    BY <1>3, <1>12 DEF SemacquireLock, SemacquireQueue, Goto, SemaTypeOK, SemaInv, TicketInv, AcquirePc
  <2> QED BY <1>1, <1>5, <2>1 DEF Paying
<1>13. CASE SemreleaseCheck(g) \/ SemreleaseDequeue(g)
  <2>1. /\ UNCHANGED <<sval, ticket>> /\ mpc[g] = "release"
        /\ spc[g] # "xadd" /\ spc'[g] # "xadd"
        /\ \A h \in Goroutines : h # g => spc'[h] = spc[h]
    BY <1>3, <1>13 DEF SemreleaseCheck, SemreleaseDequeue, Goto, Return, SemaTypeOK, ReleasePc
  <2> QED BY <1>1, <1>5, <2>1 DEF Paying
<1> QED BY <1>8, <1>9, <1>10, <1>11, <1>12, <1>13 DEF SemaStep, Semacquire, Semrelease

\* What a step of Lock or Unlock leaves alone.
LEMMA MutexFrame ==
  ASSUME TypeOK, NEW g \in Goroutines,
         \/ MutexStep(g)
         \/ (CallLock(g) \/ CallUnlock(g)) /\ UNCHANGED semaVars
  PROVE  /\ UNCHANGED <<sval, ticket>>
         /\ \A h \in Goroutines : h # g =>
              /\ mpc'[h] = mpc[h] /\ awoke'[h] = awoke[h] /\ spc'[h] = spc[h]
              /\ Paying(h)' <=> Paying(h)
              /\ Awake(h)' <=> Awake(h)
              /\ h \in Inside' <=> h \in Inside
<1> USE DEF TypeOK
<1>1. ASSUME NEW label, MGoto(g, label)
      PROVE  \A h \in Goroutines : h # g => mpc'[h] = mpc[h]
  BY <1>1 DEF MGoto, MutexTypeOK
<1>2. ASSUME MReturn(g)
      PROVE  \A h \in Goroutines : h # g => mpc'[h] = mpc[h] /\ awoke'[h] = awoke[h]
  BY <1>2 DEF MReturn, MGoto, MutexTypeOK
<1>3. ASSUME NEW a, NEW f, CallSemacquire(g, a, f) \/ CallSemrelease(g, a, f)
      PROVE  UNCHANGED <<sval, ticket>> /\ \A h \in Goroutines : h # g => spc'[h] = spc[h]
  BY <1>3 DEF CallSemacquire, CallSemrelease, Call, SemaTypeOK
<1>4. UNCHANGED <<sval, ticket>> /\ \A h \in Goroutines : h # g => spc'[h] = spc[h]
  BY <1>3 DEF MutexStep, LockStep, LockFast, LockLoad, LockSpin, LockLost, LockSwap, LockWake, LockFix,
              UnlockStep, UnlockDrop, UnlockSlow, UnlockLost, UnlockReload, UnlockReturn, semaVars
<1>5. \A h \in Goroutines : h # g => mpc'[h] = mpc[h] /\ awoke'[h] = awoke[h]
  <2>1. CASE LockStep(g)
    BY <1>1, <1>2, <2>1 DEF LockStep, LockFast, LockLoad, LockSpin, LockLost, LockSwap, LockWake, LockFix,
                            lockLocals, MutexTypeOK
  <2>2. CASE ~LockStep(g)
    BY <1>1, <1>2, <2>2 DEF MutexStep, UnlockStep, UnlockDrop, UnlockSlow, UnlockLost, UnlockReload,
                            UnlockReturn, CallLock, CallUnlock, lockLocals, MutexTypeOK
  <2> QED BY <2>1, <2>2
<1> QED BY <1>4, <1>5 DEF Paying, Awake, Inside

\* A goroutine that enters or leaves the waiters changes their number by one.
LEMMA InsideMoves ==
  ASSUME TypeOK, NEW g \in Goroutines,
         \A h \in Goroutines : h # g => (h \in Inside' <=> h \in Inside)
  PROVE  Cardinality(Inside)' =
           IF g \in Inside' THEN IF g \in Inside THEN Cardinality(Inside) ELSE Cardinality(Inside) + 1
                            ELSE IF g \in Inside THEN Cardinality(Inside) - 1 ELSE Cardinality(Inside)
<1>1. IsFiniteSet(Inside) /\ IsFiniteSet(Inside')
  BY SemaAssumption, FS_Subset DEF Inside
<1>2. Inside \subseteq Goroutines /\ Inside' \subseteq Goroutines
  BY DEF Inside
<1>3. CASE g \in Inside' <=> g \in Inside
  <2>1. Inside' = Inside
    BY <1>2, <1>3
  <2> QED BY <1>3, <2>1
<1>4. CASE g \in Inside' /\ g \notin Inside
  <2>1. Inside' = Inside \cup {g}
    BY <1>2, <1>4
  <2> QED BY <1>1, <1>4, <2>1, FS_AddElement
<1>5. CASE g \notin Inside' /\ g \in Inside
  <2>1. Inside' = Inside \ {g}
    BY <1>2, <1>5
  <2> QED BY <1>1, <1>5, <2>1, FS_RemoveElement
<1> QED BY <1>3, <1>4, <1>5

\* A step that leaves the state word, or all of it but the lock bit in normal mode, and
\* moves no token.
LEMMA QuietAccount ==
  ASSUME IInv, AccountInv, NEW g \in Goroutines,
         \/ MutexStep(g)
         \/ (CallLock(g) \/ CallUnlock(g)) /\ UNCHANGED semaVars,
         m'.woken = m.woken, m'.starving = m.starving, m'.waiters = m.waiters,
         m'.locked = m.locked \/ ~m.starving,
         Paying(g)' <=> Paying(g), Awake(g)' <=> Awake(g), g \in Inside' <=> g \in Inside,
         mpc'[g] # "throw"
  PROVE  AccountInv'
<1>1. TypeOK
  BY DEF IInv
<1>2. /\ HasToken' <=> HasToken
      /\ HasPaid' <=> HasPaid
      /\ \A h \in Goroutines : mpc'[h] # "throw"
  BY <1>1, MutexFrame DEF HasToken, HasPaid, AccountInv
<1>3. Cardinality(Inside)' = Cardinality(Inside)
  BY <1>1, MutexFrame, InsideMoves
<1> QED BY <1>2, <1>3 DEF AccountInv

LEMMA LockAccount ==
  ASSUME IInv, AccountInv, NEW g \in Goroutines, LockStep(g), UNCHANGED wants
  PROVE  AccountInv'
<1> USE DEF IInv, TypeOK
<1>1. MutexStep(g)
  BY DEF MutexStep
<1>2. /\ UNCHANGED <<sval, ticket>>
      /\ \A h \in Goroutines : h # g =>
           /\ mpc'[h] = mpc[h]
           /\ Paying(h)' <=> Paying(h)
           /\ Awake(h)' <=> Awake(h)
           /\ h \in Inside' <=> h \in Inside
  BY <1>1, MutexFrame
<1>3. Cardinality(Inside)' =
           IF g \in Inside' THEN IF g \in Inside THEN Cardinality(Inside) ELSE Cardinality(Inside) + 1
                            ELSE IF g \in Inside THEN Cardinality(Inside) - 1 ELSE Cardinality(Inside)
  BY <1>2, InsideMoves
<1>4. m \in State /\ Cardinality(Inside) \in Nat
  BY SemaAssumption, FS_Subset, FS_CardinalityType DEF MutexTypeOK, Inside
<1>5. \A h \in Goroutines : Awake(g) /\ Awake(h) => h = g
  BY DEF TokenInv
<1>6. Awake(g) => sval[MutexSema] # 1
  BY DEF TokenInv
<1>7. \A h \in Goroutines : Paying(h) => Awake(h)
  BY DEF Awake
<1>8. mpc[g] \notin {"acquire", "release"} => spc[g] = "idle" /\ ~ticket[g]
  BY OutsideSema
<1>9. ASSUME LockFast(g) \/ LockLoad(g)
      PROVE  AccountInv'
  <2>1. /\ mpc[g] \in {"lock", "load", "reload"} /\ mpc'[g] \in {"idle", "load", "loop"}
        /\ m'.woken = m.woken /\ m'.starving = m.starving /\ m'.waiters = m.waiters
        /\ m'.locked = m.locked \/ ~m.starving
    BY <1>4, <1>9 DEF LockFast, LockLoad, MReturn, MGoto, MutexTypeOK, Unlocked
  <2>2. /\ ~Paying(g) /\ ~Paying(g)' /\ g \notin Inside /\ g \notin Inside'
    BY <2>1 DEF Paying, Inside
  <2>3. Awake(g)' <=> Awake(g)
    BY <1>9, <2>1, <2>2 DEF Awake, LockFast, LockLoad, MReturn, MGoto, MutexTypeOK, ModeInv, lockLocals
  <2> QED BY <1>1, <2>1, <2>2, <2>3, QuietAccount
<1>10. CASE LockLost(g)
  <2>1. /\ mpc[g] = "loop" /\ mpc'[g] = "reload" /\ UNCHANGED <<m, awoke>>
    BY <1>10 DEF LockLost, Inconsistent, MGoto, MutexTypeOK, ModeInv, lockLocals
  <2> QED BY <1>1, <2>1, QuietAccount DEF Awake, Paying, Inside
<1>11. CASE LockSpin(g)
  <2>1. mpc[g] = "loop" /\ mpc'[g] = "reload"
    BY <1>11 DEF LockSpin, MGoto, MutexTypeOK
  <2>2. ~Paying(g) /\ ~Paying(g)' /\ g \notin Inside /\ g \notin Inside'
    BY <2>1 DEF Paying, Inside
  <2>3. CASE UNCHANGED <<m, awoke>>
    BY <1>1, <2>1, <2>2, <2>3, QuietAccount DEF Awake
  <2>4. CASE ~UNCHANGED <<m, awoke>>
    <3>1. /\ m' = [m EXCEPT !.woken = TRUE] /\ awoke' = [awoke EXCEPT ![g] = TRUE]
          /\ ~m.starving
      BY <1>11, <2>4 DEF LockSpin
    <3>2. m'.starving = m.starving /\ m'.waiters = m.waiters
      BY <1>4, <3>1 DEF State
    <3>3. HasToken'
      BY <2>1, <3>1 DEF HasToken, Awake, MutexTypeOK
    <3>4. HasPaid' <=> HasPaid
      BY <1>2, <2>2 DEF HasPaid
    <3>5. \A h \in Goroutines : mpc'[h] # "throw"
      BY <1>2, <2>1 DEF AccountInv
    <3> QED BY <1>3, <2>2, <3>2, <3>3, <3>4, <3>5 DEF AccountInv
  <2> QED BY <2>3, <2>4
\* A swap that takes the mutex.
<1>12. CASE LockSwap(g) /\ ~Contended(old[g])
  <2>1. mpc[g] = "loop" /\ mpc'[g] = "idle" /\ m = old[g] /\ m' = Wanted(g) /\ ~m.locked /\ ~m.starving
    BY <1>12 DEF LockSwap, MReturn, MGoto, MutexTypeOK, Contended
  <2>2. m'.woken = (m.woken /\ ~awoke[g]) /\ ~m'.starving /\ m'.waiters = m.waiters
    BY <1>4, <2>1 DEF Wanted, Contended, State
  <2>3. ~Paying(g) /\ ~Paying(g)' /\ ~Awake(g)' /\ g \notin Inside /\ g \notin Inside'
    BY <2>1 DEF Paying, Awake, Inside
  <2>4. m'.woken => HasToken'
    <3>1. ~awoke[g] => ~Awake(g)
      BY <2>1 DEF Awake, Paying
    <3> QED BY <1>2, <2>1, <2>2, <3>1 DEF HasToken, AccountInv
  <2>5. HasPaid' <=> HasPaid
    BY <1>2, <2>3 DEF HasPaid
  <2>6. \A h \in Goroutines : mpc'[h] # "throw"
    BY <1>2, <2>1 DEF AccountInv
  <2> QED BY <1>3, <2>1, <2>2, <2>3, <2>4, <2>5, <2>6 DEF AccountInv
\* A swap that adds a waiter.
<1>13. CASE LockSwap(g) /\ Contended(old[g])
  <2>1. /\ mpc[g] = "loop" /\ mpc'[g] = "acquire" /\ m = old[g] /\ m' = Wanted(g)
        /\ m.locked \/ m.starving
        /\ spc'[g] = "easy"
    BY <1>13 DEF LockSwap, MGoto, MutexTypeOK, Contended, CallSemacquire, Call, SemaTypeOK
  <2>2. /\ m'.woken = (m.woken /\ ~awoke[g])
        /\ m'.starving = (m.starving \/ (starving[g] /\ m.locked))
        /\ m'.waiters = m.waiters + 1
        /\ m'.locked = m.locked
    BY <1>4, <2>1 DEF Wanted, Contended, State
  <2>3. ~Paying(g) /\ ~Paying(g)' /\ ~Awake(g)' /\ g \notin Inside /\ g \in Inside'
    BY <1>2, <1>8, <2>1 DEF Paying, Awake, Inside
  <2>4. Awake(g) <=> awoke[g]
    BY <2>1 DEF Awake, Paying
  <2>5. (IF m'.starving THEN ~m'.locked ELSE m'.woken) => HasToken'
    <3>1. awoke[g] => ~m.starving
      BY <2>1 DEF ModeInv
    <3>2. ~Awake(g) /\ HasToken => HasToken'
      BY <1>2 DEF HasToken
    <3> QED BY <2>1, <2>2, <2>4, <3>1, <3>2 DEF AccountInv
  <2>6. HasPaid' <=> HasPaid
    BY <1>2, <2>3 DEF HasPaid
  <2>7. m'.starving /\ ~m.starving => ~HasPaid
    <3>1. starving[g] => awoke[g]
      BY <2>1 DEF ModeInv
    <3>2. Awake(g) => ~HasPaid
      BY <1>4, <1>5, <1>6, <1>7, <2>3 DEF HasPaid
    <3> QED BY <2>2, <2>4, <3>1, <3>2
  <2>8. \A h \in Goroutines : mpc'[h] # "throw"
    BY <1>2, <2>1 DEF AccountInv
  <2>9. m.starving => m'.starving
    BY <2>2
  <2>10. Cardinality(Inside)' = Cardinality(Inside) + 1
    BY <1>3, <2>3
  <2>11. m.waiters \in Nat
    BY <1>4 DEF State
  <2>12. m'.waiters + (IF ~m'.starving /\ HasPaid' THEN 1 ELSE 0) = Cardinality(Inside)'
    BY <1>4, <2>2, <2>6, <2>7, <2>9, <2>10, <2>11 DEF AccountInv
  <2> QED BY <2>5, <2>8, <2>12 DEF AccountInv
<1>14. CASE LockWake(g)
  <2>1. mpc[g] = "acquire" /\ spc[g] = "idle" /\ UNCHANGED <<m, spc>> /\ Paying(g) /\ Awake(g)
          /\ g \in Inside
    BY <1>14 DEF LockWake, Paying, Awake, Inside, semaVars
  <2>2. ~HasPaid' \/ Paying(g)'
    BY <1>2, <1>5, <1>6, <1>7, <2>1 DEF HasPaid, TokenInv
  <2>3. HasPaid
    BY <2>1 DEF HasPaid
  <2>4. CASE m.starving
    <3>1. ~m.locked /\ ~m.woken
      BY <2>1, <2>4 DEF TokenInv, ModeInv
    <3>2. m.waiters # 0
      <4>1. Cardinality(Inside) # 0
        BY <2>1, SemaAssumption, FS_Subset, FS_EmptySet DEF Inside
      <4> QED BY <2>4, <4>1, <1>4 DEF AccountInv, State
    <3>3. mpc'[g] = "fix"
      BY <1>14, <2>4, <3>1, <3>2 DEF LockWake, MGoto, MutexTypeOK
    <3>4. HasToken' /\ g \in Inside'
      BY <3>3 DEF HasToken, Awake, Inside
    <3>5. \A h \in Goroutines : mpc'[h] # "throw"
      BY <1>2, <3>3 DEF AccountInv
    <3> QED BY <1>3, <2>1, <2>4, <3>4, <3>5 DEF AccountInv
  <2>5. CASE ~m.starving
    <3>1. mpc'[g] = "loop" /\ awoke'[g]
      BY <1>14, <2>5 DEF LockWake, MGoto, MutexTypeOK
    <3>2. HasToken' /\ g \notin Inside' /\ ~Paying(g)'
      BY <3>1 DEF HasToken, Awake, Paying, Inside
    <3>3. \A h \in Goroutines : mpc'[h] # "throw"
      BY <1>2, <3>1 DEF AccountInv
    <3>4. m.waiters \in Nat
      BY <1>4 DEF State
    <3> QED BY <1>3, <1>4, <2>1, <2>2, <2>3, <2>5, <3>2, <3>3, <3>4 DEF AccountInv
  <2> QED BY <2>4, <2>5
<1>15. CASE LockFix(g)
  <2>1. /\ mpc[g] = "fix" /\ mpc'[g] = "idle" /\ Awake(g) /\ g \in Inside /\ g \notin Inside'
        /\ ~Paying(g) /\ ~Paying(g)'
        /\ spc[g] = "idle" /\ UNCHANGED spc
    BY <1>8, <1>15 DEF LockFix, MReturn, MGoto, MutexTypeOK, Awake, Inside, Paying, semaVars
  <2>2. m.starving /\ ~m.woken
    BY <2>1 DEF ModeInv
  <2>3. m'.locked /\ ~m'.woken /\ m'.waiters = m.waiters - 1
    BY <1>4, <1>15, <2>2 DEF LockFix, State
  <2>4. ~HasPaid'
    BY <1>2, <1>5, <1>6, <1>7, <2>1 DEF HasPaid
  <2>5. \A h \in Goroutines : mpc'[h] # "throw"
    BY <1>2, <2>1 DEF AccountInv
  <2>6. m.waiters \in Nat
    BY <1>4 DEF State
  <2> QED BY <1>3, <1>4, <2>1, <2>2, <2>3, <2>4, <2>5, <2>6 DEF AccountInv
<1> QED BY <1>9, <1>10, <1>11, <1>12, <1>13, <1>14, <1>15 DEF LockStep

LEMMA UnlockAccount ==
  ASSUME IInv, AccountInv, NEW g \in Goroutines, UnlockStep(g), UNCHANGED wants
  PROVE  AccountInv'
<1> USE DEF IInv, TypeOK
<1>1. MutexStep(g)
  BY DEF MutexStep
<1>2. /\ UNCHANGED <<sval, ticket>>
      /\ \A h \in Goroutines : h # g =>
           /\ mpc'[h] = mpc[h]
           /\ Paying(h)' <=> Paying(h)
           /\ Awake(h)' <=> Awake(h)
           /\ h \in Inside' <=> h \in Inside
  BY <1>1, MutexFrame
<1>3. Cardinality(Inside)' =
           IF g \in Inside' THEN IF g \in Inside THEN Cardinality(Inside) ELSE Cardinality(Inside) + 1
                            ELSE IF g \in Inside THEN Cardinality(Inside) - 1 ELSE Cardinality(Inside)
  BY <1>2, InsideMoves
<1>4. m \in State /\ Cardinality(Inside) \in Nat
  BY SemaAssumption, FS_Subset, FS_CardinalityType DEF MutexTypeOK, Inside
<1>5. mpc[g] \notin {"acquire", "release"} => spc[g] = "idle" /\ ~ticket[g]
  BY OutsideSema
<1>6. ASSUME UnlockLost(g) \/ UnlockReload(g) \/ UnlockReturn(g)
             \/ (UnlockSlow(g) /\ NobodyToWake(old[g]))
      PROVE  AccountInv'
  <2>1. /\ mpc[g] \in {"slow", "reslow"} \/ (mpc[g] = "release" /\ spc[g] = "idle")
        /\ mpc'[g] \in {"idle", "slow", "reslow"}
        /\ UNCHANGED m
    <3>1. CASE UnlockSlow(g) /\ NobodyToWake(old[g])
      BY <3>1 DEF UnlockSlow, MReturn, MGoto, MutexTypeOK
    <3>2. CASE UnlockLost(g) \/ UnlockReload(g) \/ UnlockReturn(g)
      BY <3>2 DEF UnlockLost, UnlockReload, UnlockReturn, MReturn, MGoto, MutexTypeOK
    <3> QED BY <1>6, <3>1, <3>2
  <2>2. ~Paying(g) /\ ~Paying(g)' /\ ~Awake(g) /\ ~Awake(g)' /\ g \notin Inside /\ g \notin Inside'
    BY <2>1 DEF Paying, Awake, Inside
  <2> QED BY <1>1, <1>4, <2>1, <2>2, QuietAccount DEF State
<1>7. CASE UnlockDrop(g)
  <2>1. mpc[g] = "unlock" /\ m.locked /\ m' = [m EXCEPT !.locked = FALSE]
    BY <1>7 DEF UnlockDrop, OwnerInv, Owns
  <2>2. m'.woken = m.woken /\ m'.starving = m.starving /\ m'.waiters = m.waiters /\ ~m'.locked
    BY <1>4, <2>1 DEF State
  <2>3. CASE m.starving
    <3>1. mpc'[g] = "release" /\ spc'[g] = "xadd"
      BY <1>7, <2>1, <2>3 DEF UnlockDrop, MGoto, MutexTypeOK, CallSemrelease, Call, SemaTypeOK
    <3>2. HasToken' /\ g \notin Inside /\ g \notin Inside'
      BY <2>1, <3>1 DEF HasToken, Awake, Paying, Inside
    <3>3. \A h \in Goroutines : mpc'[h] # "throw"
      BY <1>2, <3>1 DEF AccountInv
    <3> QED BY <1>3, <2>2, <2>3, <3>2, <3>3 DEF AccountInv
  <2>4. CASE ~m.starving
    <3>1. mpc'[g] = "slow" /\ UNCHANGED awoke
      BY <1>7, <2>1, <2>4 DEF UnlockDrop, MGoto, MutexTypeOK, lockLocals
    <3>2. ~Paying(g) /\ ~Paying(g)' /\ ~Awake(g) /\ ~Awake(g)' /\ g \notin Inside /\ g \notin Inside'
      BY <2>1, <3>1 DEF Paying, Awake, Inside
    <3>3. /\ HasToken' <=> HasToken
          /\ HasPaid' <=> HasPaid
          /\ \A h \in Goroutines : mpc'[h] # "throw"
      BY <1>2, <3>1, <3>2 DEF HasToken, HasPaid, AccountInv
    <3> QED BY <1>3, <2>2, <2>4, <3>2, <3>3 DEF AccountInv
  <2> QED BY <2>3, <2>4
<1>8. CASE UnlockSlow(g) /\ ~NobodyToWake(old[g])
  <2>1. /\ mpc[g] = "slow" /\ mpc'[g] = "release" /\ spc'[g] = "xadd"
        /\ m.waiters # 0 /\ ~m.locked /\ ~m.woken /\ ~m.starving
        /\ m' = [m EXCEPT !.waiters = @ - 1, !.woken = TRUE]
    BY <1>8 DEF UnlockSlow, NobodyToWake, MGoto, MutexTypeOK, CallSemrelease, Call, SemaTypeOK
  <2>2. ~m'.starving /\ m'.waiters = m.waiters - 1 /\ m.waiters \in Nat
    BY <1>4, <2>1 DEF State
  <2>3. ~HasPaid
    BY <2>1 DEF HasPaid, TokenInv, Awake
  <2>4. HasPaid' /\ HasToken' /\ g \notin Inside /\ g \notin Inside'
    BY <2>1 DEF HasPaid, HasToken, Awake, Paying, Inside
  <2>5. \A h \in Goroutines : mpc'[h] # "throw"
    BY <1>2, <2>1 DEF AccountInv
  <2> QED BY <1>3, <1>4, <2>1, <2>2, <2>3, <2>4, <2>5 DEF AccountInv
<1> QED BY <1>6, <1>7, <1>8 DEF UnlockStep

LEMMA NextKeepsAccount == IInv /\ IInv' /\ AccountInv /\ [Next]_vars => AccountInv'
<1> SUFFICES ASSUME IInv, IInv', AccountInv, [Next]_vars
             PROVE  AccountInv'
  OBVIOUS
<1>1. ASSUME NEW g \in Goroutines,
             (CallLock(g) \/ CallUnlock(g)) /\ UNCHANGED semaVars
      PROVE  AccountInv'
  <2>1. /\ mpc[g] = "idle" /\ mpc'[g] \in {"lock", "unlock"} /\ UNCHANGED m
    BY <1>1 DEF CallLock, CallUnlock, MGoto, IInv, TypeOK, MutexTypeOK
  <2>2. ~Paying(g) /\ ~Paying(g)' /\ ~Awake(g) /\ ~Awake(g)' /\ g \notin Inside /\ g \notin Inside'
    BY <2>1 DEF Paying, Awake, Inside
  <2>3. m \in State
    BY DEF IInv, TypeOK, MutexTypeOK
  <2> QED BY <1>1, <2>1, <2>2, <2>3, QuietAccount DEF State
<1>2. ASSUME NEW g \in Goroutines, SemaStep(g), UNCHANGED <<mutexVars, wants>>
      PROVE  AccountInv'
  <2>1. HasPaid' <=> HasPaid
    BY <1>2, SemaKeepsPaid
  <2>2. UNCHANGED <<m, mpc, awoke>>
    BY <1>2 DEF mutexVars, lockLocals
  <2>3. HasToken' <=> HasToken
    BY <2>1, <2>2 DEF HasToken, HasPaid, Awake
  <2> QED BY <2>1, <2>2, <2>3 DEF AccountInv, Inside
<1>3. ASSUME NEW g \in Goroutines, MutexStep(g), UNCHANGED wants
      PROVE  AccountInv'
  BY <1>3, LockAccount, UnlockAccount DEF MutexStep
<1>4. CASE UNCHANGED vars
  BY <1>4 DEF vars, semaVars, mutexVars, lockLocals, AccountInv, HasToken, HasPaid, Awake, Paying, Inside
<1> QED BY <1>1, <1>2, <1>3, <1>4 DEF Next, Lock, Unlock, Run

\* The state word tells the truth about waiters and wakeups, and neither of the two
\* errors that mutex.go throws is reached by a program that unlocks what is locked.
THEOREM MutexWordAccounts == Spec => []WordAccounts
<1>1. Init => AccountInv
  <2> SUFFICES ASSUME Init
               PROVE  AccountInv
    OBVIOUS
  <2>1. m = Unlocked /\ \A g \in Goroutines : mpc[g] = "idle"
    BY DEF Init, MutexInit
  <2>2. sval[MutexSema] = 0
    BY MutexAssumption DEF Init, SemaInit
  <2>3. ~HasPaid
    BY <2>1, <2>2 DEF HasPaid, Paying
  <2>4. Inside = {}
    BY <2>1 DEF Inside
  <2> QED BY <2>1, <2>3, <2>4, FS_EmptySet DEF AccountInv, Unlocked
<1>2. AccountInv /\ [Next]_vars /\ IInv /\ IInv' => AccountInv'
  BY NextKeepsAccount
<1>3. IInv /\ AccountInv => WordAccounts
  <2> SUFFICES ASSUME IInv, AccountInv
               PROVE  WordAccounts
    OBVIOUS
  <2>1. m \in State
    BY DEF IInv, TypeOK, MutexTypeOK
  <2>2. HasToken => IF m.starving THEN ~m.locked ELSE m.woken
    BY DEF IInv, TokenInv, HasToken
  <2>3. WakeAccounting
    BY <2>1, <2>2, CountAtMostOne DEF WakeAccounting, AccountInv, State
  <2>4. WaitersExact
    <3>1. Cardinality(Inside) \in Nat /\ m.waiters \in Nat
      BY <2>1, SemaAssumption, FS_Subset, FS_CardinalityType DEF Inside, State
    <3> QED BY <2>1, <3>1, CountAtMostOne DEF WaitersExact, AccountInv
  <2> QED BY <2>3, <2>4 DEF WordAccounts, AccountInv
<1> QED BY <1>1, <1>2, <1>3, SpecInv, PTL DEF Spec

-----------------------------------------------------------------------------
(* The refinement of LockSpec.                                             *)

\* A step of Lock or Unlock moves one goroutine, and one that is in a call.
LEMMA MutexStepMoves ==
  ASSUME MutexTypeOK, NEW g \in Goroutines, MutexStep(g)
  PROVE  /\ mpc[g] # "idle"
         /\ \A h \in Goroutines : h # g => mpc'[h] = mpc[h]
<1>1. ASSUME NEW label, MGoto(g, label)
      PROVE  \A h \in Goroutines : h # g => mpc'[h] = mpc[h]
  BY <1>1 DEF MGoto, MutexTypeOK
<1>2. CASE LockStep(g)
  BY <1>1, <1>2 DEF LockStep, LockFast, LockLoad, LockSpin, LockLost, LockSwap, LockWake, LockFix, MReturn
<1>3. CASE UnlockStep(g)
  BY <1>1, <1>3 DEF UnlockStep, UnlockDrop, UnlockSlow, UnlockLost, UnlockReload, UnlockReturn, MReturn
<1> QED BY <1>2, <1>3 DEF MutexStep

LEMMA StepRefinesLock == IInv /\ IInv' /\ [Next]_vars => [Abstract!LockNext]_<<LockWaiters, LockHeld>>
<1> SUFFICES ASSUME IInv, IInv', [Next]_vars
             PROVE  Abstract!LockNext \/ (LockWaiters' = LockWaiters /\ LockHeld' = LockHeld)
  OBVIOUS
<1>1. MutexTypeOK /\ MutexTypeOK' /\ wants \in [Goroutines -> BOOLEAN]
  BY DEF IInv, TypeOK
<1>2. /\ \A g, h \in Goroutines : Holds(g) /\ Holds(h) => g = h
      /\ \A g, h \in Goroutines : Holds(g)' /\ Holds(h)' => g = h
  BY DEF IInv, OwnerInv, Owns
<1>3. ASSUME NEW g \in Goroutines, Lock(g)
      PROVE  Abstract!Ask(g)
  <2>1. ~wants[g] /\ mpc' = [mpc EXCEPT ![g] = "lock"] /\ wants' = [wants EXCEPT ![g] = TRUE]
    BY <1>3 DEF Lock, CallLock, MGoto
  <2>2. \A h \in Goroutines : /\ mpc'[h] = IF h = g THEN "lock" ELSE mpc[h]
                              /\ (wants'[h] <=> h = g \/ wants[h])
    BY <1>1, <2>1 DEF MutexTypeOK
  <2>3. LockWaiters' = LockWaiters \cup {g} /\ g \notin LockWaiters
    BY <1>3, <2>1, <2>2 DEF LockWaiters
  <2>4. LockHeld' = LockHeld
    BY <1>3, <2>1, <2>2 DEF LockHeld, Holds
  <2> QED BY <2>3, <2>4 DEF Abstract!Ask
<1>4. ASSUME NEW g \in Goroutines, NEW h \in Goroutines, Unlock(g, h)
      PROVE  Abstract!Release
  <2>1. /\ Holds(h) /\ mpc[g] = "idle" /\ mpc' = [mpc EXCEPT ![g] = "unlock"]
        /\ wants' = [wants EXCEPT ![h] = FALSE]
    BY <1>4 DEF Unlock, CallUnlock, MGoto
  <2>2. \A k \in Goroutines : /\ mpc'[k] = IF k = g THEN "unlock" ELSE mpc[k]
                              /\ (wants'[k] <=> k # h /\ wants[k])
    BY <1>1, <2>1 DEF MutexTypeOK
  <2>3. ~wants'[g]
    BY <1>2, <1>4, <2>1, <2>2 DEF Holds
  <2>4. LockWaiters' = LockWaiters
    BY <1>4, <2>1, <2>2, <2>3 DEF LockWaiters, Holds
  <2>5. LockHeld
    BY <1>4, <2>1 DEF LockHeld
  <2>6. LockHeld' = FALSE
    BY <1>2, <1>4, <2>1, <2>2 DEF LockHeld, Holds
  <2> QED BY <2>4, <2>5, <2>6 DEF Abstract!Release
<1>5. ASSUME NEW g \in Goroutines, MutexStep(g), UNCHANGED wants
      PROVE  Abstract!Grant(g) \/ (LockWaiters' = LockWaiters /\ LockHeld' = LockHeld)
  <2>1. mpc[g] # "idle" /\ \A h \in Goroutines : h # g => mpc'[h] = mpc[h]
    BY <1>1, <1>5, MutexStepMoves
  <2>2. CASE wants[g] /\ mpc'[g] = "idle"
    <3>1. g \in LockWaiters /\ LockWaiters' = LockWaiters \ {g}
      BY <1>5, <2>1, <2>2 DEF LockWaiters
    <3>2. LockHeld'
      BY <1>5, <2>2 DEF LockHeld, Holds
    <3>3. ~LockHeld
      BY <1>2, <1>5, <2>1, <2>2 DEF LockHeld, Holds
    <3> QED BY <3>1, <3>2, <3>3 DEF Abstract!Grant, LockHeld
  <2>3. CASE ~(wants[g] /\ mpc'[g] = "idle")
    BY <1>5, <2>1, <2>3 DEF LockWaiters, LockHeld, Holds
  <2> QED BY <2>2, <2>3
<1>6. ASSUME UNCHANGED <<mutexVars, wants>>
      PROVE  LockWaiters' = LockWaiters /\ LockHeld' = LockHeld
  BY <1>6 DEF LockWaiters, LockHeld, Holds, mutexVars
<1> QED BY <1>3, <1>4, <1>5, <1>6 DEF Next, Run, vars, Abstract!LockNext

\* The mutex implements an exclusive lock: every step of Lock, Unlock and the
\* semaphore below them is a request, a grant of the free lock, a release, or
\* invisible.
THEOREM MutexImplementsLock == Spec => ImplementsLock
<1>1. Init => Abstract!LockInit
  BY DEF Init, MutexInit, Abstract!LockInit, LockWaiters, LockHeld, Holds
<1>2. IInv /\ IInv' /\ [Next]_vars => [Abstract!LockNext]_Abstract!lockVars
  BY StepRefinesLock DEF Abstract!lockVars
<1> QED BY <1>1, <1>2, SpecInv, PTL DEF Spec, ImplementsLock, Abstract!Exclusive
=============================================================================
