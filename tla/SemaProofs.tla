----------------------------- MODULE SemaProofs -----------------------------
(***************************************************************************)
(* Theorems about the semaphore of runtime/sema.go, for any number of      *)
(* goroutines, addresses and releases, and any way to hash the addresses   *)
(* to roots.                                                               *)
(***************************************************************************)
EXTENDS SemaClients, SemaLemmas

\* A step that is slow on one machine is given time on every one.
USE SMTT(40), ZenonT(40)

LEMMA SpecInv == Spec => [](SemaTypeOK /\ SemaInv)
<1>1. Init => SemaTypeOK /\ SemaInv
  BY SemaInitInv DEF Init
<1>2. SemaTypeOK /\ SemaInv /\ [Next]_vars => (SemaTypeOK /\ SemaInv)'
  <2> SUFFICES ASSUME SemaTypeOK, SemaInv, [Next]_vars
               PROVE  (SemaTypeOK /\ SemaInv)'
    OBVIOUS
  <2>1. ASSUME NEW g \in Goroutines, Acquire(g)
        PROVE  (SemaTypeOK /\ SemaInv)'
    BY <2>1, CallKeepsInv DEF Acquire, CallSemacquire
  <2>2. ASSUME NEW g \in Goroutines, Release(g)
        PROVE  (SemaTypeOK /\ SemaInv)'
    BY <2>2, CallKeepsInv DEF Release, CallSemrelease
  <2>3. ASSUME NEW g \in Goroutines, Run(g)
        PROVE  (SemaTypeOK /\ SemaInv)'
    BY <2>3, SemaStepKeepsInv DEF Run
  <2>4. CASE UNCHANGED vars
    BY <2>4 DEF vars, semaVars, SemaTypeOK, SemaInv, ParkedOnce, TicketInv, NwaitExact,
                Waiting, root
  <2> QED BY <2>1, <2>2, <2>3, <2>4 DEF Next
<1> QED BY <1>1, <1>2, PTL DEF Spec

\* A sleeping goroutine is in exactly one place, the queue of the address it
\* called with or the hands of the releaser that will ready it, however the
\* calls of semacquire1 and semrelease1 interleave.
THEOREM SemaParkedOnce == Spec => []ParkedOnce
<1>1. SemaTypeOK /\ SemaInv => ParkedOnce
  BY DEF SemaInv
<1> QED BY <1>1, SpecInv, PTL

\* nwait, which a release reads without the root lock to decide that it need not
\* look for a sleeper, is exactly the number of the goroutines that sleep on
\* the root or hold its lock on their way to sleep.
THEOREM SemaNwaitExact == Spec => []NwaitExact
<1>1. SemaTypeOK /\ SemaInv => NwaitExact
  BY DEF SemaInv
<1> QED BY <1>1, SpecInv, PTL

-----------------------------------------------------------------------------
(* The semaphore implements the abstract one.                              *)

\* A step that moves nobody else in or out of the waiting sets.
Others(g) ==
  \A a \in Addrs, h \in Goroutines : h # g => (h \in Wanting(a)' <=> h \in Wanting(a))

LEMMA Stays ==
  ASSUME NEW g \in Goroutines, Others(g),
         \A a \in Addrs : g \in Wanting(a)' <=> g \in Wanting(a)
  PROVE  Waits' = Waits
<1>1. ASSUME NEW a \in Addrs
      PROVE  Wanting(a)' = Wanting(a)
  <2>1. Wanting(a) \subseteq Goroutines /\ Wanting(a)' \subseteq Goroutines
    BY DEF Wanting, At
  <2> QED BY <2>1 DEF Others
<1> QED BY <1>1 DEF Waits

LEMMA Enters ==
  ASSUME NEW g \in Goroutines, NEW b \in Addrs, Others(g),
         \A a \in Addrs : g \notin Wanting(a) /\ (g \in Wanting(a)' <=> a = b)
  PROVE  Waits' = [Waits EXCEPT ![b] = @ \cup {g}]
<1>1. ASSUME NEW a \in Addrs
      PROVE  Wanting(a)' = IF a = b THEN Wanting(a) \cup {g} ELSE Wanting(a)
  <2>1. Wanting(a) \subseteq Goroutines /\ Wanting(a)' \subseteq Goroutines
    BY DEF Wanting, At
  <2> QED BY <2>1 DEF Others
<1> QED BY <1>1 DEF Waits

LEMMA Leaves ==
  ASSUME NEW g \in Goroutines, NEW b \in Addrs, Others(g),
         \A a \in Addrs : g \notin Wanting(a)' /\ (g \in Wanting(a) <=> a = b)
  PROVE  Waits' = [Waits EXCEPT ![b] = @ \ {g}]
<1>1. ASSUME NEW a \in Addrs
      PROVE  Wanting(a)' = IF a = b THEN Wanting(a) \ {g} ELSE Wanting(a)
  <2>1. Wanting(a) \subseteq Goroutines /\ Wanting(a)' \subseteq Goroutines
    BY DEF Wanting, At
  <2> QED BY <2>1 DEF Others
<1> QED BY <1>1 DEF Waits

\* A goroutine that takes a permit for the address it wants.
LEMMA TakeRefines ==
  ASSUME SemaTypeOK, NEW g \in Goroutines, spc[g] \in AcquirePc, ~ticket[g],
         CanSemacquire(saddr[g]), sval' = [sval EXCEPT ![saddr[g]] = @ - 1],
         spc' = [spc EXCEPT ![g] = "idle"], saddr' = saddr,
         \A h \in Goroutines : h # g => (ticket'[h] <=> ticket[h])
  PROVE  Abstract!Acquired(g, saddr[g])
<1>1. saddr[g] \in Addrs
  BY DEF SemaTypeOK
<1>2. Others(g)
  BY DEF Others, Wanting, At, SemaTypeOK
<1>3. \A a \in Addrs : g \notin Wanting(a)' /\ (g \in Wanting(a) <=> a = saddr[g])
  BY DEF Wanting, At, SemaTypeOK, AcquirePc
<1>4. Waits' = [Waits EXCEPT ![saddr[g]] = @ \ {g}]
  BY <1>1, <1>2, <1>3, Leaves
<1>5. g \in Waits[saddr[g]]
  BY <1>1, <1>3 DEF Waits
<1> QED BY <1>4, <1>5 DEF Abstract!Acquired, Waits, CanSemacquire

\* A step inside a call that takes no permit and does not start or end the
\* wait of anybody.
LEMMA QuietRefines ==
  ASSUME SemaTypeOK, NEW g \in Goroutines, NEW label,
         spc' = [spc EXCEPT ![g] = label], saddr' = saddr,
         \A h \in Goroutines : h # g => (ticket'[h] <=> ticket[h]),
         (spc[g] \in AcquirePc /\ ~ticket[g]) <=> (label \in AcquirePc /\ ~ticket'[g])
  PROVE  Waits' = Waits
<1>1. Others(g)
  BY DEF Others, Wanting, At, SemaTypeOK
<1>2. \A a \in Addrs : g \in Wanting(a)' <=> g \in Wanting(a)
  BY DEF Wanting, At, SemaTypeOK
<1> QED BY <1>1, <1>2, Stays

LEMMA CallRefines ==
  ASSUME SemaTypeOK, SemaInv, NEW g \in Goroutines, NEW a \in Addrs, NEW flag,
         NEW entry \in {"easy", "xadd"}, Call(g, a, flag, entry)
  PROVE  [Abstract!SemaphoreNext]_Abstract!semaphoreVars
<1>1. /\ ~ticket[g] /\ spc[g] = "idle" /\ sval' = sval /\ ticket' = ticket
      /\ spc' = [spc EXCEPT ![g] = entry] /\ saddr' = [saddr EXCEPT ![g] = a]
  BY DEF Call, SemaInv, TicketInv
<1>2. Others(g)
  BY <1>1 DEF Others, Wanting, At, SemaTypeOK
<1>3. \A b \in Addrs : g \notin Wanting(b)
  BY <1>1 DEF Wanting, At, AcquirePc
<1>4. CASE entry = "easy"
  <2>1. \A b \in Addrs : g \in Wanting(b)' <=> b = a
    BY <1>1, <1>4 DEF Wanting, At, AcquirePc, SemaTypeOK
  <2>2. Waits' = [Waits EXCEPT ![a] = @ \cup {g}]
    BY <1>2, <1>3, <2>1, Enters
  <2>3. g \notin Waits[a]
    BY <1>3 DEF Waits
  <2> QED BY <1>1, <2>2, <2>3 DEF Abstract!SemaphoreNext, Abstract!Semacquire
<1>5. CASE entry = "xadd"
  <2>1. \A b \in Addrs : g \notin Wanting(b)'
    BY <1>1, <1>5 DEF Wanting, At, AcquirePc, SemaTypeOK
  <2>2. Waits' = Waits
    BY <1>2, <1>3, <2>1, Stays
  <2> QED BY <1>1, <2>2 DEF Abstract!semaphoreVars
<1> QED BY <1>4, <1>5

LEMMA AcquireRefines ==
  ASSUME SemaTypeOK, SemaInv, NEW g \in Goroutines, Semacquire(g)
  PROVE  [Abstract!SemaphoreNext]_Abstract!semaphoreVars
<1> DEFINE Took ==
      /\ CanSemacquire(saddr[g]) /\ ~ticket[g] /\ spc[g] \in AcquirePc /\ saddr' = saddr
      /\ sval' = [sval EXCEPT ![saddr[g]] = @ - 1] /\ spc' = [spc EXCEPT ![g] = "idle"]
      /\ \A h \in Goroutines : h # g => (ticket'[h] <=> ticket[h])
    Quiet ==
      /\ sval' = sval /\ saddr' = saddr
      /\ \E label \in {"idle"} \cup AcquirePc :
           /\ spc' = [spc EXCEPT ![g] = label]
           /\ (spc[g] \in AcquirePc /\ ~ticket[g]) <=> (label \in AcquirePc /\ ~ticket'[g])
      /\ \A h \in Goroutines : h # g => (ticket'[h] <=> ticket[h])
<1>1. spc[g] # "woken" => ~ticket[g]
  BY DEF SemaInv, TicketInv
<1>2. ASSUME SemacquireEasy(g)
      PROVE  Took \/ Quiet
  BY <1>1, <1>2 DEF SemacquireEasy, Goto, Return, AcquirePc
<1>3. ASSUME SemacquireLock(g)
      PROVE  Took \/ Quiet
  BY <1>1, <1>3 DEF SemacquireLock, Goto, AcquirePc
<1>4. ASSUME SemacquireRetry(g)
      PROVE  Took \/ Quiet
  BY <1>1, <1>4 DEF SemacquireRetry, Goto, Return, AcquirePc
<1>5. ASSUME SemacquireQueue(g)
      PROVE  Took \/ Quiet
  BY <1>1, <1>5 DEF SemacquireQueue, Goto, AcquirePc
<1>6. ASSUME SemacquireWake(g)
      PROVE  Took \/ Quiet
  <2>1. CASE ticket[g]
    BY <1>6, <2>1 DEF SemacquireWake, Return, AcquirePc, SemaTypeOK
  <2>2. CASE ~ticket[g]
    BY <1>6, <2>2 DEF SemacquireWake, Goto, Return, AcquirePc, SemaTypeOK
  <2> QED BY <2>1, <2>2
<1>7. Took \/ Quiet
  BY <1>2, <1>3, <1>4, <1>5, <1>6 DEF Semacquire
<1>8. CASE Took
  BY <1>8, TakeRefines DEF Abstract!SemaphoreNext, SemaTypeOK
<1>9. CASE Quiet
  BY <1>9, QuietRefines DEF Abstract!semaphoreVars
<1> QED BY <1>7, <1>8, <1>9

LEMMA ReleaseRefines ==
  ASSUME SemaTypeOK, SemaInv, NEW g \in Goroutines, Semrelease(g)
  PROVE  [Abstract!SemaphoreNext]_Abstract!semaphoreVars
<1>1. spc[g] \notin AcquirePc /\ saddr[g] \in Addrs
  BY DEF Semrelease, SemreleaseXadd, SemreleaseCheck, SemreleaseDequeue, SemreleaseReady,
         AcquirePc, SemaTypeOK
<1>2. CASE SemreleaseXadd(g)
  <2>1. Waits' = Waits
    BY <1>1, <1>2, QuietRefines DEF SemreleaseXadd, Goto, AcquirePc
  <2> QED BY <1>1, <1>2, <2>1
          DEF SemreleaseXadd, Abstract!SemaphoreNext, Abstract!Semrelease
<1>3. CASE SemreleaseCheck(g) \/ SemreleaseDequeue(g)
  <2>1. PICK label \in {"idle"} \cup ReleasePc : spc' = [spc EXCEPT ![g] = label]
    BY <1>3 DEF SemreleaseCheck, SemreleaseDequeue, Goto, Return, ReleasePc
  <2>2. sval' = sval /\ saddr' = saddr /\ ticket' = ticket
    BY <1>3 DEF SemreleaseCheck, SemreleaseDequeue
  <2>3. Waits' = Waits
    BY <1>1, <2>1, <2>2, QuietRefines DEF ReleasePc, AcquirePc
  <2> QED BY <2>2, <2>3 DEF Abstract!semaphoreVars
<1>4. CASE SemreleaseReady(g)
  <2> DEFINE t == target[g]
  <2>1. t \in Goroutines /\ t # g /\ spc[t] = "parked" /\ ~ticket[t] /\ saddr[t] = saddr[g]
    BY <1>4 DEF SemreleaseReady, SemaInv, ParkedOnce, TicketInv
  <2>2. spc' = [spc EXCEPT ![g] = "idle", ![t] = "woken"] /\ saddr' = saddr
    BY <1>4 DEF SemreleaseReady
  <2>3. \A h \in Goroutines : h # t => (ticket'[h] <=> ticket[h])
    BY <1>4 DEF SemreleaseReady, SemaTypeOK
  <2>4. Others(t)
    BY <1>1, <2>1, <2>2, <2>3 DEF Others, Wanting, At, AcquirePc, SemaTypeOK
  <2>5. \A a \in Addrs : t \in Wanting(a) <=> a = saddr[g]
    BY <2>1 DEF Wanting, At, AcquirePc
  <2>6. CASE sflag[g] /\ CanSemacquire(saddr[g])
    <3>1. ticket'[t] /\ sval' = [sval EXCEPT ![saddr[g]] = @ - 1]
      BY <1>4, <2>1, <2>6 DEF SemreleaseReady, SemaTypeOK
    <3>2. \A a \in Addrs : t \notin Wanting(a)'
      BY <3>1 DEF Wanting
    <3>3. Waits' = [Waits EXCEPT ![saddr[g]] = @ \ {t}]
      BY <1>1, <2>1, <2>4, <2>5, <3>2, Leaves
    <3>4. t \in Waits[saddr[g]]
      BY <1>1, <2>5 DEF Waits
    <3>5. Abstract!Acquired(t, saddr[g])
      BY <2>6, <3>1, <3>3, <3>4 DEF Abstract!Acquired, CanSemacquire
    <3> QED BY <1>1, <2>1, <3>5 DEF Abstract!SemaphoreNext
  <2>7. CASE ~(sflag[g] /\ CanSemacquire(saddr[g]))
    <3>1. ticket' = ticket /\ sval' = sval
      BY <1>4, <2>7 DEF SemreleaseReady
    <3>2. \A a \in Addrs : t \in Wanting(a)' <=> t \in Wanting(a)
      BY <2>1, <2>2, <3>1 DEF Wanting, At, AcquirePc, SemaTypeOK
    <3>3. Waits' = Waits
      BY <2>1, <2>4, <3>2, Stays
    <3> QED BY <3>1, <3>3 DEF Abstract!semaphoreVars
  <2> QED BY <2>6, <2>7
<1> QED BY <1>2, <1>3, <1>4 DEF Semrelease

\* The semaphore of the runtime implements the abstract one, for any number of
\* goroutines, addresses and roots: its counts are the permits, and each of its
\* steps asks for a permit, takes one that is there for a goroutine that asked,
\* adds one, or does not show.
THEOREM SemaImplementsSemaphore == Spec => ImplementsSemaphore
<1>1. Init => Abstract!SemaphoreInit
  BY DEF Init, SemaInit, Abstract!SemaphoreInit, Waits, Wanting, At, AcquirePc
<1>2. SemaTypeOK /\ SemaInv /\ [Next]_vars
        => [Abstract!SemaphoreNext]_Abstract!semaphoreVars
  <2> SUFFICES ASSUME SemaTypeOK, SemaInv, [Next]_vars
               PROVE  [Abstract!SemaphoreNext]_Abstract!semaphoreVars
    OBVIOUS
  <2>1. ASSUME NEW g \in Goroutines, Acquire(g) \/ Release(g)
        PROVE  [Abstract!SemaphoreNext]_Abstract!semaphoreVars
    BY <2>1, CallRefines DEF Acquire, Release, CallSemacquire, CallSemrelease
  <2>2. ASSUME NEW g \in Goroutines, Run(g)
        PROVE  [Abstract!SemaphoreNext]_Abstract!semaphoreVars
    BY <2>2, AcquireRefines, ReleaseRefines DEF Run, SemaStep
  <2>3. CASE UNCHANGED vars
    BY <2>3 DEF vars, semaVars, Waits, Wanting, At, Abstract!semaphoreVars
  <2> QED BY <2>1, <2>2, <2>3 DEF Next
<1> QED BY <1>1, <1>2, SpecInv, PTL DEF Spec, ImplementsSemaphore, Abstract!Semaphore

-----------------------------------------------------------------------------
(* No wakeup is missed.                                                    *)

\* The count of a set of which one member may come or go.
LEMMA OneComesOrGoes ==
  ASSUME NEW S, NEW T, NEW x, IsFiniteSet(S), \A y : y # x => (y \in T <=> y \in S)
  PROVE  /\ IsFiniteSet(T) /\ Cardinality(S) \in Nat /\ Cardinality(T) \in Nat
         /\ x \in S /\ x \notin T => Cardinality(T) = Cardinality(S) - 1
         /\ x \notin S /\ x \in T => Cardinality(T) = Cardinality(S) + 1
         /\ (x \in S <=> x \in T) => T = S
<1>1. CASE x \in S /\ x \notin T
  <2>1. T = S \ {x}
    BY <1>1
  <2> QED BY <1>1, <2>1, FS_RemoveElement, FS_CardinalityType
<1>2. CASE x \notin S /\ x \in T
  <2>1. T = S \cup {x}
    BY <1>2
  <2> QED BY <1>2, <2>1, FS_AddElement, FS_CardinalityType
<1>3. CASE x \in S <=> x \in T
  <2>1. T = S
    BY <1>3
  <2> QED BY <1>3, <2>1, FS_CardinalityType
<1> QED BY <1>1, <1>2, <1>3

HelperPc == {"check", "dequeue", "ready", "woken"}

\* What a step of g, or of h whom g readies, does to the helpers of a.
LEMMA HelpersMove ==
  ASSUME SemaTypeOK, SemaTypeOK', NEW a \in Addrs, NEW g \in Goroutines,
         \A h \in Goroutines : h # g => spc'[h] = spc[h] /\ saddr'[h] = saddr[h] /\ ticket'[h] = ticket[h]
  PROVE  /\ Cardinality(Helpers(a)) \in Nat /\ Cardinality(Helpers(a)') \in Nat
         /\ g \in Helpers(a) <=> spc[g] \in HelperPc /\ saddr[g] = a /\ ~ticket[g]
         /\ g \in Helpers(a)' <=> spc'[g] \in HelperPc /\ saddr'[g] = a /\ ~ticket'[g]
         /\ g \in Helpers(a) /\ g \notin Helpers(a)'
              => Cardinality(Helpers(a)') = Cardinality(Helpers(a)) - 1
         /\ g \notin Helpers(a) /\ g \in Helpers(a)'
              => Cardinality(Helpers(a)') = Cardinality(Helpers(a)) + 1
         /\ (g \in Helpers(a) <=> g \in Helpers(a)') => Helpers(a)' = Helpers(a)
<1>1. Helpers(a) \subseteq Goroutines /\ Helpers(a)' \subseteq Goroutines
  BY DEF Helpers, At
<1>2. IsFiniteSet(Helpers(a))
  BY <1>1, SemaAssumption, FS_Subset
<1>3. \A h : h # g => (h \in Helpers(a)' <=> h \in Helpers(a))
  BY DEF Helpers, At
<1>4. /\ g \in Helpers(a) <=> spc[g] \in HelperPc /\ saddr[g] = a /\ ~ticket[g]
      /\ g \in Helpers(a)' <=> spc'[g] \in HelperPc /\ saddr'[g] = a /\ ~ticket'[g]
  BY DEF Helpers, At, HelperPc
<1> QED BY <1>2, <1>3, <1>4, OneComesOrGoes

\* Where nwait is zero nobody sleeps, and nobody is about to.
LEMMA NobodySleeps ==
  ASSUME SemaTypeOK, SemaInv, NEW a \in Addrs, nwait[RootOf[a]] = 0
  PROVE  ~Sleepy(a)
<1>1. RootOf[a] \in Roots
  BY DEF Roots
<1>2. Waiting(RootOf[a]) = {}
  BY <1>1, QueuesOfGoroutines, FS_EmptySet DEF SemaInv, NwaitExact
<1>3. At({"queue"}, a) = {}
  BY <1>2 DEF At, Waiting, root
<1>4. Range(waitq[a]) = {}
  <2>1. \A g \in Range(waitq[a]) : g \in Goroutines /\ saddr[g] = a /\ spc[g] = "parked"
    BY QueuesOfGoroutines DEF SemaInv, ParkedOnce
  <2>2. \A g \in Range(waitq[a]) : g \in Waiting(RootOf[a])
    BY <2>1 DEF Waiting, root
  <2> QED BY <1>2, <2>2
<1>5. ASSUME waitq[a] # <<>>
      PROVE  FALSE
  BY <1>4, <1>5, DequeueFact DEF SemaTypeOK, SemaInv, ParkedOnce
<1> QED BY <1>3, <1>5 DEF Sleepy

LEMMA RootHeldStep ==
  ASSUME SemaTypeOK, SemaInv, RootHeld, NEW g \in Goroutines, SemaStep(g)
  PROVE  RootHeld'
<1>1. g # Nobody /\ saddr[g] \in Addrs /\ root(g) \in Roots
        /\ (\A h \in Goroutines : h # Nobody /\ root(h) \in Roots)
  BY SemaAssumption, QueuesOfGoroutines
<1>2. CASE SemacquireLock(g)
  BY <1>1, <1>2 DEF SemacquireLock, Goto, RootHeld, SemaTypeOK, root
<1>3. CASE SemacquireRetry(g)
  <2>1. /\ spc' = [spc EXCEPT ![g] = IF CanSemacquire(saddr[g]) THEN "idle" ELSE "queue"]
        /\ rootLock' = IF CanSemacquire(saddr[g]) THEN [rootLock EXCEPT ![root(g)] = Nobody] ELSE rootLock
        /\ saddr' = saddr /\ spc[g] = "retry"
    BY <1>3 DEF SemacquireRetry, Goto, Return
  <2>2. CASE CanSemacquire(saddr[g])
    BY <1>1, <2>1, <2>2 DEF RootHeld, SemaTypeOK, root
  <2>3. CASE ~CanSemacquire(saddr[g])
    BY <1>1, <2>1, <2>3 DEF RootHeld, SemaTypeOK, root
  <2> QED BY <2>2, <2>3
<1>4. CASE SemacquireQueue(g)
  BY <1>1, <1>4 DEF SemacquireQueue, Goto, RootHeld, SemaTypeOK, root
<1>5. CASE SemacquireEasy(g) \/ SemacquireWake(g)
  BY <1>1, <1>5 DEF SemacquireEasy, SemacquireWake, Goto, Return, RootHeld, SemaTypeOK, root
<1>6. CASE SemreleaseXadd(g) \/ SemreleaseCheck(g) \/ SemreleaseDequeue(g)
  BY <1>1, <1>6 DEF SemreleaseXadd, SemreleaseCheck, SemreleaseDequeue, Goto, Return, RootHeld,
                    SemaTypeOK, root
<1>7. CASE SemreleaseReady(g)
  BY <1>1, <1>7 DEF SemreleaseReady, RootHeld, SemaTypeOK, root, SemaInv, ParkedOnce
<1> QED BY <1>2, <1>3, <1>4, <1>5, <1>6, <1>7 DEF SemaStep, Semacquire, Semrelease

\* A call wakes nobody and helps nobody yet.
LEMMA CallMissesNone ==
  ASSUME SemaTypeOK, SemaTypeOK', SemaInv, RootHeld, NoMissedWakeup,
         NEW g \in Goroutines, NEW b \in Addrs, NEW flag \in BOOLEAN,
         NEW entry \in {"easy", "xadd"}, Call(g, b, flag, entry)
  PROVE  RootHeld' /\ NoMissedWakeup'
<1>1. /\ spc[g] = "idle" /\ spc'[g] = entry
      /\ \A h \in Goroutines : h # g => spc'[h] = spc[h] /\ saddr'[h] = saddr[h] /\ ticket'[h] = ticket[h]
      /\ UNCHANGED <<sval, waitq, rootLock>>
  BY DEF Call, SemaTypeOK
<1>2. RootHeld'
  BY <1>1 DEF RootHeld, root
<1>3. ASSUME NEW a \in Addrs, Sleepy(a)'
      PROVE  sval'[a] <= Cardinality(Helpers(a)')
  <2>1. Sleepy(a)
    BY <1>1, <1>3 DEF Sleepy, At
  <2>2. Helpers(a)' = Helpers(a)
    BY <1>1, HelpersMove DEF HelperPc
  <2> QED BY <1>1, <2>1, <2>2 DEF NoMissedWakeup
<1> QED BY <1>2, <1>3 DEF NoMissedWakeup

\* The permits that an acquirer takes, and the last look before it sleeps.
LEMMA AcquireMissesNone ==
  ASSUME SemaTypeOK, SemaTypeOK', SemaInv, RootHeld, NoMissedWakeup,
         NEW g \in Goroutines, Semacquire(g)
  PROVE  NoMissedWakeup'
<1> SUFFICES ASSUME NEW a \in Addrs, Sleepy(a)'
             PROVE  sval'[a] <= Cardinality(Helpers(a)')
  BY DEF NoMissedWakeup
<1> DEFINE n == Cardinality(Helpers(a))
           m == Cardinality(Helpers(a)')
<1>1. saddr[g] \in Addrs /\ sval[a] \in Nat /\ sval'[a] \in Nat
  BY DEF SemaTypeOK
<1>2. /\ \A h \in Goroutines : h # g => spc'[h] = spc[h] /\ saddr'[h] = saddr[h] /\ ticket'[h] = ticket[h]
      /\ saddr'[g] = saddr[g]
  BY DEF Semacquire, SemacquireEasy, SemacquireLock, SemacquireRetry, SemacquireQueue,
         SemacquireWake, Goto, Return, SemaTypeOK
<1>3. n \in Nat /\ m \in Nat
  BY <1>2, HelpersMove
<1>4. Sleepy(a) => sval[a] <= n
  BY DEF NoMissedWakeup
<1>5. CASE SemacquireEasy(g) \/ SemacquireLock(g)
  <2>1. spc[g] \notin HelperPc /\ spc'[g] \notin HelperPc /\ spc'[g] # "queue" /\ waitq' = waitq
    BY <1>5 DEF SemacquireEasy, SemacquireLock, Goto, Return, HelperPc, SemaTypeOK
  <2>2. Sleepy(a)
    BY <1>2, <2>1 DEF Sleepy, At
  <2>3. m = n
    BY <1>2, <2>1, HelpersMove
  <2>4. sval'[a] <= sval[a]
    BY <1>1, <1>5 DEF SemacquireEasy, SemacquireLock, SemaTypeOK
  <2> QED BY <1>1, <1>3, <1>4, <2>2, <2>3, <2>4
<1>6. CASE SemacquireRetry(g)
  <2>1. spc[g] = "retry" /\ spc'[g] \in {"idle", "queue"} /\ waitq' = waitq
    BY <1>6 DEF SemacquireRetry, Goto, Return, SemaTypeOK
  <2>2. m = n
    BY <1>2, <2>1, HelpersMove DEF HelperPc
  <2>3. sval'[a] <= sval[a]
    <3>1. CASE CanSemacquire(saddr[g])
      <4>1. sval' = [sval EXCEPT ![saddr[g]] = @ - 1]
        BY <1>6, <3>1 DEF SemacquireRetry
      <4>2. sval'[a] = IF a = saddr[g] THEN sval[a] - 1 ELSE sval[a]
        BY <1>1, <4>1 DEF SemaTypeOK
      <4> QED BY <1>1, <4>2
    <3>2. CASE ~CanSemacquire(saddr[g])
      BY <1>1, <1>6, <3>2 DEF SemacquireRetry
    <3> QED BY <3>1, <3>2
  <2>4. CASE spc'[g] = "queue" /\ saddr[g] = a
    <3>1. sval'[a] = 0
      BY <1>1, <1>6, <2>4 DEF SemacquireRetry, CanSemacquire, Return, SemaTypeOK
    <3> QED BY <1>3, <3>1
  <2>5. CASE ~(spc'[g] = "queue" /\ saddr[g] = a)
    <3>1. Sleepy(a)
      BY <1>2, <2>1, <2>5 DEF Sleepy, At
    <3> QED BY <1>1, <1>3, <1>4, <2>2, <2>3, <3>1
  <2> QED BY <2>4, <2>5
<1>7. CASE SemacquireQueue(g)
  <2>1. /\ spc[g] = "queue" /\ spc'[g] = "parked" /\ sval' = sval
        /\ a # saddr[g] => waitq'[a] = waitq[a]
    BY <1>7 DEF SemacquireQueue, Goto, SemaTypeOK
  <2>2. m = n
    BY <1>2, <2>1, HelpersMove DEF HelperPc
  <2>3. Sleepy(a)
    BY <1>2, <2>1 DEF Sleepy, At
  <2> QED BY <1>4, <2>1, <2>2, <2>3
<1>8. CASE SemacquireWake(g)
  <2>1. spc[g] = "woken" /\ spc'[g] \in {"idle", "lock"} /\ waitq' = waitq
    BY <1>8 DEF SemacquireWake, Goto, Return, SemaTypeOK
  <2>2. Sleepy(a)
    BY <1>2, <2>1 DEF Sleepy, At
  <2>3. CASE ticket[g] \/ saddr[g] # a
    <3>1. m = n
      BY <1>2, <2>1, <2>3, HelpersMove DEF HelperPc
    <3>2. sval'[a] = sval[a]
      BY <1>1, <1>8, <2>3 DEF SemacquireWake, SemaTypeOK
    <3> QED BY <1>4, <2>2, <3>1, <3>2
  <2>4. CASE ~ticket[g] /\ saddr[g] = a
    <3>1. m = n - 1
      BY <1>2, <2>1, <2>4, HelpersMove DEF HelperPc
    <3>2. sval'[a] = IF sval[a] > 0 THEN sval[a] - 1 ELSE 0
      BY <1>1, <1>8, <2>4 DEF SemacquireWake, CanSemacquire, SemaTypeOK
    <3> QED BY <1>1, <1>3, <1>4, <2>2, <3>1, <3>2
  <2> QED BY <2>3, <2>4
<1> QED BY <1>5, <1>6, <1>7, <1>8 DEF Semacquire

\* A releaser adds its permit before it looks for sleepers, and goes away only when
\* there are none.
LEMMA ReleaseMissesNone ==
  ASSUME SemaTypeOK, SemaTypeOK', SemaInv, RootHeld, NoMissedWakeup,
         NEW g \in Goroutines, Semrelease(g)
  PROVE  NoMissedWakeup'
<1> SUFFICES ASSUME NEW a \in Addrs, Sleepy(a)'
             PROVE  sval'[a] <= Cardinality(Helpers(a)')
  BY DEF NoMissedWakeup
<1> DEFINE n == Cardinality(Helpers(a))
           m == Cardinality(Helpers(a)')
<1>1. /\ saddr[g] \in Addrs /\ sval[a] \in Nat /\ sval'[a] \in Nat
      /\ spc[g] \in ReleasePc /\ saddr' = saddr
  BY DEF SemaTypeOK, Semrelease, SemreleaseXadd, SemreleaseCheck, SemreleaseDequeue,
         SemreleaseReady, ReleasePc
<1>2. ~ticket[g]
  BY <1>1 DEF SemaInv, TicketInv, ReleasePc
<1>3. Sleepy(a) => sval[a] <= n
  BY DEF NoMissedWakeup
<1>4. CASE SemreleaseXadd(g)
  <2>1. /\ \A h \in Goroutines : h # g => spc'[h] = spc[h] /\ saddr'[h] = saddr[h] /\ ticket'[h] = ticket[h]
        /\ spc[g] = "xadd" /\ spc'[g] = "check" /\ ticket' = ticket /\ waitq' = waitq
    BY <1>4 DEF SemreleaseXadd, Goto, SemaTypeOK
  <2>2. Sleepy(a)
    BY <1>1, <2>1 DEF Sleepy, At
  <2>3. n \in Nat /\ m \in Nat /\ m = IF a = saddr[g] THEN n + 1 ELSE n
    BY <1>1, <1>2, <2>1, HelpersMove DEF HelperPc
  <2>4. sval'[a] = IF a = saddr[g] THEN sval[a] + 1 ELSE sval[a]
    BY <1>1, <1>4 DEF SemreleaseXadd, SemaTypeOK
  <2> QED BY <1>1, <1>3, <2>2, <2>3, <2>4
<1>5. CASE SemreleaseCheck(g) \/ SemreleaseDequeue(g)
  <2>1. /\ \A h \in Goroutines : h # g => spc'[h] = spc[h] /\ saddr'[h] = saddr[h] /\ ticket'[h] = ticket[h]
        /\ spc[g] \in {"check", "dequeue"} /\ spc'[g] \in {"idle", "dequeue", "ready"}
        /\ sval' = sval /\ ticket' = ticket /\ rootLock' = rootLock
        /\ waitq'[a] # <<>> => waitq[a] # <<>>
    BY <1>1, <1>5 DEF SemreleaseCheck, SemreleaseDequeue, Goto, Return, SemaTypeOK
  <2>2. Sleepy(a)
    BY <1>1, <2>1 DEF Sleepy, At
  <2>3. ASSUME spc'[g] = "idle", a = saddr[g]
        PROVE  FALSE
    <3>1. nwait[RootOf[a]] # 0
      BY <2>2, NobodySleeps
    <3>2. waitq[a] = <<>> /\ rootLock[root(g)] = Nobody
      BY <1>1, <1>5, <2>3, <3>1
         DEF SemreleaseCheck, SemreleaseDequeue, Goto, Return, SemaTypeOK, root
    <3>3. PICK h \in Goroutines : spc[h] = "queue" /\ saddr[h] = a
      BY <2>2, <3>2 DEF Sleepy, At
    <3>4. rootLock[root(h)] = h /\ root(h) = root(g)
      BY <2>3, <3>3 DEF RootHeld, root
    <3> QED BY <3>2, <3>4, SemaAssumption
  <2>4. m = n
    BY <1>1, <1>2, <2>1, <2>3, HelpersMove DEF HelperPc
  <2> QED BY <1>3, <2>1, <2>2, <2>4
<1>6. CASE SemreleaseReady(g)
  <2> DEFINE t == target[g]
             H == Helpers(a)
             K == Helpers(a) \ {g}
  <2>1. /\ t \in Goroutines /\ t # g /\ spc[t] = "parked" /\ saddr[t] = saddr[g] /\ ~ticket[t]
        /\ spc[g] = "ready"
    BY <1>6 DEF SemreleaseReady, SemaInv, ParkedOnce, TicketInv
  <2>2. /\ \A h \in Goroutines : h # t => ticket'[h] = ticket[h]
        /\ \A h \in Goroutines : h # g /\ h # t => spc'[h] = spc[h]
        /\ spc'[g] = "idle" /\ spc'[t] = "woken" /\ waitq' = waitq
    BY <1>6, <2>1 DEF SemreleaseReady, SemaTypeOK
  <2>3. /\ ticket'[t] => sval' = [sval EXCEPT ![saddr[g]] = @ - 1]
        /\ ~ticket'[t] => sval' = sval
    BY <1>6, <2>1 DEF SemreleaseReady, SemaTypeOK
  <2>4. Sleepy(a)
    BY <1>1, <2>1, <2>2 DEF Sleepy, At
  <2>5. IsFiniteSet(H) /\ g \notin K /\ g \notin Helpers(a)'
    <3>1. H \subseteq Goroutines
      BY DEF Helpers, At
    <3> QED BY <2>2, <3>1, SemaAssumption, FS_Subset DEF Helpers, At
  <2>6. IsFiniteSet(K) /\ n \in Nat /\ Cardinality(K) = IF a = saddr[g] THEN n - 1 ELSE n
    <3>1. g \in H <=> a = saddr[g]
      BY <1>2, <2>1 DEF Helpers, At
    <3> QED BY <2>5, <3>1, FS_RemoveElement, FS_CardinalityType
  <2>7. \A h : h # t => (h \in Helpers(a)' <=> h \in K)
    BY <1>1, <2>2 DEF Helpers, At
  <2>8. t \notin K /\ (t \in Helpers(a)' <=> a = saddr[g] /\ ~ticket'[t])
    BY <1>1, <2>1, <2>2 DEF Helpers, At
  <2>9. /\ m \in Nat /\ Cardinality(K) \in Nat
        /\ m = IF a = saddr[g] /\ ~ticket'[t] THEN Cardinality(K) + 1 ELSE Cardinality(K)
    BY <2>6, <2>7, <2>8, OneComesOrGoes
  <2>10. sval'[a] = IF a = saddr[g] /\ ticket'[t] THEN sval[a] - 1 ELSE sval[a]
    BY <1>1, <2>3 DEF SemaTypeOK
  <2> QED BY <1>1, <1>3, <2>4, <2>6, <2>9, <2>10
<1> QED BY <1>4, <1>5, <1>6 DEF Semrelease

\* While a goroutine sleeps on an address, or is about to, every permit in its word
\* has a goroutine under way that will wake a sleeper or take a permit: neither
\* the look at nwait without the root lock nor a handoff leaves a permit
\* with sleepers and nobody to bring them together.
THEOREM SemaNoMissedWakeup == Spec => []NoMissedWakeup
<1> DEFINE I == SemaTypeOK /\ SemaInv
           J == RootHeld /\ NoMissedWakeup
<1>1. Init => J
  BY SemaInitInv DEF Init, SemaInit, RootHeld, NoMissedWakeup, Sleepy, At
<1>2. I /\ I' /\ J /\ [Next]_vars => J'
  <2> SUFFICES ASSUME I, I', J, [Next]_vars
               PROVE  J'
    OBVIOUS
  <2>1. ASSUME NEW g \in Goroutines, Acquire(g) \/ Release(g)
        PROVE  J'
    BY <2>1, CallMissesNone DEF Acquire, Release, CallSemacquire, CallSemrelease
  <2>2. ASSUME NEW g \in Goroutines, Run(g)
        PROVE  J'
    BY <2>2, RootHeldStep, AcquireMissesNone, ReleaseMissesNone DEF Run, SemaStep
  <2>3. CASE UNCHANGED vars
    BY <2>3 DEF vars, semaVars, RootHeld, root, NoMissedWakeup, Sleepy, At, Helpers
  <2> QED BY <2>1, <2>2, <2>3 DEF Next
<1>3. J => NoMissedWakeup
  OBVIOUS
<1> QED BY <1>1, <1>2, <1>3, SpecInv, PTL DEF Spec
=============================================================================
