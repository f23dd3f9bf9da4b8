---------------------------- MODULE SemaClients ----------------------------
(***************************************************************************)
(* Goroutines that acquire and release the semaphores of runtime/sema.go   *)
(* in any order, and what the pair semacquire1/semrelease1 promises them.  *)
(***************************************************************************)
EXTENDS Sema

CONSTANT MaxReleases  \* MaxReleases[a]: bound on the releases of a

ASSUME ClientsAssumption == MaxReleases \in [Addrs -> Nat]

VARIABLE
  released    \* the releases of each address that were called

vars == <<semaVars, released>>

Init ==
  /\ SemaInit
  /\ released = [a \in Addrs |-> 0]

TypeOK ==
  /\ SemaTypeOK
  /\ released \in [Addrs -> Nat]

Acquire(g) ==
  /\ \E a \in Addrs, lifo \in BOOLEAN : CallSemacquire(g, a, lifo)
  /\ UNCHANGED released

Release(g) ==
  /\ \E a \in Addrs, handoff \in BOOLEAN :
       /\ released[a] < MaxReleases[a]
       /\ CallSemrelease(g, a, handoff)
       /\ released' = [released EXCEPT ![a] = @ + 1]

Run(g) ==
  /\ SemaStep(g)
  /\ UNCHANGED released

Next == \E g \in Goroutines : Acquire(g) \/ Release(g) \/ Run(g)

\* The scheduler runs every runnable goroutine.  Nothing is assumed of the order in
\* which the root lock is granted.
Fairness == \A g \in Goroutines : WF_vars(Run(g))

Spec == Init /\ [][Next]_vars /\ Fairness

-----------------------------------------------------------------------------
(* Properties                                                              *)

At(labels, a) == {g \in Goroutines : spc[g] \in labels /\ saddr[g] = a}

\* The goroutines under way that will wake a sleeper of a or take a permit of a; one
\* that was woken with a permit takes no other.
Helpers(a) == {g \in At({"check", "dequeue", "ready", "woken"}, a) : ~ticket[g]}

\* Somebody sleeps on a, or holds the root lock and is about to.
Sleepy(a) == waitq[a] # <<>> \/ At({"queue"}, a) # {}

\* No missed wakeup (sema.go:134-142 and 163-166): while a goroutine sleeps on
\* an address, each permit in its word has a goroutine under way that will
\* either wake a sleeper or take a permit itself.
NoMissedWakeup ==
  \A a \in Addrs : Sleepy(a) => sval[a] <= Cardinality(Helpers(a))

\* Who is counted in nwait and not asleep yet holds the root lock, so that a
\* releaser that holds it sees everybody who has failed to get a permit.
RootHeld ==
  \A g \in Goroutines : spc[g] \in {"retry", "queue"} => rootLock[root(g)] = g

\* The goroutines that want a permit of a and have none.
Wanting(a) == {g \in At(AcquirePc, a) : ~ticket[g]}

Waits == [a \in Addrs |-> Wanting(a)]

Abstract == INSTANCE SemaSpec WITH permits <- sval, waiting <- Waits

\* The two cansemacquire calls, the retry after a wakeup and the handoff take
\* permits as the abstract semaphore does: one for each acquire that returns, at
\* a moment when there is one, never twice and never for nobody.
ImplementsSemaphore == Abstract!Semaphore

\* A permit does not stay in the word for ever while goroutines sleep on it or
\* are on their way to sleep.
PermitReachesSleeper == Abstract!PermitsTaken
=============================================================================
