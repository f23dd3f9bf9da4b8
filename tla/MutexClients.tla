---------------------------- MODULE MutexClients ----------------------------
(***************************************************************************)
(* Goroutines that lock and unlock one sync.Mutex for ever, and what the   *)
(* mutex promises them.  As mutex.go:172-174 allows, the goroutine that    *)
(* unlocks need not be the one that locked.                                *)
(***************************************************************************)
EXTENDS Mutex

VARIABLE
  wants   \* wants[g]: g has called Lock, and nobody has unlocked on its behalf

vars == <<semaVars, mutexVars, wants>>

Init == SemaInit /\ MutexInit /\ wants = [g \in Goroutines |-> FALSE]

\* The Lock of g has returned and the mutex has not been unlocked since.
Holds(g) == wants[g] /\ mpc[g] = "idle"

Lock(g) ==
  /\ ~wants[g]
  /\ CallLock(g)
  /\ wants' = [wants EXCEPT ![g] = TRUE]
  /\ UNCHANGED semaVars

\* g unlocks what h has locked; a goroutine that is itself inside Lock cannot.
Unlock(g, h) ==
  /\ Holds(h)
  /\ CallUnlock(g)
  /\ wants' = [wants EXCEPT ![h] = FALSE]
  /\ UNCHANGED semaVars

Run(g) ==
  \/ MutexStep(g) /\ UNCHANGED wants
  \/ SemaStep(g) /\ UNCHANGED <<mutexVars, wants>>

Next ==
  \E g \in Goroutines :
    \/ Lock(g)
    \/ \E h \in Goroutines : Unlock(g, h)
    \/ Run(g)

\* The scheduler runs every runnable goroutine, and a holder of the mutex
\* eventually unlocks it.
Fairness ==
  \A g \in Goroutines : WF_vars(Run(g)) /\ WF_vars(Unlock(g, g))

Spec == Init /\ [][Next]_vars /\ Fairness

-----------------------------------------------------------------------------
(* Properties                                                              *)

TypeOK ==
  /\ SemaTypeOK
  /\ MutexTypeOK
  /\ wants \in [Goroutines -> BOOLEAN]

\* At most one goroutine holds the mutex, and while one does the lock bit is
\* set: through barging, spinning, wakeups and handoffs.
MutualExclusion ==
  /\ \A g, h \in Goroutines : Holds(g) /\ Holds(h) => g = h
  /\ (\E g \in Goroutines : Holds(g)) => m.locked

\* Who has the permit with which a waiter is woken: the releaser that is about to add
\* it to the semaphore, and the waiter that has come back with it or holds a ticket.
Paying(g) ==
  \/ mpc[g] = "release" /\ spc[g] = "xadd"
  \/ mpc[g] = "acquire" /\ (spc[g] = "idle" \/ ticket[g])

\* The goroutines that are awake on behalf of the waiters: these, and the one that
\* owns the woken flag or takes what was handed to it.
Awake(g) ==
  \/ Paying(g)
  \/ mpc[g] \in {"loop", "reload"} /\ awoke[g]
  \/ mpc[g] = "fix"

Tokens == sval[MutexSema] + Cardinality({g \in Goroutines : Awake(g)})

Paid == sval[MutexSema] + Cardinality({g \in Goroutines : Paying(g)})

\* In normal mode at most one waiter is awake, exactly when mutexWoken is set;
\* in starvation mode the single token is the ownership itself.
WakeAccounting ==
  Tokens = IF m.starving THEN (IF m.locked THEN 0 ELSE 1)
                         ELSE (IF m.woken THEN 1 ELSE 0)

\* The goroutines that sleep or are about to, and the one that takes over the mutex.
Inside == {g \in Goroutines : mpc[g] \in {"acquire", "fix"}}

\* The waiter count of the state word is the number of these goroutines, less the one
\* whose wakeup has already been paid for.
WaitersExact ==
  m.waiters = Cardinality(Inside) - (IF m.starving THEN 0 ELSE Paid)

\* The state word tells the truth about waiters and wakeups, in both modes, although
\* it is swapped in from copies that may be old; so that neither "inconsistent mutex
\* state" nor "unlock of unlocked mutex" is thrown in a program that unlocks only
\* what is locked.
WordAccounts ==
  WakeAccounting /\ WaitersExact /\ \A g \in Goroutines : mpc[g] # "throw"

\* The atomic addition that takes a handed-off mutex adds to fields, with no
\* carry between them, although it was computed from an earlier load.
HandoffAdds ==
  \A g \in Goroutines :
    mpc[g] = "fix" => m.starving /\ ~m.locked /\ ~m.woken /\ m.waiters > 0

\* In starvation mode the mutex is taken only by a goroutine that the semaphore
\* woke for it: a new arrival never sets the lock bit.
StarvingExcludesArrivals ==
  [][m.starving /\ ~m.locked /\ m'.locked =>
       \E g \in Goroutines : mpc[g] = "fix" /\ mpc'[g] = "idle"]_vars

\* The mutex does not lose wakeups for good: while some goroutine is inside Lock,
\* one of them eventually holds the mutex.  (A given one may starve: it can lose
\* every swap to goroutines that keep arriving.)
SomeoneProceeds ==
  (\E g \in Goroutines : wants[g]) ~> (\E g \in Goroutines : Holds(g))

\* What mutex.go:53-57 says of starvation mode: ownership goes directly to the
\* waiter at the front of the queue, and new arrivals queue at the tail.  A new
\* arrival therefore never comes out of the first cansemacquire of its sleep
\* with the handed-off mutex while others are queued.
HandoffToFront ==
  [][\A g \in Goroutines :
       (m.starving /\ spc[g] = "easy" /\ spc'[g] = "idle")
         => waitq[MutexSema] = <<>>]_vars

\* The abstract lock behind the mutex: a goroutine waits while it is inside Lock.
LockWaiters == {g \in Goroutines : wants[g] /\ mpc[g] # "idle"}

LockHeld == \E g \in Goroutines : Holds(g)

Abstract == INSTANCE LockSpec WITH waiting <- LockWaiters, held <- LockHeld

\* The mutex implements an exclusive lock: Lock returns at a moment when nobody
\* holds it, to one goroutine, and the call of Unlock ends that possession.
ImplementsLock == Abstract!Exclusive

-----------------------------------------------------------------------------
(* The inductive invariants behind MutualExclusion and WordAccounts.       *)

\* The calls of the semaphore are those of Lock and Unlock, on the word of the
\* mutex.
CallInv ==
  \A g \in Goroutines :
    /\ spc[g] \in AcquirePc => mpc[g] = "acquire"
    /\ spc[g] \in ReleasePc => mpc[g] = "release"
    /\ spc[g] # "idle" => saddr[g] = MutexSema
    /\ mpc[g] \in LockPc => wants[g]
    /\ mpc[g] \in UnlockPc => ~wants[g]

\* One goroutine owns the lock bit: the holder, or who is about to drop it for
\* the holder.
Owns(g) == Holds(g) \/ mpc[g] = "unlock"

OwnerInv ==
  /\ \A g, h \in Goroutines : Owns(g) /\ Owns(h) => g = h
  /\ m.locked <=> \E g \in Goroutines : Owns(g)

\* One token stands for the waiter that is awake, and only while the mutex is
\* in a mode that allows it.
TokenInv ==
  /\ sval[MutexSema] \in {0, 1}
  /\ \A g, h \in Goroutines : Awake(g) /\ Awake(h) => g = h
  /\ sval[MutexSema] = 1 => \A g \in Goroutines : ~Awake(g)
  /\ (sval[MutexSema] = 1 \/ \E g \in Goroutines : Awake(g))
       => IF m.starving THEN ~m.locked ELSE m.woken

\* Starvation mode and the woken flag exclude each other, and what a goroutine has
\* learnt of them still holds when it acts on it.
ModeInv ==
  /\ m.starving => ~m.woken
  /\ \A g \in Goroutines :
       /\ mpc[g] = "fix" => m.starving /\ m.waiters > 0
       /\ mpc[g] \in {"idle", "lock", "load"} => ~awoke[g] /\ ~starving[g]
       /\ (mpc[g] \in {"loop", "reload"} /\ awoke[g]) => ~m.starving
       /\ (mpc[g] = "loop" /\ awoke[g]) => old[g].woken
       /\ (mpc[g] \in {"loop", "reload"} /\ starving[g]) => awoke[g]

IInv == TypeOK /\ SemaInv /\ CallInv /\ OwnerInv /\ TokenInv /\ ModeInv

HasToken == sval[MutexSema] = 1 \/ \E g \in Goroutines : Awake(g)

HasPaid == sval[MutexSema] = 1 \/ \E g \in Goroutines : Paying(g)

\* WordAccounts, for the one token there can be: a mode that needs a token has it, the
\* waiters are counted, and nothing is thrown.
AccountInv ==
  /\ (IF m.starving THEN ~m.locked ELSE m.woken) => HasToken
  /\ m.waiters + (IF ~m.starving /\ HasPaid THEN 1 ELSE 0) = Cardinality(Inside)
  /\ \A g \in Goroutines : mpc[g] # "throw"
=============================================================================
