------------------------------- MODULE Mutex -------------------------------
(***************************************************************************)
(* sync.Mutex (sync/mutex.go) over the runtime semaphore of module Sema.   *)
(*                                                                         *)
(* The state word is the record of its bit fields; every access to it is   *)
(* one atomic step and a local copy is what the code computes with.  The   *)
(* two choices the code takes from its environment, whether to spin        *)
(* (runtime_canSpin) and whether a waiter has waited for more than         *)
(* starvationThresholdNs, are nondeterministic.                            *)
(***************************************************************************)
EXTENDS Sema

CONSTANTS
  MutexSema,   \* &m.sema
  ActiveSpin   \* active_spin: runtime_canSpin(i) is false from this i on

ASSUME MutexAssumption ==
  /\ MutexSema \in Addrs
  /\ ActiveSpin \in Nat

VARIABLES
  m,          \* m.state
  mpc,        \* where each goroutine is in Lock or Unlock, "idle" outside
  old,        \* the local copy of m.state
  starving,   \* local: this Lock has waited longer than the threshold
  awoke,      \* local: this Lock owns the mutexWoken flag
  waited,     \* local: waitStartTime # 0
  iter        \* local: spins since the last wakeup

lockLocals == <<starving, awoke, waited, iter>>
mutexVars == <<m, mpc, old, lockLocals>>

State == [locked : BOOLEAN, woken : BOOLEAN, starving : BOOLEAN, waiters : Nat]

Unlocked ==
  [locked |-> FALSE, woken |-> FALSE, starving |-> FALSE, waiters |-> 0]

LockPc == {"lock", "load", "loop", "reload", "acquire", "fix"}
UnlockPc == {"unlock", "slow", "reslow", "release"}

MutexTypeOK ==
  /\ m \in State
  /\ mpc \in [Goroutines -> {"idle", "throw"} \cup LockPc \cup UnlockPc]
  /\ old \in [Goroutines -> State]
  /\ starving \in [Goroutines -> BOOLEAN]
  /\ awoke \in [Goroutines -> BOOLEAN]
  /\ waited \in [Goroutines -> BOOLEAN]
  /\ iter \in [Goroutines -> 0 .. ActiveSpin]

MutexInit ==
  /\ m = Unlocked
  /\ mpc = [g \in Goroutines |-> "idle"]
  /\ old = [g \in Goroutines |-> Unlocked]
  /\ starving = [g \in Goroutines |-> FALSE]
  /\ awoke = [g \in Goroutines |-> FALSE]
  /\ waited = [g \in Goroutines |-> FALSE]
  /\ iter = [g \in Goroutines |-> 0]

MGoto(g, label) == mpc' = [mpc EXCEPT ![g] = label]

\* Leave a Lock or an Unlock.  Locals die with the call, and a copy of the state
\* that is overwritten before its next use is dead too: both are reset, so that
\* states that differ only in them are one.
DropOld(g) == old' = [old EXCEPT ![g] = Unlocked]

MReturn(g) ==
  /\ MGoto(g, "idle")
  /\ DropOld(g)
  /\ starving' = [starving EXCEPT ![g] = FALSE]
  /\ awoke' = [awoke EXCEPT ![g] = FALSE]
  /\ waited' = [waited EXCEPT ![g] = FALSE]
  /\ iter' = [iter EXCEPT ![g] = 0]

\* Mutant: an arrival ignores starvation mode.
ContendedLocked(s) == s.locked

Contended(s) == s.locked \/ s.starving

-----------------------------------------------------------------------------
(* Lock.  A caller conjoins CallLock; the call has returned when mpc is    *)
(* "idle" again.                                                           *)

CallLock(g) ==
  /\ mpc[g] = "idle"
  /\ MGoto(g, "lock")
  /\ UNCHANGED <<m, old, lockLocals>>

\* The fast path: compare-and-swap of 0 by mutexLocked.
LockFast(g) ==
  /\ mpc[g] = "lock"
  /\ IF m = Unlocked
       THEN m' = [m EXCEPT !.locked = TRUE] /\ MReturn(g)
       ELSE MGoto(g, "load") /\ UNCHANGED <<m, old, lockLocals>>
  /\ UNCHANGED semaVars

\* The first load of the slow path, whose locals are still zero, and the loads
\* after a failed swap or a spin.
LockLoad(g) ==
  /\ mpc[g] \in {"load", "reload"}
  /\ old' = [old EXCEPT ![g] = m]
  /\ MGoto(g, "loop")
  /\ UNCHANGED <<semaVars, m, lockLocals>>

\* One spin on a locked mutex that is not starving.  A spinner that can set
\* mutexWoken does, so that Unlock wakes nobody else.
LockSpin(g) ==
  /\ mpc[g] = "loop"
  /\ old[g].locked /\ ~old[g].starving
  /\ iter[g] < ActiveSpin
  /\ IF ~awoke[g] /\ ~old[g].woken /\ old[g].waiters # 0 /\ m = old[g]
       THEN /\ m' = [m EXCEPT !.woken = TRUE]
            /\ awoke' = [awoke EXCEPT ![g] = TRUE]
       ELSE UNCHANGED <<m, awoke>>
  /\ iter' = [iter EXCEPT ![g] = @ + 1]
  /\ DropOld(g)
  /\ MGoto(g, "reload")
  /\ UNCHANGED <<semaVars, starving, waited>>

\* Mutant: the woken flag is not given up by the goroutine that owns it.
WantedKeepsWoken(g) ==
  [locked   |-> old[g].locked \/ ~old[g].starving,
   woken    |-> old[g].woken,
   starving |-> old[g].starving \/ (starving[g] /\ old[g].locked),
   waiters  |-> old[g].waiters + (IF Contended(old[g]) THEN 1 ELSE 0)]

\* Mutant: a goroutine that queues on a free, starving mutex is not counted.
WantedUncounted(g) ==
  [locked   |-> old[g].locked \/ ~old[g].starving,
   woken    |-> old[g].woken /\ ~awoke[g],
   starving |-> old[g].starving \/ (starving[g] /\ old[g].locked),
   waiters  |-> old[g].waiters + (IF old[g].locked THEN 1 ELSE 0)]

\* Mutant: the lock bit is set without a look at starvation mode.
WantedBarges(g) ==
  [locked   |-> TRUE,
   woken    |-> old[g].woken /\ ~awoke[g],
   starving |-> old[g].starving \/ (starving[g] /\ old[g].locked),
   waiters  |-> old[g].waiters + (IF Contended(old[g]) THEN 1 ELSE 0)]

\* The state Lock tries to install: take the mutex unless it is starving, queue
\* if it is held or starving, ask for starvation mode if it is held and this
\* waiter starves, and give up the woken flag if this waiter owns it.
Wanted(g) ==
  [locked   |-> old[g].locked \/ ~old[g].starving,
   woken    |-> old[g].woken /\ ~awoke[g],
   starving |-> old[g].starving \/ (starving[g] /\ old[g].locked),
   waiters  |-> old[g].waiters + (IF Contended(old[g]) THEN 1 ELSE 0)]

\* The code throws "sync: inconsistent mutex state" here.
Inconsistent(g) == awoke[g] /\ ~old[g].woken

\* The swap fails because the state has changed since it was loaded.
LockLost(g) ==
  /\ mpc[g] = "loop"
  /\ Inconsistent(g) \/ m # old[g]
  /\ MGoto(g, IF Inconsistent(g) THEN "throw" ELSE "reload")
  /\ DropOld(g)
  /\ UNCHANGED <<semaVars, m, lockLocals>>

\* The swap succeeds.  It takes the mutex, or it adds a waiter that goes to
\* sleep, at the front of the queue if it has slept before.
LockSwap(g) ==
  /\ mpc[g] = "loop"
  /\ ~Inconsistent(g) /\ m = old[g]
  /\ m' = Wanted(g)
  /\ IF Contended(old[g])
       THEN /\ CallSemacquire(g, MutexSema, waited[g])
            /\ waited' = [waited EXCEPT ![g] = TRUE]
            /\ awoke' = [awoke EXCEPT ![g] = FALSE]
            /\ iter' = [iter EXCEPT ![g] = 0]
            /\ DropOld(g)
            /\ MGoto(g, "acquire")
            /\ UNCHANGED starving
       ELSE MReturn(g) /\ UNCHANGED semaVars

\* After SemacquireMutex: look at the clock, load the state, and either go back
\* to the loop as the awake waiter or, in starvation mode, go on to take the
\* mutex that has been handed off.
LockWake(g) ==
  /\ mpc[g] = "acquire" /\ spc[g] = "idle"
  /\ \E late \in BOOLEAN : starving' = [starving EXCEPT ![g] = @ \/ late]
  /\ old' = [old EXCEPT ![g] = m]
  /\ IF m.starving
       THEN /\ MGoto(g, IF m.locked \/ m.woken \/ m.waiters = 0
                          THEN "throw" ELSE "fix")
            /\ UNCHANGED awoke
       ELSE /\ MGoto(g, "loop")
            /\ awoke' = [awoke EXCEPT ![g] = TRUE]
  /\ UNCHANGED <<semaVars, m, waited, iter>>

\* One atomic addition sets mutexLocked, removes this waiter, and leaves
\* starvation mode if the state read before had this waiter as its last or if
\* this waiter has not starved.
LockFix(g) ==
  /\ mpc[g] = "fix"
  /\ m' = [m EXCEPT !.locked = TRUE,
                    !.waiters = @ - 1,
                    !.starving = starving[g] /\ old[g].waiters # 1]
  /\ MReturn(g)
  /\ UNCHANGED semaVars

-----------------------------------------------------------------------------
(* Unlock.  Its locals are new and old, the state it has seen last.        *)

CallUnlock(g) ==
  /\ mpc[g] = "idle"
  /\ MGoto(g, "unlock")
  /\ UNCHANGED <<m, old, lockLocals>>

\* Drop the lock bit; a starving mutex is handed off at once.  Without the bit
\* the code throws "sync: unlock of unlocked mutex".
UnlockDrop(g) ==
  /\ mpc[g] = "unlock"
  /\ m' = [m EXCEPT !.locked = FALSE]
  /\ IF m.starving
       THEN /\ CallSemrelease(g, MutexSema, TRUE)
            /\ MGoto(g, IF m.locked THEN "release" ELSE "throw")
            /\ UNCHANGED old
       ELSE /\ old' = [old EXCEPT ![g] = m']
            /\ MGoto(g, IF m.locked THEN "slow" ELSE "throw")
            /\ UNCHANGED semaVars
  /\ UNCHANGED lockLocals

\* No waiter, or one is awake, or somebody has the mutex: nobody to wake.
NobodyToWake(s) == s.waiters = 0 \/ s.locked \/ s.woken \/ s.starving

\* Grab the right to wake a waiter, unless there is nobody to wake.
UnlockSlow(g) ==
  /\ mpc[g] = "slow"
  /\ NobodyToWake(old[g]) \/ m = old[g]
  /\ IF NobodyToWake(old[g])
       THEN MReturn(g) /\ UNCHANGED <<semaVars, m>>
       ELSE /\ m' = [m EXCEPT !.waiters = @ - 1, !.woken = TRUE]
            /\ CallSemrelease(g, MutexSema, FALSE)
            /\ MGoto(g, "release")
            /\ DropOld(g)
            /\ UNCHANGED lockLocals

\* The swap fails: load the state again.
UnlockLost(g) ==
  /\ mpc[g] = "slow"
  /\ ~NobodyToWake(old[g]) /\ m # old[g]
  /\ MGoto(g, "reslow")
  /\ DropOld(g)
  /\ UNCHANGED <<semaVars, m, lockLocals>>

UnlockReload(g) ==
  /\ mpc[g] = "reslow"
  /\ old' = [old EXCEPT ![g] = m]
  /\ MGoto(g, "slow")
  /\ UNCHANGED <<semaVars, m, lockLocals>>

\* Semrelease has returned, and with it Unlock.
UnlockReturn(g) ==
  /\ mpc[g] = "release" /\ spc[g] = "idle"
  /\ MReturn(g)
  /\ UNCHANGED <<semaVars, m>>

-----------------------------------------------------------------------------

LockStep(g) ==
  \/ LockFast(g)
  \/ LockLoad(g)
  \/ LockSpin(g)
  \/ LockLost(g)
  \/ LockSwap(g)
  \/ LockWake(g)
  \/ LockFix(g)

UnlockStep(g) ==
  \/ UnlockDrop(g)
  \/ UnlockSlow(g)
  \/ UnlockLost(g)
  \/ UnlockReload(g)
  \/ UnlockReturn(g)

MutexStep(g) == LockStep(g) \/ UnlockStep(g)
=============================================================================
