----------------------------- MODULE WaitGroup -----------------------------
(***************************************************************************)
(* sync.WaitGroup (sync/waitgroup.go) over the runtime semaphore of module *)
(* Sema.  The 64-bit word holds two counters, which one atomic operation   *)
(* reads or changes together; the check of the word and its reset in Add   *)
(* are plain accesses, and steps of their own.                             *)
(***************************************************************************)
EXTENDS Sema, Integers

CONSTANT WaitSema   \* the semaphore in wg.state1

ASSUME WaitGroupAssumption == WaitSema \in Addrs

VARIABLES
  wg,      \* the word *statep: the counter and the number of waiters
  wpc,     \* where each goroutine is in Add or Wait, "idle" outside
  seen,    \* local: the word as the goroutine has last read it
  delta,   \* the argument of Add
  toWake   \* local w of Add: waiters it has yet to release

wgVars == <<wg, wpc, seen, delta, toWake>>

Word == [counter : Int, waiters : Nat]

Zero == [counter |-> 0, waiters |-> 0]

AddPc == {"add", "recheck", "reset", "release"}
WaitPc == {"load", "cas", "sleep"}

WGTypeOK ==
  /\ wg \in Word
  /\ wpc \in [Goroutines -> {"idle", "panic"} \cup AddPc \cup WaitPc]
  /\ seen \in [Goroutines -> Word]
  /\ delta \in [Goroutines -> Int]
  /\ toWake \in [Goroutines -> Nat]

WGInit ==
  /\ wg = Zero
  /\ wpc = [g \in Goroutines |-> "idle"]
  /\ seen = [g \in Goroutines |-> Zero]
  /\ delta = [g \in Goroutines |-> 0]
  /\ toWake = [g \in Goroutines |-> 0]

WGGoto(g, label) == wpc' = [wpc EXCEPT ![g] = label]

\* Keep what has been read of the word, or drop it when it is dead, so that
\* states that differ only in it are one.
See(g, word) == seen' = [seen EXCEPT ![g] = word]

-----------------------------------------------------------------------------
(* Add.  Done is Add(-1).  A caller conjoins CallAdd or CallWait; the call *)
(* has returned when wpc is "idle" again.                                  *)

CallAdd(g, d) ==
  /\ wpc[g] = "idle"
  /\ WGGoto(g, "add")
  /\ delta' = [delta EXCEPT ![g] = d]
  /\ UNCHANGED <<wg, seen, toWake>>

\* The two panics that Add decides on from the word it has produced: a negative
\* counter, and a first Add that finds waiters.
Misused(word, d) ==
  word.counter < 0 \/ (word.waiters # 0 /\ d > 0 /\ word.counter = d)

\* The atomic addition.  Only who brings the counter to zero with waiters goes on.
AddDelta(g) ==
  /\ wpc[g] = "add"
  /\ wg' = [wg EXCEPT !.counter = @ + delta[g]]
  /\ delta' = [delta EXCEPT ![g] = 0]
  /\ IF Misused(wg', delta[g]) THEN WGGoto(g, "panic") /\ UNCHANGED seen
     ELSE IF wg'.counter > 0 \/ wg'.waiters = 0 THEN WGGoto(g, "idle") /\ UNCHANGED seen
     ELSE WGGoto(g, "recheck") /\ See(g, wg')
  /\ UNCHANGED <<semaVars, toWake>>

\* The sanity check that nobody has changed the word since, or a panic.
AddRecheck(g) ==
  /\ wpc[g] = "recheck"
  /\ WGGoto(g, IF wg # seen[g] THEN "panic" ELSE "reset")
  /\ UNCHANGED <<semaVars, wg, seen, delta, toWake>>

\* Mutant: one waiter too few is released.
AddResetFewer(g) ==
  /\ wpc[g] = "reset"
  /\ wg' = Zero
  /\ toWake' = [toWake EXCEPT ![g] = seen[g].waiters - 1]
  /\ See(g, Zero)
  /\ WGGoto(g, "release")
  /\ UNCHANGED <<semaVars, delta>>

\* The plain store that resets the word.
AddReset(g) ==
  /\ wpc[g] = "reset"
  /\ wg' = Zero
  /\ toWake' = [toWake EXCEPT ![g] = seen[g].waiters]
  /\ See(g, Zero)
  /\ WGGoto(g, "release")
  /\ UNCHANGED <<semaVars, delta>>

\* One round of the loop that releases the waiters.
AddRelease(g) ==
  /\ wpc[g] = "release" /\ toWake[g] # 0
  /\ CallSemrelease(g, WaitSema, FALSE)
  /\ toWake' = [toWake EXCEPT ![g] = @ - 1]
  /\ UNCHANGED <<wg, wpc, seen, delta>>

AddReturn(g) ==
  /\ wpc[g] = "release" /\ toWake[g] = 0 /\ spc[g] = "idle"
  /\ WGGoto(g, "idle")
  /\ UNCHANGED <<semaVars, wg, seen, delta, toWake>>

-----------------------------------------------------------------------------
(* Wait                                                                    *)

CallWait(g) ==
  /\ wpc[g] = "idle"
  /\ WGGoto(g, "load")
  /\ UNCHANGED <<wg, seen, delta, toWake>>

\* Mutant: the wrong half of the word is tested.
WaitLoadWaiters(g) ==
  /\ wpc[g] = "load"
  /\ IF wg.waiters = 0
       THEN WGGoto(g, "idle") /\ UNCHANGED seen
       ELSE WGGoto(g, "cas") /\ See(g, wg)
  /\ UNCHANGED <<semaVars, wg, delta, toWake>>

WaitLoad(g) ==
  /\ wpc[g] = "load"
  /\ IF wg.counter = 0
       THEN WGGoto(g, "idle") /\ UNCHANGED seen
       ELSE WGGoto(g, "cas") /\ See(g, wg)
  /\ UNCHANGED <<semaVars, wg, delta, toWake>>

\* The swap that adds a waiter, or another round if the word has changed.
WaitSwap(g) ==
  /\ wpc[g] = "cas"
  /\ See(g, Zero)
  /\ IF wg = seen[g]
       THEN /\ wg' = [wg EXCEPT !.waiters = @ + 1]
            /\ CallSemacquire(g, WaitSema, FALSE)
            /\ WGGoto(g, "sleep")
       ELSE WGGoto(g, "load") /\ UNCHANGED <<semaVars, wg>>
  /\ UNCHANGED <<delta, toWake>>

\* After the wakeup: a plain read of the word, which panics on reuse.
WaitReturn(g) ==
  /\ wpc[g] = "sleep" /\ spc[g] = "idle"
  /\ WGGoto(g, IF wg # Zero THEN "panic" ELSE "idle")
  /\ UNCHANGED <<semaVars, wg, seen, delta, toWake>>

-----------------------------------------------------------------------------

AddStep(g) ==
  \/ AddDelta(g)
  \/ AddRecheck(g)
  \/ AddReset(g)
  \/ AddRelease(g)
  \/ AddReturn(g)

WaitStep(g) ==
  \/ WaitLoad(g)
  \/ WaitSwap(g)
  \/ WaitReturn(g)

WGStep(g) == AddStep(g) \/ WaitStep(g)
=============================================================================
