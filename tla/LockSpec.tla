------------------------------ MODULE LockSpec ------------------------------
(***************************************************************************)
(* What a sync.Mutex promises as a lock (sync/mutex.go:69-71, 169-174): a  *)
(* goroutine that asks for it is given it at a moment when it is not held, *)
(* and stays alone until somebody, not necessarily the same goroutine,     *)
(* unlocks it.                                                             *)
(***************************************************************************)

CONSTANT Goroutines

VARIABLES
  waiting,   \* the goroutines inside Lock
  held       \* a Lock has returned and Unlock has not been called since

lockVars == <<waiting, held>>

LockInit == waiting = {} /\ held = FALSE

Ask(g) ==
  /\ g \notin waiting
  /\ waiting' = waiting \cup {g}
  /\ UNCHANGED held

Grant(g) ==
  /\ g \in waiting /\ ~held
  /\ waiting' = waiting \ {g}
  /\ held' = TRUE

Release ==
  /\ held
  /\ held' = FALSE
  /\ UNCHANGED waiting

LockNext == Release \/ \E g \in Goroutines : Ask(g) \/ Grant(g)

Exclusive == LockInit /\ [][LockNext]_lockVars
=============================================================================
