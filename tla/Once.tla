-------------------------------- MODULE Once --------------------------------
(***************************************************************************)
(* sync.Once (sync/once.go) over an exclusive lock, and goroutines that    *)
(* call Do.  f returns or panics; the deferred calls of Do run in the same *)
(* order in both cases, so the two are not told apart.                     *)
(***************************************************************************)
EXTENDS Program, Naturals

VARIABLES
  done,       \* o.done
  onceHeld,   \* o.m is locked
  opc,        \* where each goroutine is in Do, "idle" outside
  begun,      \* history: how often f has been called
  over,       \* history: a call of f has ended
  after       \* history: the goroutines that have returned from Do

onceVars == <<done, onceHeld, opc, begun, over, after>>

M == INSTANCE LockSpec WITH
       waiting <- {g \in Goroutines : opc[g] = "lock"}, held <- onceHeld

OnceInit ==
  /\ done = FALSE
  /\ opc = [g \in Goroutines |-> "idle"]
  /\ M!LockInit
  /\ begun = 0 /\ over = FALSE /\ after = {}

OGoto(g, label) == opc' = [opc EXCEPT ![g] = label]

OReturn(g) == OGoto(g, "idle") /\ after' = after \cup {g}

Do(g) ==
  /\ opc[g] = "idle"
  /\ OGoto(g, "fast")
  /\ UNCHANGED <<done, onceHeld, begun, over, after>>

\* The fast path reads done without the lock.
DoFast(g) ==
  /\ opc[g] = "fast"
  /\ IF done THEN OReturn(g) ELSE OGoto(g, "lock") /\ UNCHANGED after
  /\ UNCHANGED <<done, onceHeld, begun, over>>

DoLock(g) ==
  /\ opc[g] = "lock"
  /\ OGoto(g, "test")
  /\ M!Grant(g)
  /\ UNCHANGED <<done, begun, over, after>>

\* Mutant: done is stored before f is called.
DoTestStores(g) ==
  /\ opc[g] = "test"
  /\ IF done
       THEN OGoto(g, "unlock") /\ UNCHANGED <<begun, done>>
       ELSE OGoto(g, "f") /\ begun' = begun + 1 /\ done' = TRUE
  /\ UNCHANGED <<onceHeld, over, after>>

\* Under the lock, look at done again, and call f.
DoTest(g) ==
  /\ opc[g] = "test"
  /\ IF done
       THEN OGoto(g, "unlock") /\ UNCHANGED begun
       ELSE OGoto(g, "f") /\ begun' = begun + 1
  /\ UNCHANGED <<done, onceHeld, over, after>>

\* f ends.
EndF(g) ==
  /\ opc[g] = "f"
  /\ over' = TRUE
  /\ OGoto(g, "store")
  /\ UNCHANGED <<done, onceHeld, begun, after>>

\* The deferred store, and then the deferred unlock.
DoStore(g) ==
  /\ opc[g] = "store"
  /\ done' = TRUE
  /\ OGoto(g, "unlock")
  /\ UNCHANGED <<onceHeld, begun, over, after>>

DoUnlock(g) ==
  /\ opc[g] = "unlock"
  /\ OReturn(g)
  /\ M!Release
  /\ UNCHANGED <<done, begun, over>>

ORun(g) ==
  \/ DoFast(g)
  \/ DoLock(g)
  \/ DoTest(g)
  \/ EndF(g)
  \/ DoStore(g)
  \/ DoUnlock(g)

OnceNext == \E g \in Goroutines : Do(g) \/ ORun(g)

OnceSpec == OnceInit /\ [][OnceNext]_onceVars

-----------------------------------------------------------------------------
(* Properties                                                              *)

\* f is called at most once, and whoever has returned from Do, by the fast path
\* or by the lock, has done so after that call ended: nobody goes on with what f
\* has yet to initialize.
OnceBeforeAll == begun <= 1 /\ (after # {} => begun = 1 /\ over)

\* The inductive invariant behind it: one goroutine at a time is between the grant
\* and the release of the lock, and what it and the others may rely on is decided
\* by how far it has got.
Inside(g) == opc[g] \in {"test", "f", "store", "unlock"}

OnceInv ==
  /\ done \in BOOLEAN /\ onceHeld \in BOOLEAN /\ over \in BOOLEAN
  /\ opc \in [Goroutines -> {"idle", "fast", "lock", "test", "f", "store", "unlock"}]
  /\ begun \in {0, 1}
  /\ \A g, h \in Goroutines : Inside(g) /\ Inside(h) => g = h
  /\ onceHeld <=> \E g \in Goroutines : Inside(g)
  /\ done \/ after # {} => done /\ begun = 1 /\ over
  /\ begun = 1 => done \/ \E g \in Goroutines : opc[g] \in {"f", "store"}
  /\ \A g \in Goroutines :
       /\ opc[g] = "f" => begun = 1 /\ ~done
       /\ opc[g] = "store" => begun = 1 /\ over /\ ~done
       /\ opc[g] = "unlock" => done
=============================================================================
