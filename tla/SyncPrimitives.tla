--------------------------- MODULE SyncPrimitives ---------------------------
(***************************************************************************)
(* One of sync.RWMutex, sync.WaitGroup, sync.Once and sync.Cond, each used *)
(* by all of the goroutines, or the treap of a root of the semaphore.      *)
(* They share nothing but the semaphore, so that one of them at a time is  *)
(* enough.                                                                 *)
(***************************************************************************)
EXTENDS RWMutexClients, WaitGroupClients, Once, Cond, SemaRoot

CONSTANT Primitives   \* those to choose from: "RWMutex", "WaitGroup", "Once", "Cond",
                      \* "semaRoot"

VARIABLE primitive   \* the one in use

vars == <<rwClientVars, wgClientVars, onceVars, condClientVars, semaRootVars, primitive>>

\* The address of a call that nobody has made does not matter; it is fixed so that
\* states that differ only in it are one.
Init ==
  /\ primitive \in Primitives
  /\ RWClientsInit /\ WGClientsInit /\ OnceInit /\ CondInit /\ SemaRootInit
  /\ saddr = [g \in Goroutines |-> IF primitive = "WaitGroup" THEN WaitSema ELSE ReaderSem]

\* The step is one of the primitive in use; the others do not move.
RWRest == UNCHANGED <<rwVars, asked, late>>
WGRest == UNCHANGED <<wgVars, own, zeroed>>
OnceRest == UNCHANGED onceVars
CondRest == UNCHANGED condClientVars
TreapRest == UNCHANGED semaRootVars

Of(p) == primitive = p /\ UNCHANGED primitive

OfRWMutex == Of("RWMutex") /\ WGRest /\ OnceRest /\ CondRest /\ TreapRest
OfWaitGroup == Of("WaitGroup") /\ RWRest /\ OnceRest /\ CondRest /\ TreapRest
OfOnce == Of("Once") /\ UNCHANGED semaVars /\ RWRest /\ WGRest /\ CondRest /\ TreapRest
OfCond == Of("Cond") /\ UNCHANGED semaVars /\ RWRest /\ WGRest /\ OnceRest /\ TreapRest
OfSemaRoot == Of("semaRoot") /\ UNCHANGED semaVars /\ RWRest /\ WGRest /\ OnceRest /\ CondRest

Next ==
  \/ OfRWMutex /\ RWClientsNext
  \/ OfWaitGroup /\ WGClientsNext
  \/ OfOnce /\ OnceNext
  \/ OfCond /\ CondNext
  \/ OfSemaRoot /\ SemaRootNext

Run(g) ==
  \/ OfRWMutex /\ RWRun(g)
  \/ OfWaitGroup /\ WGRun(g)
  \/ OfOnce /\ ORun(g)
  \/ OfCond /\ CondRun(g)

\* The scheduler runs every runnable goroutine; who holds a RWMutex unlocks it;
\* units of a WaitGroup are done with.
Fairness ==
  \A g \in Goroutines :
    /\ WF_vars(Run(g))
    /\ WF_vars(OfRWMutex /\ RWUnlock(g, g))
    /\ WF_vars(OfWaitGroup /\ \E h \in Goroutines : Finish(g, h))

Spec == Init /\ [][Next]_vars /\ Fairness

\* Type correctness of the primitives and of the semaphore below them.
SyncTypeOK ==
  SemaTypeOK /\ RWClientsTypeOK /\ WGClientsTypeOK /\ CondTypeOK /\ SemaRootTypeOK

\* Nobody is blocked for ever who is owed an end of it: a writer that has won
\* against the other writers gets the RWMutex, although readers keep arriving; a
\* Wait returns in which the counter of the WaitGroup has been zero, in every
\* reuse; a Wait on a Cond returns once its ticket has been notified, whether it
\* had parked by then or not.
BlockedCallsReturn ==
  \A g \in Goroutines : []<>~(WriterComes(g) \/ g \in zeroed \/ Notified(g))
=============================================================================
