-------------------------- MODULE WaitGroupClients --------------------------
(***************************************************************************)
(* Goroutines that use and reuse one sync.WaitGroup as waitgroup.go:44-52  *)
(* allows.  A unit of the counter belongs to the goroutine that added it   *)
(* until some goroutine calls Done for it.  Who owns a unit may add more   *)
(* at any time, since the counter cannot be zero.  Any other Add may find  *)
(* the counter zero, so it and the Waits do not overlap.                   *)
(***************************************************************************)
EXTENDS WaitGroup

CONSTANT MaxOwn   \* bound: units of one goroutine

ASSUME WGClientsAssumption == MaxOwn \in Nat

VARIABLES
  own,     \* the units that each goroutine has added and nobody is done with
  zeroed   \* history: those that wait, in whose Wait the counter has been zero

wgClientVars == <<semaVars, wgVars, own, zeroed>>

WGClientsInit ==
  /\ SemaInit /\ WGInit
  /\ own = [g \in Goroutines |-> 0]
  /\ zeroed = {}

InAdd(g) == wpc[g] \in AddPc
InWait(g) == wpc[g] \in WaitPc

\* A call of Add with a positive argument.
Start(g, d) ==
  /\ \/ own[g] > 0
     \/ \A h \in Goroutines : ~InWait(h)
  /\ own[g] + d <= MaxOwn
  /\ CallAdd(g, d)
  /\ own' = [own EXCEPT ![g] = @ + d]
  /\ UNCHANGED <<semaVars, zeroed>>

\* A call of Done by g for a unit of h.
Finish(g, h) ==
  /\ own[h] > 0 /\ ~InAdd(h)
  /\ CallAdd(g, -1)
  /\ own' = [own EXCEPT ![h] = @ - 1]
  /\ UNCHANGED <<semaVars, zeroed>>

\* No Wait while an Add may find the counter zero; and somebody is left to call
\* Done.
Wait(g) ==
  /\ \A h \in Goroutines : InAdd(h) /\ delta[h] > 0 => own[h] > delta[h]
  /\ \E h \in Goroutines \ {g} : ~InWait(h)
  /\ CallWait(g)
  /\ zeroed' = IF wg.counter = 0 THEN zeroed \cup {g} ELSE zeroed
  /\ UNCHANGED <<semaVars, own>>

WGRun(g) ==
  \/ /\ WGStep(g)
     /\ zeroed' = {h \in zeroed \cup (IF wg'.counter = 0 THEN Goroutines ELSE {}) :
                     wpc'[h] \in WaitPc}
     /\ UNCHANGED own
  \/ /\ SemaStep(g)
     /\ UNCHANGED <<wgVars, own, zeroed>>

WGClientsNext ==
  \E g \in Goroutines :
    \/ \E d \in 1 .. 2 : Start(g, d)
    \/ \E h \in Goroutines : Finish(g, h)
    \/ Wait(g)
    \/ WGRun(g)

-----------------------------------------------------------------------------
(* Properties                                                              *)

WGClientsTypeOK ==
  /\ WGTypeOK
  /\ own \in [Goroutines -> 0 .. MaxOwn]
  /\ zeroed \in SUBSET Goroutines

\* Wait returns only if the counter was zero at some moment of the call.
WaitsForZero ==
  [][\A g \in Goroutines : InWait(g) /\ wpc'[g] = "idle" => g \in zeroed]_wgClientVars

\* The sum of f, as the number of its units: one pair for each of them.
Units(f) == UNION {{g} \X (1 .. f[g]) : g \in Goroutines}
Total(f) == Cardinality(Units(f))

Sleepers == {g \in Goroutines : wpc[g] = "sleep" /\ spc[g] # "idle"}
Releasing == {g \in Goroutines : spc[g] = "xadd" /\ saddr[g] = WaitSema}

\* The permits that the waiters have yet to get are exactly those they are owed:
\* none is released twice or forgotten, over any number of reuses.  And a program
\* that keeps to the rules never panics: while Add releases the waiters, and until
\* all of them have returned, nobody changes the word (waitgroup.go:82-85),
\* although other Waits and Adds begin.
WaitersOwed ==
  /\ Cardinality(Sleepers)
       = wg.waiters + Total(toWake) + Cardinality(Releasing) + sval[WaitSema]
  /\ \A g \in Goroutines : wpc[g] # "panic"

-----------------------------------------------------------------------------
(* The inductive invariant behind WaitersOwed and WaitsForZero.            *)

\* A goroutine about to add to the counter, and what entitles it to: units that it
\* has already, or that nobody waits.
Adds(g) == wpc[g] = "add" /\ delta[g] > 0

WGCallInv ==
  \A g \in Goroutines :
    /\ spc[g] \in AcquirePc => wpc[g] = "sleep" /\ saddr[g] = WaitSema
    /\ spc[g] \in ReleasePc => wpc[g] = "release" /\ saddr[g] = WaitSema /\ ~sflag[g]
    /\ ~ticket[g]
    /\ toWake[g] # 0 => wpc[g] = "release"
    /\ wpc[g] = "add" => delta[g] = -1 \/ delta[g] > 0
    /\ wpc[g] = "cas" => seen[g].counter # 0
    /\ Adds(g) => \/ own[g] > delta[g]
                  \/ own[g] = delta[g] /\ \A h \in Goroutines : ~InWait(h)

\* The counter is the units that are owned and added, and those whose Done has yet
\* to subtract them.
Added == [g \in Goroutines |-> own[g] - (IF Adds(g) THEN delta[g] ELSE 0)]
Subtracting == {g \in Goroutines : wpc[g] = "add" /\ delta[g] < 0}

CounterInv == wg.counter = Total(Added) + Cardinality(Subtracting)

\* Who has brought the counter to zero under waiters finds the word as it left it.
ZeroInv ==
  /\ \A g \in Goroutines : wpc[g] \in {"recheck", "reset"} =>
       /\ wg = seen[g] /\ wg.counter = 0 /\ wg.waiters # 0
       /\ \A h \in Goroutines : wpc[h] \in {"recheck", "reset"} => h = g
  /\ wg.counter = 0 => \A g \in Goroutines : InWait(g) => g \in zeroed

\* Until the last waiter of a round has returned the word stays zero.
RoundInv ==
  wg # Zero =>
    /\ Total(toWake) = 0 /\ sval[WaitSema] = 0 /\ Releasing = {}
    /\ \A g \in Goroutines : wpc[g] = "sleep" => spc[g] # "idle"

WGInv ==
  /\ SemaTypeOK /\ SemaInv /\ WGClientsTypeOK
  /\ WGCallInv /\ CounterInv /\ ZeroInv /\ RoundInv /\ WaitersOwed

WGSpec == WGClientsInit /\ [][WGClientsNext]_wgClientVars
=============================================================================
