-------------------------------- MODULE Cond --------------------------------
(***************************************************************************)
(* Goroutines that Wait on, Signal and Broadcast one sync.Cond for ever    *)
(* (sync/cond.go), and what it promises them.                              *)
(***************************************************************************)
EXTENDS NotifyList

CONSTANT
  MaxLag      \* bound on the Waits that begin before a Wait reaches the list

\* runtime/sema.go:454-457: the counters may differ by less than half of their range.
ASSUME CondAssumption == MaxLag \in Nat /\ 2 * MaxLag <= Modulus

VARIABLES
  quiet,      \* history: nobody waited at some moment of the notifier's call
  overtaken   \* history: another notifier woke somebody during the call

condClientVars == <<listVars, quiet, overtaken>>

CondInit ==
  /\ ListInit
  /\ quiet = [g \in Goroutines |-> FALSE]
  /\ overtaken = [g \in Goroutines |-> FALSE]

Notifying(g) == npc[g] \in {"start", "loaded", "lock"}

Observe ==
  /\ quiet' = [g \in Goroutines |->
       IF Notifying(g)' THEN quiet[g] \/ (wait = notify)' ELSE FALSE]
  /\ overtaken' = [g \in Goroutines |->
       IF Notifying(g)' THEN overtaken[g] \/ (Notifying(g) /\ notify' # notify) ELSE FALSE]

\* Wait begins with the ticket; c.L.Unlock is between it and notifyListWait, and
\* c.L.Lock after it.  A goroutine that has its ticket is not overtaken by more
\* than MaxLag others before it goes on.
CondWait(g) ==
  /\ \A h \in Goroutines : npc[h] = "added" => Minus(wait, ticketOf[h]) < MaxLag
  /\ NotifyListAdd(g)
  /\ Observe

Signal(g) == CallNotify(g, FALSE) /\ Observe

Broadcast(g) == CallNotify(g, TRUE) /\ Observe

CondRun(g) == ListStep(g) /\ Observe

CondNext ==
  \E g \in Goroutines : CondWait(g) \/ Signal(g) \/ Broadcast(g) \/ CondRun(g)

CondBehavior == CondInit /\ [][CondNext]_condClientVars

-----------------------------------------------------------------------------
(* Properties                                                              *)

CondTypeOK ==
  /\ ListTypeOK
  /\ quiet \in [Goroutines -> BOOLEAN]
  /\ overtaken \in [Goroutines -> BOOLEAN]

Outstanding == Minus(wait, notify)

\* A notifier has taken g off the list and not readied it yet.
Taken(g) == \E h \in Goroutines : g \in ToSet(toReady[h])

\* In Wait, with a ticket that is not notified yet.
Unnotified(g) ==
  /\ npc[g] \in {"added", "parked"} /\ ~Taken(g)
  /\ Minus(ticketOf[g], notify) < Outstanding

\* The tickets from notify up to wait, across the wraparound, belong to one
\* waiter each, and no other waiter is owed a notification; one that is parked
\* is on the list once, or in the hands of the one notifier that will ready it.
TicketsHeld ==
  /\ Cardinality({g \in Goroutines : Unnotified(g)}) = Outstanding
  /\ \A i \in 0 .. Outstanding - 1 : \E g \in Goroutines :
       Unnotified(g) /\ ticketOf[g] = (notify + i) % Modulus
  /\ \A g \in Goroutines : npc[g] = "parked" =>
       Cardinality({i \in DOMAIN list : list[i] = g})
         + Cardinality({h \in Goroutines : g \in ToSet(toReady[h])}) = 1

\* A notifier wakes nobody.
NotifierReturnsIdle(g) == npc[g] \in {"loaded", "lock"} /\ npc'[g] = "idle"

\* "Signal wakes one goroutine waiting on c, if there is any" (cond.go:60): a
\* notifier wakes nobody only if nobody waited at some moment of its call, or
\* another notifier woke somebody meanwhile, in between its two loads.
SignalExcused ==
  [][\A g \in Goroutines : NotifierReturnsIdle(g) => quiet[g] \/ overtaken[g]]_condClientVars

-----------------------------------------------------------------------------
(* The inductive invariant behind these properties.                        *)

\* A parked goroutine is on the list or in the hands of one notifier, once.
ListInv ==
  /\ IsInjective(list)
  /\ \A g \in Goroutines : npc[g] = "parked" => g \in ToSet(list) \/ Taken(g)
  /\ \A g \in ToSet(list) : npc[g] = "parked" /\ ~Taken(g)
  /\ \A h \in Goroutines :
       /\ toReady[h] # <<>> => npc[h] = "ready"
       /\ IsInjective(toReady[h])
       /\ \A g \in ToSet(toReady[h]) :
            npc[g] = "parked" /\ \A f \in Goroutines : g \in ToSet(toReady[f]) => f = h

\* Nobody on the list has been notified, nobody who comes to it is late by half of the
\* range, and each ticket has one holder.
WindowInv ==
  /\ \A g \in ToSet(list) : Unnotified(g)
  /\ \A g \in Goroutines :
       npc[g] = "added" => Minus(wait, ticketOf[g]) \in 1 .. Modulus \div 2
  /\ \A g, h \in Goroutines :
       Unnotified(g) /\ Unnotified(h) /\ ticketOf[g] = ticketOf[h] => g = h
  /\ \A i \in 0 .. Outstanding - 1 : \E g \in Goroutines :
       Unnotified(g) /\ Minus(ticketOf[g], notify) = i

\* What a notifier will be excused by.
ExcuseInv ==
  \A g \in Goroutines :
    /\ Notifying(g) /\ wait = notify => quiet[g]
    /\ npc[g] = "loaded" /\ waitSeen[g] = notify => quiet[g] \/ overtaken[g]

CondInv == CondTypeOK /\ ListInv /\ WindowInv /\ ExcuseInv

-----------------------------------------------------------------------------
(* The condition variable implements CondSpec.                             *)

\* A waiter whose ticket was notified and that has yet to return, parked or not.
Notified(g) == npc[g] \in {"added", "parked", "woken"} /\ ~Unnotified(g)

\* The goroutine that holds the i-th ticket still to be notified.
Holds(g, i) == Unnotified(g) /\ ticketOf[g] = (notify + i - 1) % Modulus

Waiter(i) ==
  CHOOSE g \in Goroutines : Holds(g, i) \/ \A h \in Goroutines : ~Holds(h, i)

Line == [i \in 1 .. Outstanding |-> Waiter(i)]
Awoken == {g \in Goroutines : Notified(g)}

Abstract == INSTANCE CondSpec WITH line <- Line, awoken <- Awoken

\* Waiters are woken in the order in which they called Wait, although they park in
\* any order, and no Wait returns unless it was signalled.
ImplementsCond == Abstract!Condition
=============================================================================
