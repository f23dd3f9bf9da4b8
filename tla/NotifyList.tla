----------------------------- MODULE NotifyList -----------------------------
(***************************************************************************)
(* The ticket list behind sync.Cond (runtime/sema.go:443-602).  A waiter   *)
(* takes a ticket before it gives up c.L, and parks only if its ticket has *)
(* not been notified by then.  wait and notify are running counts that     *)
(* wrap around.                                                            *)
(*                                                                         *)
(* What happens under l.lock is one step; so is each load of wait or       *)
(* notify outside of it, and each goroutine that is readied.  c.L is left  *)
(* out: as the read half of a RWMutex it may admit everybody at once.      *)
(***************************************************************************)
EXTENDS Program, Naturals, Sequences, FiniteSets, SequencesExt

CONSTANT Modulus   \* 2^32, the width of wait and notify

ASSUME NotifyListAssumption ==
  /\ Modulus \in Nat \ {0} /\ Modulus % 2 = 0
  /\ IsFiniteSet(Goroutines) /\ 2 * Cardinality(Goroutines) <= Modulus

VARIABLES
  wait,         \* l.wait: the ticket of the next waiter
  notify,       \* l.notify: the ticket of the next waiter to be notified
  list,         \* the goroutines parked, in the order they took the lock
  npc,          \* where each goroutine is, "idle" outside the calls
  ticketOf,     \* s.ticket of a waiter
  waitSeen,     \* the wait that a notifier has loaded
  toReady,      \* the goroutines a notifier has taken off the list
  everyone      \* the notifier is notifyListNotifyAll

listVars == <<wait, notify, list, npc, ticketOf, waitSeen, toReady, everyone>>

Counts == 0 .. Modulus - 1

ListTypeOK ==
  /\ wait \in Counts /\ notify \in Counts
  /\ list \in Seq(Goroutines)
  /\ npc \in [Goroutines -> {"idle", "added", "parked", "woken",
                             "start", "loaded", "lock", "ready"}]
  /\ ticketOf \in [Goroutines -> Counts]
  /\ waitSeen \in [Goroutines -> Counts]
  /\ toReady \in [Goroutines -> Seq(Goroutines)]
  /\ everyone \in [Goroutines -> BOOLEAN]

ListInit ==
  /\ wait = 0 /\ notify = 0
  /\ list = <<>>
  /\ npc = [g \in Goroutines |-> "idle"]
  /\ ticketOf = [g \in Goroutines |-> 0]
  /\ waitSeen = [g \in Goroutines |-> 0]
  /\ toReady = [g \in Goroutines |-> <<>>]
  /\ everyone = [g \in Goroutines |-> FALSE]

NGoto(g, label) == npc' = [npc EXCEPT ![g] = label]

Minus(a, b) == (a + Modulus - b) % Modulus

Next1(a) == (a + 1) % Modulus

\* Mutant: compares the counts as if they never wrapped.
LessUnwrapped(a, b) == a < b

\* less: the sign of the difference, taken in 32 bits.
Less(a, b) == Minus(a, b) >= Modulus \div 2

-----------------------------------------------------------------------------
(* Wait                                                                    *)

\* The atomic increment; the ticket is the count before it.
NotifyListAdd(g) ==
  /\ npc[g] = "idle"
  /\ ticketOf' = [ticketOf EXCEPT ![g] = wait]
  /\ wait' = Next1(wait)
  /\ NGoto(g, "added")
  /\ UNCHANGED <<notify, list, waitSeen, toReady, everyone>>

\* Mutant: parks without a look at notify.
NotifyListWaitUnchecked(g) ==
  /\ npc[g] = "added"
  /\ NGoto(g, "parked")
  /\ list' = Append(list, g)
  /\ UNCHANGED <<wait, notify, ticketOf, waitSeen, toReady, everyone>>

\* notifyListWait, up to the park.
NotifyListWait(g) ==
  /\ npc[g] = "added"
  /\ IF Less(ticketOf[g], notify)
       THEN NGoto(g, "woken") /\ UNCHANGED list
       ELSE NGoto(g, "parked") /\ list' = Append(list, g)
  /\ UNCHANGED <<wait, notify, ticketOf, waitSeen, toReady, everyone>>

\* The waiter runs again, and returns.
NotifyListWaitReturn(g) ==
  /\ npc[g] = "woken"
  /\ NGoto(g, "idle")
  /\ ticketOf' = [ticketOf EXCEPT ![g] = 0]
  /\ UNCHANGED <<wait, notify, list, waitSeen, toReady, everyone>>

-----------------------------------------------------------------------------
(* Signal and Broadcast                                                    *)

CallNotify(g, all) ==
  /\ npc[g] = "idle"
  /\ NGoto(g, "start")
  /\ everyone' = [everyone EXCEPT ![g] = all]
  /\ UNCHANGED <<wait, notify, list, ticketOf, waitSeen, toReady>>

NotifierReturns(g) ==
  /\ NGoto(g, "idle")
  /\ waitSeen' = [waitSeen EXCEPT ![g] = 0]
  /\ everyone' = [everyone EXCEPT ![g] = FALSE]

\* The fast path loads wait, and then notify.
LoadWait(g) ==
  /\ npc[g] = "start"
  /\ waitSeen' = [waitSeen EXCEPT ![g] = wait]
  /\ NGoto(g, "loaded")
  /\ UNCHANGED <<wait, notify, list, ticketOf, toReady, everyone>>

\* Mutant: there is nobody to notify if nobody is parked.
LoadNotifyEmpty(g) ==
  /\ npc[g] = "loaded"
  /\ IF list = <<>>
       THEN NotifierReturns(g)
       ELSE NGoto(g, "lock") /\ UNCHANGED <<waitSeen, everyone>>
  /\ UNCHANGED <<wait, notify, list, ticketOf, toReady>>

LoadNotify(g) ==
  /\ npc[g] = "loaded"
  /\ IF waitSeen[g] = notify
       THEN NotifierReturns(g)
       ELSE NGoto(g, "lock") /\ UNCHANGED <<waitSeen, everyone>>
  /\ UNCHANGED <<wait, notify, list, ticketOf, toReady>>

\* notifyListNotifyAll under the lock.
NotifyAll(g) ==
  /\ npc[g] = "lock" /\ everyone[g]
  /\ toReady' = [toReady EXCEPT ![g] = list]
  /\ list' = <<>>
  /\ notify' = wait
  /\ NGoto(g, "ready")
  /\ UNCHANGED <<wait, ticketOf, waitSeen, everyone>>

\* Mutant: takes the first waiter on the list, whatever its ticket.
NotifyOneFirst(g) ==
  /\ npc[g] = "lock" /\ ~everyone[g]
  /\ IF notify = wait
       THEN NotifierReturns(g) /\ UNCHANGED <<notify, list, toReady>>
       ELSE /\ notify' = Next1(notify)
            /\ list' = IF list = <<>> THEN <<>> ELSE Tail(list)
            /\ toReady' = [toReady EXCEPT ![g] =
                             IF list = <<>> THEN <<>> ELSE <<Head(list)>>]
            /\ NGoto(g, "ready")
            /\ UNCHANGED <<waitSeen, everyone>>
  /\ UNCHANGED <<wait, ticketOf>>

\* notifyListNotifyOne under the lock: the next ticket is notified, and its waiter
\* taken off the list if it has come that far.
NotifyOne(g) ==
  LET found == {i \in DOMAIN list : ticketOf[list[i]] = notify} IN
  /\ npc[g] = "lock" /\ ~everyone[g]
  /\ \/ /\ notify = wait
        /\ NotifierReturns(g) /\ UNCHANGED <<notify, list, toReady>>
     \/ /\ notify # wait
        /\ notify' = Next1(notify)
        /\ \/ found = {} /\ UNCHANGED <<list, toReady>>
           \/ \E i \in found :
                /\ \A j \in found : i <= j
                /\ list' = RemoveAt(list, i)
                /\ toReady' = [toReady EXCEPT ![g] = <<list[i]>>]
        /\ NGoto(g, "ready")
        /\ UNCHANGED <<waitSeen, everyone>>
  /\ UNCHANGED <<wait, ticketOf>>

\* readyWithTime of the next goroutine taken off the list, or the return.
NotifyReady(g) ==
  /\ npc[g] = "ready"
  /\ IF toReady[g] = <<>>
       THEN NotifierReturns(g) /\ UNCHANGED toReady
       ELSE /\ toReady' = [toReady EXCEPT ![g] = Tail(@)]
            /\ NGoto(Head(toReady[g]), "woken")
            /\ UNCHANGED <<waitSeen, everyone>>
  /\ UNCHANGED <<wait, notify, list, ticketOf>>

ListStep(g) ==
  \/ NotifyListWait(g)
  \/ NotifyListWaitReturn(g)
  \/ LoadWait(g)
  \/ LoadNotify(g)
  \/ NotifyAll(g)
  \/ NotifyOne(g)
  \/ NotifyReady(g)
=============================================================================
