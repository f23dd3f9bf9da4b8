-------------------------------- MODULE Sema --------------------------------
(***************************************************************************)
(* The sleep/wakeup semaphore of the Go runtime (runtime/sema.go):         *)
(* semacquire1 and semrelease1 over a table of roots, each root shared by  *)
(* every address that hashes to it.  sync.Mutex, sync.RWMutex and          *)
(* sync.WaitGroup sleep on it.                                             *)
(*                                                                         *)
(* A step is one atomic access to memory that other goroutines touch       *)
(* without the root lock (the semaphore word, nwait); what happens between *)
(* lock(&root.lock) and unlock and touches nothing else is one step.  A    *)
(* goroutine has at most one call in progress, so its sudog is named by    *)
(* the goroutine.  The treap of a root is abstracted to one queue of       *)
(* waiters per address.                                                    *)
(***************************************************************************)
EXTENDS Program, Naturals, Sequences, FiniteSets, Functions

CONSTANTS
  Addrs,        \* the addresses of semaphore words (*uint32)
  RootOf,       \* semroot: the root of the semtable an address hashes to
  Nobody        \* the absence of a goroutine

ASSUME SemaAssumption ==
  /\ DOMAIN RootOf = Addrs
  /\ Nobody \notin Goroutines
  /\ IsFiniteSet(Goroutines)

Roots == {RootOf[a] : a \in Addrs}

VARIABLES
  sval,         \* *addr, the count of each semaphore word
  waitq,        \* the sudogs parked on each address, the next to wake first
  nwait,        \* root.nwait, read without the root lock
  rootLock,     \* the goroutine that holds root.lock, or Nobody
  spc,          \* where each goroutine is in its call, "idle" outside one
  saddr,        \* the addr argument of the call
  sflag,        \* the lifo argument of semacquire1, handoff of semrelease1
  ticket,       \* s.ticket # 0 after the sudog left the treap
  target        \* the sudog semrelease1 has dequeued and not yet readied

semaVars == <<sval, waitq, nwait, rootLock, spc, saddr, sflag, ticket, target>>

AcquirePc == {"easy", "lock", "retry", "queue", "parked", "woken"}
ReleasePc == {"xadd", "check", "dequeue", "ready"}

SemaTypeOK ==
  /\ sval \in [Addrs -> Nat]
  /\ waitq \in [Addrs -> Seq(Goroutines)]
  /\ nwait \in [Roots -> Nat]
  /\ rootLock \in [Roots -> Goroutines \cup {Nobody}]
  /\ spc \in [Goroutines -> {"idle"} \cup AcquirePc \cup ReleasePc]
  /\ saddr \in [Goroutines -> Addrs]
  /\ sflag \in [Goroutines -> BOOLEAN]
  /\ ticket \in [Goroutines -> BOOLEAN]
  /\ target \in [Goroutines -> Goroutines \cup {Nobody}]

SemaInit ==
  /\ sval = [a \in Addrs |-> 0]
  /\ waitq = [a \in Addrs |-> <<>>]
  /\ nwait = [r \in Roots |-> 0]
  /\ rootLock = [r \in Roots |-> Nobody]
  /\ spc = [g \in Goroutines |-> "idle"]
  /\ saddr \in {[g \in Goroutines |-> a] : a \in Addrs}
  /\ sflag = [g \in Goroutines |-> FALSE]
  /\ ticket = [g \in Goroutines |-> FALSE]
  /\ target = [g \in Goroutines |-> Nobody]

-----------------------------------------------------------------------------
(* Calls.  A caller conjoins one of these with the step that makes the     *)
(* call; the call has returned when spc is "idle" again.                   *)

Call(g, a, flag, entry) ==
  /\ spc[g] = "idle"
  /\ spc' = [spc EXCEPT ![g] = entry]
  /\ saddr' = [saddr EXCEPT ![g] = a]
  /\ sflag' = [sflag EXCEPT ![g] = flag]
  /\ UNCHANGED <<sval, waitq, nwait, rootLock, ticket, target>>

CallSemacquire(g, a, lifo) == Call(g, a, lifo, "easy")

CallSemrelease(g, a, handoff) == Call(g, a, handoff, "xadd")

-----------------------------------------------------------------------------
(* semacquire1                                                             *)

root(g) == RootOf[saddr[g]]

\* cansemacquire: its load and compare-and-swap loop takes effect at the
\* load of a zero or at the swap that succeeds.
CanSemacquire(a) == sval[a] > 0

Goto(g, label) == spc' = [spc EXCEPT ![g] = label] /\ UNCHANGED sflag

\* Return from the call; its flag is dead and is reset, so that states that
\* differ only in it are one.
Return(g) ==
  /\ spc' = [spc EXCEPT ![g] = "idle"]
  /\ sflag' = [sflag EXCEPT ![g] = FALSE]

\* The first cansemacquire, without the root lock.
SemacquireEasy(g) ==
  /\ spc[g] = "easy"
  /\ IF CanSemacquire(saddr[g])
       THEN /\ sval' = [sval EXCEPT ![saddr[g]] = @ - 1]
            /\ Return(g)
       ELSE /\ Goto(g, "lock")
            /\ UNCHANGED sval
  /\ UNCHANGED <<waitq, nwait, rootLock, saddr, ticket, target>>

\* lock(&root.lock), and the increment of nwait that makes later releases look
\* for a waiter.
SemacquireLock(g) ==
  /\ spc[g] = "lock"
  /\ rootLock[root(g)] = Nobody
  /\ rootLock' = [rootLock EXCEPT ![root(g)] = g]
  /\ nwait' = [nwait EXCEPT ![root(g)] = @ + 1]
  /\ Goto(g, "retry")
  /\ UNCHANGED <<sval, waitq, saddr, ticket, target>>

\* Mutant: the second cansemacquire is left out.
SemacquireRetryUnchecked(g) ==
  /\ spc[g] = "retry"
  /\ Goto(g, "queue")
  /\ UNCHANGED <<sval, waitq, nwait, rootLock, saddr, ticket, target>>

\* Mutant: the acquire that succeeds stays counted in nwait.
SemacquireRetryCounted(g) ==
  /\ spc[g] = "retry"
  /\ IF CanSemacquire(saddr[g])
       THEN /\ sval' = [sval EXCEPT ![saddr[g]] = @ - 1]
            /\ rootLock' = [rootLock EXCEPT ![root(g)] = Nobody]
            /\ Return(g)
       ELSE /\ Goto(g, "queue")
            /\ UNCHANGED <<sval, rootLock>>
  /\ UNCHANGED <<waitq, nwait, saddr, ticket, target>>

\* The second cansemacquire, with the root lock held.
SemacquireRetry(g) ==
  /\ spc[g] = "retry"
  /\ IF CanSemacquire(saddr[g])
       THEN /\ sval' = [sval EXCEPT ![saddr[g]] = @ - 1]
            /\ nwait' = [nwait EXCEPT ![root(g)] = @ - 1]
            /\ rootLock' = [rootLock EXCEPT ![root(g)] = Nobody]
            /\ Return(g)
       ELSE /\ Goto(g, "queue")
            /\ UNCHANGED <<sval, nwait, rootLock>>
  /\ UNCHANGED <<waitq, saddr, ticket, target>>

\* root.queue: a lifo waiter goes first among those of its address.
Enqueue(q, g, lifo) == IF lifo THEN <<g>> \o q ELSE Append(q, g)

\* Queue the sudog, park and release the root lock (goparkunlock).
SemacquireQueue(g) ==
  /\ spc[g] = "queue"
  /\ waitq' = [waitq EXCEPT ![saddr[g]] = Enqueue(@, g, sflag[g])]
  /\ rootLock' = [rootLock EXCEPT ![root(g)] = Nobody]
  /\ Goto(g, "parked")
  /\ UNCHANGED <<sval, nwait, saddr, ticket, target>>

\* After the wakeup: return with the permit a handoff left in the ticket or
\* with one taken now, else start over.
SemacquireWake(g) ==
  /\ spc[g] = "woken"
  /\ IF ticket[g] \/ CanSemacquire(saddr[g])
       THEN /\ sval' = [sval EXCEPT ![saddr[g]] = IF ticket[g] THEN @ ELSE @ - 1]
            /\ ticket' = [ticket EXCEPT ![g] = FALSE]
            /\ Return(g)
       ELSE /\ Goto(g, "lock")
            /\ UNCHANGED <<sval, ticket>>
  /\ UNCHANGED <<waitq, nwait, rootLock, saddr, target>>

-----------------------------------------------------------------------------
(* semrelease1                                                             *)

SemreleaseXadd(g) ==
  /\ spc[g] = "xadd"
  /\ sval' = [sval EXCEPT ![saddr[g]] = @ + 1]
  /\ Goto(g, "check")
  /\ UNCHANGED <<waitq, nwait, rootLock, saddr, ticket, target>>

\* The easy case: no waiter on the root, read without its lock.
SemreleaseCheck(g) ==
  /\ spc[g] = "check"
  /\ IF nwait[root(g)] = 0 THEN Return(g) ELSE Goto(g, "dequeue")
  /\ UNCHANGED <<sval, waitq, nwait, rootLock, saddr, ticket, target>>

\* Mutant: the waiter that is woken is not the one that is removed.
SemreleaseDequeueOther(g) ==
  /\ spc[g] = "dequeue"
  /\ rootLock[root(g)] = Nobody
  /\ IF nwait[root(g)] = 0 \/ waitq[saddr[g]] = <<>>
       THEN /\ Return(g)
            /\ UNCHANGED <<waitq, nwait, target>>
       ELSE LET q == waitq[saddr[g]]
            IN  /\ target' = [target EXCEPT ![g] = Head(q)]
                /\ waitq' = [waitq EXCEPT ![saddr[g]] = SubSeq(q, 1, Len(q) - 1)]
                /\ nwait' = [nwait EXCEPT ![root(g)] = @ - 1]
                /\ Goto(g, "ready")
  /\ UNCHANGED <<sval, rootLock, saddr, ticket>>

\* Under the root lock: look again at nwait, and take the first waiter of the
\* address.  nwait counts the waiters of the whole root, so the queue of this
\* address may be empty.
SemreleaseDequeue(g) ==
  /\ spc[g] = "dequeue"
  /\ rootLock[root(g)] = Nobody
  /\ IF nwait[root(g)] = 0 \/ waitq[saddr[g]] = <<>>
       THEN /\ Return(g)
            /\ UNCHANGED <<waitq, nwait, target>>
       ELSE /\ target' = [target EXCEPT ![g] = Head(waitq[saddr[g]])]
            /\ waitq' = [waitq EXCEPT ![saddr[g]] = Tail(@)]
            /\ nwait' = [nwait EXCEPT ![root(g)] = @ - 1]
            /\ Goto(g, "ready")
  /\ UNCHANGED <<sval, rootLock, saddr, ticket>>

\* Mutant: a handoff gives the waiter a ticket that takes no permit.
SemreleaseReadyFree(g) ==
  /\ spc[g] = "ready"
  /\ ticket' = [ticket EXCEPT ![target[g]] = sflag[g]]
  /\ spc' = [spc EXCEPT ![g] = "idle", ![target[g]] = "woken"]
  /\ sflag' = [sflag EXCEPT ![g] = FALSE]
  /\ target' = [target EXCEPT ![g] = Nobody]
  /\ UNCHANGED <<sval, waitq, nwait, rootLock, saddr>>

\* Ready the dequeued waiter; a handoff first takes the permit for it, if no
\* other goroutine has.
SemreleaseReady(g) ==
  /\ spc[g] = "ready"
  /\ IF sflag[g] /\ CanSemacquire(saddr[g])
       THEN /\ sval' = [sval EXCEPT ![saddr[g]] = @ - 1]
            /\ ticket' = [ticket EXCEPT ![target[g]] = TRUE]
       ELSE UNCHANGED <<sval, ticket>>
  /\ spc' = [spc EXCEPT ![g] = "idle", ![target[g]] = "woken"]
  /\ sflag' = [sflag EXCEPT ![g] = FALSE]
  /\ target' = [target EXCEPT ![g] = Nobody]
  /\ UNCHANGED <<waitq, nwait, rootLock, saddr>>

-----------------------------------------------------------------------------

Semacquire(g) ==
  \/ SemacquireEasy(g)
  \/ SemacquireLock(g)
  \/ SemacquireRetry(g)
  \/ SemacquireQueue(g)
  \/ SemacquireWake(g)

Semrelease(g) ==
  \/ SemreleaseXadd(g)
  \/ SemreleaseCheck(g)
  \/ SemreleaseDequeue(g)
  \/ SemreleaseReady(g)

SemaStep(g) == Semacquire(g) \/ Semrelease(g)

-----------------------------------------------------------------------------
(* Properties of the queues, for every client.                             *)

\* A parked goroutine is in one place only, and a goroutine in such a place is
\* parked: once in the queue of the address it called with, or with one releaser
\* of that address that has dequeued it and will ready it.
ParkedOnce ==
  /\ \A a \in Addrs : IsInjective(waitq[a])
  /\ \A a \in Addrs : \A g \in Range(waitq[a]) : spc[g] = "parked" /\ saddr[g] = a
  /\ \A g \in Goroutines : spc[g] = "ready" =>
       /\ target[g] \in Goroutines \ Range(waitq[saddr[g]])
       /\ spc[target[g]] = "parked" /\ saddr[target[g]] = saddr[g]
       /\ \A h \in Goroutines : spc[h] = "ready" /\ target[h] = target[g] => h = g
  /\ \A g \in Goroutines : spc[g] = "parked" =>
       \/ g \in Range(waitq[saddr[g]])
       \/ \E h \in Goroutines : spc[h] = "ready" /\ target[h] = g

\* A ticket is read by the waiter it was given to, and by nobody after.
TicketInv == \A g \in Goroutines : ticket[g] => spc[g] = "woken"

\* nwait counts exactly the sudogs in the treap of the root and the acquirer
\* that is about to add itself; a release that reads 0 leaves no one behind.
Waiting(r) ==
  {g \in Goroutines :
     /\ root(g) = r
     /\ spc[g] \in {"retry", "queue"} \/ g \in Range(waitq[saddr[g]])}

NwaitExact == \A r \in Roots : nwait[r] = Cardinality(Waiting(r))

SemaInv == ParkedOnce /\ TicketInv /\ NwaitExact
=============================================================================
