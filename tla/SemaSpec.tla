------------------------------ MODULE SemaSpec ------------------------------
(***************************************************************************)
(* What the semaphores of runtime/sema.go promise (sema.go:5-18): a count  *)
(* of permits for each address; an acquire waits for a permit and takes    *)
(* one, a release adds one.  Nothing is promised about the order in which  *)
(* waiters are served.                                                     *)
(***************************************************************************)
EXTENDS Program, Naturals

CONSTANT
  Addrs         \* the addresses of the semaphore words

VARIABLES
  permits,      \* permits[a]: the permits of a that nobody has taken
  waiting       \* waiting[a]: the goroutines that want one

semaphoreVars == <<permits, waiting>>

SemaphoreInit ==
  /\ permits = [a \in Addrs |-> 0]
  /\ waiting = [a \in Addrs |-> {}]

Semacquire(g, a) ==
  /\ g \notin waiting[a]
  /\ waiting' = [waiting EXCEPT ![a] = @ \cup {g}]
  /\ UNCHANGED permits

Acquired(g, a) ==
  /\ g \in waiting[a] /\ permits[a] > 0
  /\ permits' = [permits EXCEPT ![a] = @ - 1]
  /\ waiting' = [waiting EXCEPT ![a] = @ \ {g}]

Semrelease(a) ==
  /\ permits' = [permits EXCEPT ![a] = @ + 1]
  /\ UNCHANGED waiting

SemaphoreNext ==
  \E a \in Addrs :
    Semrelease(a) \/ \E g \in Goroutines : Semacquire(g, a) \/ Acquired(g, a)

Semaphore == SemaphoreInit /\ [][SemaphoreNext]_semaphoreVars

\* A permit does not stay untaken for ever while somebody wants one.
PermitsTaken ==
  \A a \in Addrs :
    (permits[a] > 0 /\ waiting[a] # {}) ~> (permits[a] = 0 \/ waiting[a] = {})
=============================================================================
