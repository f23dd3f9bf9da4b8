------------------------------ MODULE SemaRoot ------------------------------
(***************************************************************************)
(* The treap of a semaRoot (runtime/sema.go:29-41, 211-440): a binary tree *)
(* of the sudogs that are first on their address, ordered by address and,  *)
(* as a heap, by a random ticket; the others hang from them in wait lists. *)
(* Everything happens under root.lock.  A step is one round of a loop that *)
(* rotates, or a call up to such a loop.                                   *)
(***************************************************************************)
EXTENDS Naturals, Sequences, FiniteSets

CONSTANTS
  Sudogs,
  Elems,      \* the addresses that hash to the root, numbers other than 0
  Tickets,    \* the priorities to draw from, numbers other than 0
  NoSudog     \* nil

ASSUME SemaRootAssumption ==
  /\ IsFiniteSet(Sudogs) /\ NoSudog \notin Sudogs
  /\ Elems \subseteq Nat \ {0} /\ Tickets \subseteq Nat \ {0}

VARIABLES
  treap,      \* root.treap
  sudog,      \* the fields of each sudog
  phase,      \* "idle", or the loop that is running
  current     \* the sudog that it rotates

semaRootVars == <<treap, sudog, phase, current>>

Pointer == Sudogs \cup {NoSudog}

Fresh ==
  [elem |-> 0, ticket |-> 0, parent |-> NoSudog, prev |-> NoSudog, next |-> NoSudog,
   waitlink |-> NoSudog, waittail |-> NoSudog]

SemaRootTypeOK ==
  /\ treap \in Pointer
  /\ sudog \in [Sudogs -> [elem : Elems \cup {0}, ticket : Tickets \cup {0},
                           parent : Pointer, prev : Pointer, next : Pointer,
                           waitlink : Pointer, waittail : Pointer]]
  /\ phase \in {"idle", "up", "down", "panic"}
  /\ current \in Pointer

SemaRootInit ==
  /\ treap = NoSudog
  /\ sudog = [s \in Sudogs |-> Fresh]
  /\ phase = "idle"
  /\ current = NoSudog

\* The sudogs of kids get the parent p; a nil among them is passed over.
Adopted(heap, p, kids) ==
  [s \in Sudogs |-> IF s \in kids THEN [heap[s] EXCEPT !.parent = p] ELSE heap[s]]

\* The link that leads from p, or from the root, to old leads to new.
Relinked(heap, p, old, new) ==
  IF p = NoSudog THEN heap
  ELSE IF heap[p].prev = old THEN [heap EXCEPT ![p].prev = new]
  ELSE [heap EXCEPT ![p].next = new]

Top(p, new) == IF p = NoSudog THEN new ELSE treap

\* The sudogs that the search for an address comes by, until it finds the address or
\* a nil.
Path(a) ==
  LET toward == [s \in Pointer |->
        CASE s = NoSudog \/ sudog[s].elem = a -> s
          [] a < sudog[s].elem -> sudog[s].prev
          [] OTHER -> sudog[s].next]
      path[n \in 0 .. Cardinality(Sudogs)] == IF n = 0 THEN treap ELSE toward[path[n - 1]]
  IN  path

Found(a) == Path(a)[Cardinality(Sudogs)]

\* The last sudog before the nil: a new leaf goes under it.
LastBefore(a) ==
  LET path == Path(a)
      live == {n \in DOMAIN path : path[n] # NoSudog}
  IN  IF live = {} THEN NoSudog ELSE path[Cardinality(live) - 1]

-----------------------------------------------------------------------------
(* The rotations                                                           *)

\* Mutant: the middle subtree is not hung from y.
RotateRightLoses(y) ==
  LET p == sudog[y].parent
      x == sudog[y].prev
      turned == [sudog EXCEPT ![x].next = y, ![y].prev = NoSudog]
  IN  /\ sudog' = Relinked(Adopted(Adopted(turned, x, {y}), p, {x}), p, y, x)
      /\ treap' = Top(p, x)

\* (y (x a b) c) becomes (x a (y b c)).
RotateRight(y) ==
  LET p == sudog[y].parent
      x == sudog[y].prev
      b == sudog[x].next
      turned == [sudog EXCEPT ![x].next = y, ![y].prev = b]
      adopted == Adopted(Adopted(Adopted(turned, y, {b}), x, {y}), p, {x})
  IN  sudog' = Relinked(adopted, p, y, x) /\ treap' = Top(p, x)

\* (x a (y b c)) becomes (y (x a b) c).
RotateLeft(x) ==
  LET p == sudog[x].parent
      y == sudog[x].next
      b == sudog[y].prev
      turned == [sudog EXCEPT ![y].prev = x, ![x].next = b]
      adopted == Adopted(Adopted(Adopted(turned, x, {b}), y, {x}), p, {y})
  IN  sudog' = Relinked(adopted, p, x, y) /\ treap' = Top(p, y)

-----------------------------------------------------------------------------
(* queue                                                                   *)

\* new takes the place of old, the first of its address, in the treap.
Substituted(old, new, waitlink, waittail) ==
  LET o == sudog[old]
      put == [sudog EXCEPT ![new] = [o EXCEPT !.waitlink = waitlink, !.waittail = waittail]]
  IN  Relinked(Adopted(put, new, {o.prev, o.next}), o.parent, old, new)

OrElse(s, default) == IF s = NoSudog THEN default ELSE s

\* The address has waiters and s goes before them.
QueueFirst(s, t) ==
  /\ sudog' = [Substituted(t, s, t, OrElse(sudog[t].waittail, t)) EXCEPT
                 ![t].parent = NoSudog, ![t].prev = NoSudog, ![t].next = NoSudog,
                 ![t].waittail = NoSudog]
  /\ treap' = Top(sudog[t].parent, s)
  /\ UNCHANGED <<phase, current>>

\* The address has waiters and s goes after them.
QueueLast(s, t, a) ==
  /\ sudog' = [sudog EXCEPT ![s].elem = a, ![t].waittail = s,
                            ![OrElse(sudog[t].waittail, t)].waitlink = s]
  /\ UNCHANGED <<treap, phase, current>>

\* The address is new: s becomes a leaf, and goes up.
QueueLeaf(s, last, a, ticket) ==
  LET leaf == [sudog EXCEPT ![s].elem = a, ![s].ticket = ticket, ![s].parent = last] IN
  /\ sudog' = IF last = NoSudog THEN leaf
              ELSE IF a < sudog[last].elem THEN [leaf EXCEPT ![last].prev = s]
              ELSE [leaf EXCEPT ![last].next = s]
  /\ treap' = Top(last, s)
  /\ phase' = "up" /\ current' = s

Queue(s, a, lifo) ==
  /\ phase = "idle" /\ sudog[s] = Fresh
  /\ IF Found(a) = NoSudog THEN \E n \in Tickets : QueueLeaf(s, LastBefore(a), a, n)
     ELSE IF lifo THEN QueueFirst(s, Found(a))
     ELSE QueueLast(s, Found(a), a)

\* Rotate up while the parent has the greater ticket.
QueueUp ==
  LET p == sudog[current].parent IN
  /\ phase = "up"
  /\ CASE p = NoSudog \/ sudog[p].ticket <= sudog[current].ticket ->
            phase' = "idle" /\ current' = NoSudog /\ UNCHANGED <<treap, sudog>>
       [] sudog[p].prev = current -> RotateRight(p) /\ UNCHANGED <<phase, current>>
       [] sudog[p].next = current -> RotateLeft(p) /\ UNCHANGED <<phase, current>>
       [] OTHER -> phase' = "panic" /\ UNCHANGED <<treap, sudog, current>>

-----------------------------------------------------------------------------
(* dequeue.  It returns nil, and changes nothing, if nobody waits on the   *)
(* address.                                                                *)

\* The first waiter goes; the next one takes its place.
DequeueNext(a) ==
  LET s == Found(a)
      t == sudog[s].waitlink
      tail == IF sudog[t].waitlink = NoSudog THEN NoSudog ELSE sudog[s].waittail
  IN
  /\ phase = "idle" /\ s # NoSudog /\ t # NoSudog
  /\ sudog' = [Substituted(s, t, sudog[t].waitlink, tail) EXCEPT ![s] = Fresh]
  /\ treap' = Top(sudog[s].parent, t)
  /\ UNCHANGED <<phase, current>>

\* It is the only one of its address, and goes down.
DequeueLast(a) ==
  LET s == Found(a) IN
  /\ phase = "idle" /\ s # NoSudog /\ sudog[s].waitlink = NoSudog
  /\ phase' = "down" /\ current' = s
  /\ UNCHANGED <<treap, sudog>>

\* Rotate down, respecting the priorities, until s is a leaf; and remove it.
DequeueDown ==
  LET s == sudog[current] IN
  /\ phase = "down"
  /\ CASE s.prev = NoSudog /\ s.next = NoSudog ->
            /\ sudog' = [Relinked(sudog, s.parent, current, NoSudog) EXCEPT ![current] = Fresh]
            /\ treap' = Top(s.parent, NoSudog)
            /\ phase' = "idle" /\ current' = NoSudog
       [] s.prev # NoSudog /\ (s.next = NoSudog \/ sudog[s.prev].ticket < sudog[s.next].ticket) ->
            RotateRight(current) /\ UNCHANGED <<phase, current>>
       [] OTHER -> RotateLeft(current) /\ UNCHANGED <<phase, current>>

SemaRootNext ==
  \/ \E s \in Sudogs, a \in Elems, lifo \in BOOLEAN : Queue(s, a, lifo)
  \/ QueueUp
  \/ \E a \in Elems : DequeueNext(a) \/ DequeueLast(a)
  \/ DequeueDown

-----------------------------------------------------------------------------
(* Properties                                                              *)

\* The waiters that a search for the address finds, in order.
WaitersOf(a) ==
  LET link == [s \in Pointer |-> IF s = NoSudog THEN s ELSE sudog[s].waitlink]
      nth[i \in 1 .. Cardinality(Sudogs)] == IF i = 1 THEN Found(a) ELSE link[nth[i - 1]]
  IN  SelectSeq([i \in DOMAIN nth |-> nth[i]], LAMBDA s : s # NoSudog)

Treap == INSTANCE WaitQueues WITH
  queues <- IF treap = NoSudog THEN [a \in Elems |-> <<>>] ELSE [a \in Elems |-> WaitersOf(a)]

\* Outside the loops the treap is a heap on the tickets, so that a search is short,
\* every link has its way back, and a panic is never reached.
TreapOrdered ==
  /\ phase # "panic"
  /\ \A s \in Sudogs :
       /\ \A t \in {sudog[s].prev, sudog[s].next} \ {NoSudog} :
            /\ sudog[t].parent = s
            /\ phase = "idle" => sudog[s].ticket <= sudog[t].ticket
       /\ sudog[s].parent # NoSudog =>
            s \in {sudog[sudog[s].parent].prev, sudog[sudog[s].parent].next}

\* Rotations, substitutions and removals lose no waiter, of this or of another
\* address, keep the order in which dequeue finds them, and leave a treap.
ImplementsWaitQueues == Treap!Queues /\ [][TreapOrdered']_semaRootVars
=============================================================================
