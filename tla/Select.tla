------------------------------- MODULE Select -------------------------------
(***************************************************************************)
(* selectgo (runtime/select.go): lock every channel of the select in       *)
(* address order, look for a case that is ready (pass 1), else enqueue on  *)
(* all of them and park (pass 2); once woken lock them all again and       *)
(* dequeue from the cases that lost (pass 3).                              *)
(*                                                                         *)
(* selparkcommit gives up the locks after the goroutine is parked, one by  *)
(* one and on behalf of a goroutine that may be awake again by then.       *)
(***************************************************************************)
EXTENDS Chan

CaseChans(g) == {case.c : case \in ToSet(op[g].cases)} \ {Nil}

\* g itself holds the lock; a lock that selparkcommit has yet to give up is not
\* its own any more, and locks are not reentrant.
Holds(g, c) == chlock[c] = g /\ c \notin commit[g]

Missing(g) == {c \in CaseChans(g) : ~Holds(g, c)}

\* Mutant: the locks are taken in the order of the cases.
NextLockByCase(g) ==
  op[g].cases[Min({i \in DOMAIN op[g].cases : op[g].cases[i].c \in Missing(g)})].c

\* The lock that sellock takes next: lockorder is sorted by address.
NextLock(g) == Min(Missing(g))

\* selunlock
Unlocked(g) == [c \in Chans |-> IF chlock[c] = g THEN Nobody ELSE chlock[c]]

SelLock(g) ==
  /\ pc[g] \in {"sellock", "relock"} /\ Missing(g) # {}
  /\ chlock[NextLock(g)] = Nobody
  /\ chlock' = [chlock EXCEPT ![NextLock(g)] = g]
  /\ UNCHANGED <<ch, pc, op, selectDone, param, elem, wakes, commit, res>>

Indices(g) == DOMAIN op[g].cases
CasesAt(g, I) == {op[g].cases[i] : i \in I}
ReadyAt(g) == {i \in Indices(g) : Ready(op[g].cases[i])}

InPass1(g) == pc[g] \in {"sellock", "loop"} /\ op[g].kind = "select" /\ Missing(g) = {}

\* Pass 1 ends at the first ready case of the random poll order; the cases it
\* has examined before, any set of those that are not ready, leave no stale
\* sudogs.
SelectReady(g) ==
  /\ InPass1(g)
  /\ \E i \in ReadyAt(g), before \in SUBSET (Indices(g) \ ReadyAt(g)) :
       Proceed(g, i, Examined(CasesAt(g, before)))
  /\ chlock' = Unlocked(g)
  /\ UNCHANGED <<op, commit>>

SelectDefault(g) ==
  /\ InPass1(g) /\ ReadyAt(g) = {} /\ ~op[g].block
  /\ ch' = Examined(CasesAt(g, Indices(g)))
  /\ Finish(g, 0, "default")
  /\ chlock' = Unlocked(g)
  /\ UNCHANGED <<op, selectDone, param, elem, wakes, commit>>

\* Pass 2, up to gopark.
SelectPark(g) ==
  /\ InPass1(g) /\ ReadyAt(g) = {} /\ op[g].block
  /\ ch' = Enqueued(g, op[g].cases, Examined(CasesAt(g, Indices(g))))
  /\ Goto(g, "parked")
  /\ commit' = [commit EXCEPT ![g] = CaseChans(g)]
  /\ UNCHANGED <<chlock, op, selectDone, param, elem, wakes, res>>

\* selparkcommit, run by the scheduler: unlock the next channel of g.waiting,
\* which is in lock order.
SelParkCommit(g) ==
  /\ commit[g] # {}
  /\ LET c == Min(commit[g])
     IN  /\ chlock' = [chlock EXCEPT ![c] = Nobody]
         /\ commit' = [commit EXCEPT ![g] = @ \ {c}]
  /\ UNCHANGED <<ch, pc, op, selectDone, param, elem, wakes, res>>

SelectWake(g) ==
  /\ pc[g] = "awake" /\ op[g].kind = "select"
  /\ Goto(g, "relock")
  /\ UNCHANGED <<ch, chlock, op, selectDone, param, elem, wakes, commit, res>>

\* What is left of a queue: the sudogs at these places, in their order.
Kept(q, places) ==
  [k \in 1 .. Cardinality(places) |->
     q[CHOOSE i \in places : Cardinality({j \in places : j <= i}) = k]]

\* dequeueSudoG of every sudog of g in q but the one the waker has dequeued.
Without(g, q) ==
  Kept(q, {k \in DOMAIN q : q[k].g # g \/ q[k].case = param[g]})

\* Mutant: the sudogs of the sends that lost are left behind.
RemovedReceivers(g) ==
  [c \in Chans |-> [ch[c] EXCEPT !.recvq = Without(g, @)]]

Removed(g) ==
  [c \in Chans |-> [ch[c] EXCEPT !.sendq = Without(g, @), !.recvq = Without(g, @)]]

\* Mutant: selectDone is not reset for the next select.
SelectPass3StillDone(g) ==
  /\ pc[g] = "relock" /\ Missing(g) = {}
  /\ ch' = Removed(g)
  /\ param' = [param EXCEPT ![g] = Nil]
  /\ IF param[g] = Nil
       THEN Goto(g, "loop") /\ UNCHANGED <<chlock, res>>
       ELSE /\ Finish(g, param[g], IF op[g].cases[param[g]].dir = "send"
                                     THEN "sent" ELSE elem[g])
            /\ chlock' = Unlocked(g)
  /\ UNCHANGED <<selectDone, op, elem, wakes, commit>>

\* Pass 3.  Without a param some channel was closed: go round again, with the
\* locks held.
SelectPass3(g) ==
  /\ pc[g] = "relock" /\ Missing(g) = {}
  /\ ch' = Removed(g)
  /\ selectDone' = [selectDone EXCEPT ![g] = FALSE]
  /\ param' = [param EXCEPT ![g] = Nil]
  /\ IF param[g] = Nil
       THEN Goto(g, "loop") /\ UNCHANGED <<chlock, res>>
       ELSE /\ Finish(g, param[g], IF op[g].cases[param[g]].dir = "send"
                                     THEN "sent" ELSE elem[g])
            /\ chlock' = Unlocked(g)
  /\ UNCHANGED <<op, elem, wakes, commit>>

SelectStep(g) ==
  \/ SelLock(g)
  \/ SelectReady(g)
  \/ SelectDefault(g)
  \/ SelectPark(g)
  \/ SelectWake(g)
  \/ SelectPass3(g)
=============================================================================
