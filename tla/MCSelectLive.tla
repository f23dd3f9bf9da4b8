---------------------------- MODULE MCSelectLive ----------------------------
(***************************************************************************)
(* Goroutines that call at most MaxCalls operations each: selects that     *)
(* lock the same two channels with their cases in both orders, and a close *)
(* that races with them.  A runtime lock is not fair                       *)
(* (runtime/lock_futex.go): of goroutines that contend for ever, one may   *)
(* lose for ever.  Programs that end tell whether the locks and wakeups    *)
(* themselves can leave a goroutine stuck.                                 *)
(***************************************************************************)
EXTENDS ChanClients

CONSTANT MaxCalls  \* bound on the operations of each goroutine

ASSUME MaxCallsAssumption == MaxCalls \in Nat

VARIABLE calls     \* the operations each goroutine has called

programVars == <<vars, calls>>

ProgramInit == Init /\ calls = [g \in Goroutines |-> 0]

CallNext(g) ==
  /\ calls[g] < MaxCalls
  /\ InvokeAny(g)
  /\ calls' = [calls EXCEPT ![g] = @ + 1]

ProgramNext ==
  \E g \in Goroutines :
    \/ CallNext(g)
    \/ (Run(g) \/ Commit(g)) /\ UNCHANGED calls

\* The scheduler runs every runnable goroutine, and finishes the parks it has
\* begun.
Fairness == \A g \in Goroutines : WF_vars(Run(g)) /\ WF_vars(Commit(g))

ProgramSpec == ProgramInit /\ [][ProgramNext]_programVars /\ Fairness

\* A call that has begun, or was woken, returns or goes to sleep: no select waits
\* for the lock of another that waits for its own, and no goroutine that was
\* dequeued is forgotten.
CallsSettle ==
  \A g \in Goroutines :
    (InCall(g) /\ ~Asleep(g)) ~> (pc[g] = "idle" \/ Asleep(g))

-----------------------------------------------------------------------------
(* The programs.                                                           *)

Low == 1
High == 2
TwoChans == {Low, High}
TheCap == (Low :> 0) @@ (High :> 1)

ToSend(c) == [dir |-> "send", c |-> c]
ToRecv(c) == [dir |-> "recv", c |-> c]

SelectOp(cases) == [kind |-> "select", cases |-> cases, block |-> TRUE]

CrossedOps ==
  {SelectOp(<<ToRecv(Low), ToSend(High)>>),
   SelectOp(<<ToRecv(High), ToSend(Low)>>),
   [kind |-> "close", cases |-> <<ToRecv(Low)>>, block |-> TRUE]}

Crossed == {CrossedOps}
=============================================================================
