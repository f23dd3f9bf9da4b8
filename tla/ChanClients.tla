---------------------------- MODULE ChanClients ----------------------------
(***************************************************************************)
(* Goroutines that call the channel operations of a program in any order   *)
(* and for ever, and what chan.go and select.go promise them.              *)
(***************************************************************************)
EXTENDS Select

CONSTANT Programs  \* the programs, each the set of operations called in it

ASSUME ProgramsAssumption == \A p \in Programs : \A o \in p : IsOp(o)

VARIABLES
  program,  \* the program that runs
  missed    \* history: the operation under way was not ready at some moment of it

vars == <<chanVars, program, missed>>

Init ==
  /\ ChanInit
  /\ program \in Programs
  /\ missed = [g \in Goroutines |-> FALSE]

InCall(g) == pc[g] \notin {"idle", "done"}

\* A non-blocking operation that could do nothing at this moment.
NotReady(g) == InCall(g) /\ ~op[g].block /\ ReadyAt(g) = {}

Observe ==
  /\ missed' = [g \in Goroutines |->
                  pc'[g] # "idle" /\ (missed[g] \/ NotReady(g)')]
  /\ UNCHANGED program

Run(g) ==
  /\ \/ ChanStep(g)
     \/ SelectStep(g)
  /\ Observe

\* The scheduler's part of a park, on behalf of g.
Commit(g) == SelParkCommit(g) /\ Observe

InvokeAny(g) == (\E o \in program : Invoke(g, o)) /\ Observe

Next == \E g \in Goroutines : InvokeAny(g) \/ Run(g) \/ Commit(g)

Spec == Init /\ [][Next]_vars

-----------------------------------------------------------------------------
(* Properties                                                              *)

TypeOK == ChanTypeOK /\ missed \in [Goroutines -> BOOLEAN]

Dequeued(g) == \E h \in Goroutines : g \in wakes[h]

\* g sleeps, and nobody has dequeued it yet.
Asleep(g) == pc[g] = "parked" /\ ~Dequeued(g)

\* No lost rendezvous: while a goroutine sleeps none of its cases could proceed.
\* Whoever makes one ready (a sender, a receiver, a close, a slot that becomes
\* free) has dequeued the goroutine in the same critical section, whatever
\* selects race for it.
SleepersBlocked ==
  \A g \in Goroutines : Asleep(g) =>
    /\ \A i \in Indices(g) :
         LET case == op[g].cases[i] IN
         case.c # Nil =>
           /\ ~ch[case.c].closed
           /\ case.dir = "send" => ch[case.c].qcount = Cap[case.c]
           /\ case.dir = "recv" => ch[case.c].qcount = 0
           /\ \A s \in ToSet(ch[case.c][Field[Other[case.dir]]]) : s.g = g \/ ~Live(s)
           /\ \E s \in ToSet(ch[case.c][Field[case.dir]]) : s.g = g /\ s.case = i /\ Live(s)

\* The sudogs in a queue of c, each queued once, and who they belong to.
Owned(c, dir) ==
  LET q == ch[c][Field[dir]] IN
  \A k \in DOMAIN q :
    /\ pc[q[k].g] \in {"parked", "awake", "relock"}
    /\ Live(q[k]) => Asleep(q[k].g)
    /\ op[q[k].g].cases[q[k].case] = [dir |-> dir, c |-> c]
    /\ \A l \in DOMAIN q : q[l] = q[k] => l = k

\* No goroutine is left in a queue once its operation is over: a sudog belongs
\* to a call still asleep, or to a select that lost the race on this channel and
\* has not relocked it yet; and it is queued once, under its own case.  A select
\* that is awake again has not run past the locks that its own park has yet to
\* give up, and whose channels selparkcommit reads from its sudogs.
SudogsOwned ==
  /\ \A c \in Chans, dir \in {"send", "recv"} : Owned(c, dir)
  /\ \A g \in Goroutines : commit[g] # {} => pc[g] \in {"parked", "awake", "relock"}

\* The invariants of chan.go:9-18, stale sudogs included, with the indices in the
\* circular buffer.
QueueShape ==
  /\ TypeOK
  /\ \A c \in Chans :
       LET waiters == {s.g : s \in ToSet(ch[c].sendq) \cup ToSet(ch[c].recvq)} IN
       /\ ch[c].sendq # <<>> /\ ch[c].recvq # <<>> =>
            Cap[c] = 0 /\ \E g \in Goroutines : waiters = {g}
       /\ Cap[c] > 0 /\ ch[c].qcount > 0 => ch[c].recvq = <<>>
       /\ ch[c].qcount < Cap[c] => ch[c].sendq = <<>>

\* goready is called once for each sleep, on a goroutine that still sleeps, and for
\* a select only by the winner of the race on selectDone.
ReadyOnce ==
  \A g, h \in Goroutines : h \in wakes[g] =>
    /\ pc[h] = "parked"
    /\ \A f \in Goroutines : h \in wakes[f] => f = g
    /\ op[h].kind = "select" => selectDone[h]

\* Nobody is woken twice or for nothing: a select woken without a case (select.go:454-461)
\* has a case that is ready when it goes round again, and does not park a second
\* time; and a send woken without its sudog never throws "spurious wakeup".
WokenForAReason ==
  /\ ReadyOnce
  /\ \A g \in Goroutines : pc[g] = "loop" => ReadyAt(g) # {}
  /\ \A g \in Goroutines : pc[g] # "throw"

UnbufferedSend(g) ==
  /\ op[g].kind = "chan" /\ theCase(g).dir = "send"
  /\ theCase(g).c # Nil /\ Cap[theCase(g).c] = 0

\* A non-blocking operation gives up only if at some moment of the call it could do
\* nothing (chan.go:159-166 and 429-440), or is a send that raced with the close of
\* an unbuffered channel: it may have seen the channel open and, after closechan
\* has emptied recvq, without a receiver.
DefaultJustified ==
  \A g \in Goroutines : res[g] = Default =>
    missed[g] \/ (UnbufferedSend(g) /\ ch[theCase(g).c].closed)

-----------------------------------------------------------------------------
(* The inductive invariant behind these properties.                        *)

\* Where a goroutine is fits what it calls, and it has a result only at the end.
PlaceInv ==
  \A g \in Goroutines :
    /\ pc[g] = "idle" <=> op[g] = NoOp
    /\ pc[g] \in {"fast", "fast2"} => op[g].kind = "chan" /\ ~op[g].block
    /\ pc[g] = "fast2" => theCase(g).c # Nil
    /\ pc[g] = "lock" => op[g].kind # "select"
    /\ pc[g] \in {"sellock", "loop", "relock"} => op[g].kind = "select"
    /\ pc[g] \in {"parked", "awake", "loop", "relock"} =>
         op[g].kind # "close" /\ op[g].block
    /\ pc[g] # "done" => res[g] = NoResult /\ wakes[g] = {}
    /\ commit[g] # {} => op[g].kind = "select" /\ commit[g] \subseteq CaseChans(g)

\* A sudog is a case of its goroutine's call.
SudogInv ==
  \A c \in Chans, dir \in {"send", "recv"} :
    \A s \in ToSet(ch[c][Field[dir]]) :
      /\ s = SudogOf(s.g, s.case) /\ s.case \in Indices(s.g)
      /\ s.case # param[s.g]
      /\ op[s.g].kind # "close"

\* Some waker has dequeued a sudog of g, and g has not looked for it yet.
Woken(g) == pc[g] \in {"awake", "relock"} \/ (pc[g] = "parked" /\ Dequeued(g))

SawClosed(g) ==
  \E i \in Indices(g) :
    LET c == op[g].cases[i].c IN c # Nil /\ ch[c].closed

\* selectDone stands for the wakeup; a wakeup without a case is that of a close.
WakeInv ==
  \A g \in Goroutines :
    /\ selectDone[g] <=> op[g].kind = "select" /\ Woken(g)
    /\ param[g] # Nil => Woken(g) /\ param[g] \in Indices(g)
    /\ Woken(g) /\ param[g] = Nil => SawClosed(g)
    /\ pc[g] = "loop" => SawClosed(g)

\* What the two reads without the lock leave true.
FastInv ==
  \A g \in Goroutines :
    LET c == theCase(g).c IN
    /\ NotReady(g) => missed[g]
    /\ pc[g] = "fast2" /\ theCase(g).dir = "recv" => missed[g] \/ ch[c].closed
    /\ pc[g] = "fast2" /\ theCase(g).dir = "send" /\ Cap[c] > 0
           /\ ch[c].closed /\ ch[c].qcount = Cap[c] => missed[g]

ChanInv ==
  /\ QueueShape /\ program \in Programs
  /\ PlaceInv /\ SudogInv /\ SudogsOwned /\ WakeInv /\ WokenForAReason
  /\ SleepersBlocked /\ FastInv /\ DefaultJustified

\* The free slots of the circular buffer begin where the values end.
RingInv ==
  \A c \in Chans :
    Cap[c] > 0 => ch[c].sendx = (ch[c].recvx + ch[c].qcount) % Cap[c]

\* A receiver that a close has woken finds nothing in the buffer.
WokenEmptyInv ==
  \A g \in Goroutines :
    Woken(g) /\ param[g] = Nil /\ op[g].kind = "chan" /\ theCase(g).dir = "recv" =>
      ch[theCase(g).c].qcount = 0

\* What the refinement of ChanSpec needs besides ChanInv.
RefineInv == ChanInv /\ RingInv /\ WokenEmptyInv

-----------------------------------------------------------------------------
(* The channels implement ChanSpec.                                        *)

\* A slot of the circular buffer, counted from the oldest value.
SpecQueue(c) ==
  [i \in 1 .. ch[c].qcount |-> ch[c].buf[(ch[c].recvx + i - 1) % Cap[c]]]

\* An operation has taken effect when it has its result, or when another
\* goroutine has completed its sudog.
SpecStatus(g) ==
  CASE pc[g] = "idle" -> [phase |-> "idle"]
    [] pc[g] = "done" -> [phase |-> "done", op |-> op[g], res |-> res[g]]
    [] OTHER ->
         IF param[g] # Nil
           THEN [phase |-> "done", op |-> op[g],
                 res |-> <<param[g], IF op[g].cases[param[g]].dir = "send"
                                       THEN "sent" ELSE elem[g]>>]
           ELSE [phase |-> IF Asleep(g) THEN "parked" ELSE "called", op |-> op[g]]

Abstract == INSTANCE ChanSpec WITH
  Ops    <- UNION Programs,
  queue  <- [c \in Chans |-> SpecQueue(c)],
  closed <- {c \in Chans : ch[c].closed},
  status <- [g \in Goroutines |-> SpecStatus(g)]

\* Each step of the implementation is one step of the abstract channels, or none
\* of their business: values are neither lost, duplicated nor reordered, and
\* the two ends of a rendezvous agree.
ImplementsChanSpec == Abstract!AbstractSpec
=============================================================================
