----------------------------- MODULE FDPrograms -----------------------------
(***************************************************************************)
(* Programs over files: each goroutine makes its calls one after the other *)
(* while files become ready, deadlines pass and files are closed and their *)
(* poll descriptors reused.                                                *)
(***************************************************************************)
EXTENDS FD

CONSTANT
  Programs      \* the programs: the calls of each goroutine, in their order, and
                \* a bound on the times that files become ready

Opens(o, f) == o.kind = "open" /\ o.file = f

\* A file is opened once.
OpenedOnce(calls) ==
  \A f \in Files, g, h \in Goroutines : \A i \in DOMAIN calls[g], j \in DOMAIN calls[h] :
    Opens(calls[g][i], f) /\ Opens(calls[h][j], f) => g = h /\ i = j

ASSUME ProgramsAssumption ==
  \A p \in Programs :
    p \in [calls : [Goroutines -> Seq(Op)], ready : Nat] /\ OpenedOnce(p.calls)

VARIABLE
  program       \* what is left of the program

vars == <<pollVars, semaphoreVars, fdVars, program>>

Init ==
  /\ PollInit /\ SemaphoreInit /\ FDInit
  /\ program \in Programs

CallNext(g) ==
  /\ program.calls[g] # <<>>
  /\ Invoke(g, Head(program.calls[g]))
  /\ program' = [program EXCEPT !.calls[g] = Tail(@)]

Run(g) ==
  /\ \/ FDStep(g)
     \/ GoroutineInPoll(g, file(g)) /\ UNCHANGED <<semaphoreVars, fdVars>>
  /\ UNCHANGED program

Fire(t) ==
  TimerFires(t) /\ UNCHANGED <<semaphoreVars, fdVars, program>>

RunTimer(t) ==
  TimerProcStep(t) /\ UNCHANGED <<semaphoreVars, fdVars, program>>

RunPoller(n) ==
  PollerStep(n) /\ UNCHANGED <<semaphoreVars, fdVars, program>>

\* The world outside makes an open file ready.
Ready(f, m) ==
  /\ program.ready > 0
  /\ sysfd[f] = "open"
  /\ BecomesReady(f, m)
  /\ program' = [program EXCEPT !.ready = @ - 1]
  /\ UNCHANGED <<semaphoreVars, fdVars>>

Next ==
  \/ \E g \in Goroutines : CallNext(g) \/ Run(g)
  \/ \E t \in TimerProcs : Fire(t) \/ RunTimer(t)
  \/ \E n \in Pollers : RunPoller(n)
  \/ \E f \in Files, m \in Modes : Ready(f, m)

\* The scheduler runs every runnable goroutine and timerproc and polls the
\* network (findrunnable, sysmon).  Files need not become ready, and nothing is
\* said of when a timer fires.
Fairness ==
  /\ \A g \in Goroutines : WF_vars(Run(g))
  /\ \A t \in TimerProcs : WF_vars(RunTimer(t))
  /\ \A n \in Pollers : WF_vars(RunPoller(n))

Spec == Init /\ [][Next]_vars /\ Fairness

-----------------------------------------------------------------------------
(* Properties                                                              *)

TypeOK ==
  /\ fdmu \in [Files -> Words]
  /\ sysfd \in [Files -> {"none", "open", "closed"}]
  /\ ctx \in [Files -> PollDescs \cup {Nobody}]
  /\ seq \in [PollDescs -> Nat]
  /\ sem \in [PollDescs -> [Modes -> {"nil", "ready", "wait"} \cup Goroutines]]
  /\ deadline \in [PollDescs -> [Modes -> Int]]
  /\ permits \in [Addrs -> Nat]
  /\ owed \in [Goroutines -> [Modes -> Nat]]

\* Where a call holds the lock of its mode, and where it holds a reference.
LockedPc == {"prepare", "prepared", "syscall", "rwunlock"}
ReferencePc == LockedPc \cup {"release", "decref"}

On(f, labels) == {g \in Goroutines : fpc[g] \in labels /\ file(g) = f}

\* The goroutines that wait for the lock m of f, those for whom a wakeup is under
\* way or waiting to be taken, and those to whom a Close owes one.
LockWaiters(f, m) == {g \in On(f, {"rwsleep"}) : ioMode(g) = m}
Owed(f, m) == UNION {{g} \X (1 .. owed[g][m]) : g \in On(f, {"release"})}
Wakeups(f, m) ==
  permits[<<f, m>>]
    + Cardinality({g \in On(f, {"signal", "signal-destroy"}) : ioMode(g) = m})
    + Cardinality(Owed(f, m))

\* The word of a file tells the truth: one holder for each lock that is set, as
\* many references as calls that use the file, as many waiters as sleep without a
\* wakeup that is due to them, none of them once the file is closed; and no
\* method panics.
WordTellsTruth ==
  /\ \A g \in Goroutines : fpc[g] # "panic"
  /\ \A f \in Files :
       LET w == fdmu[f]
           holders(m) == {g \in On(f, LockedPc) : ioMode(g) = m}
       IN  /\ w.refs = Cardinality(On(f, ReferencePc))
           /\ \A m \in Modes :
                /\ Cardinality(holders(m)) = IF m \in w.locked THEN 1 ELSE 0
                /\ w.waits[m] + Wakeups(f, m) = Cardinality(LockWaiters(f, m))
           /\ w.closed => w.waits = [m \in Modes |-> 0]

\* While a call holds a reference the system descriptor is open and the poll
\* descriptor is the file's own: neither is closed, freed or given to another file
\* under its feet (fd_mutex.go:41-45); and the file is destroyed by one call.
DescriptorHeld ==
  /\ \A g \in Goroutines :
       fpc[g] \in ReferencePc =>
         /\ sysfd[file(g)] = "open"
         /\ Pollable(file(g)) => /\ pdFile[ctx[file(g)]] = file(g)
                                 /\ ctx[file(g)] \notin freeDescs
                                 /\ npc[g] # "idle" => npd[g] = ctx[file(g)]
  /\ \A f \in Files : Cardinality(On(f, {"destroy", "closefunc", "csignal"})) <= 1

\* The poller never throws: no two goroutines wait for one mode of a descriptor,
\* none is left parked on a descriptor that is closed or free, and a deadline that
\* fires is one that is set, whatever the timers and notifications that are late.
NeverThrows == \A a \in Actors : npc[a] # "throw"

Parked(g) == npc[g] = "parked" /\ \A a \in Actors : g \notin woken[a]

\* Who will look at the semaphore of p and m next.
Unblocker(p, m) ==
  \E a \in Actors : npc[a] \in {"unblock", "evict2"} /\ npd[a] = p /\ m \in todo[a]

Reported(p, m) == \E e \in epoll \cup UNION {events[n] : n \in Pollers} :
                    e.pd = p /\ e.mode = m

\* No missed wakeup in the poller: while a goroutine is parked, nothing it waits
\* for has happened, or somebody is about to tell it: who closed the file or
\* passed the deadline and holds the lock, or the edge on its way from the kernel.
ParkedForAReason ==
  \A g \in Goroutines :
    Parked(g) =>
      LET p == npd[g]  m == mode(g)
      IN  /\ sem[p][m] = g
          /\ CheckErr(p, m) = "ok" \/ Unblocker(p, m)
          /\ m \notin readable[file(g)] \/ Reported(p, m)

\* The call of g waits for something that may never happen: the file is open, it
\* has not become ready and no deadline has passed, or another such call has the
\* lock.
MayWait(g) ==
  LET f == file(g)  m == ioMode(g)
  IN  /\ ~word(g).closed \/ blocking[f]
      /\ \/ Parked(g) /\ CheckErr(npd[g], m) = "ok" /\ m \notin readable[f]
         \/ fpc[g] = "syscall" /\ blocking[f] /\ m \notin readable[f]
         \/ fpc[g] = "rwsleep" /\ m \in word(g).locked

\* The calls of a program end or wait for something that does not happen: when a
\* file is closed all its calls return, in the poller, at the locks and in Close
\* itself; no goroutine stays parked past its deadline or although its file has
\* become ready; nobody is left at a lock that is free.
CallsSettle == <>[](\A g \in Goroutines : fpc[g] = "idle" \/ MayWait(g))

\* What netpoll.go:59 and 75-76 say of seq: that it protects from stale ready
\* notifications, which may come after a descriptor is closed and reused.  A
\* descriptor is then made ready by the edges of the file it belongs to only.
StaleNotificationsDetected ==
  [][\A n \in Pollers : \A e \in events[n] :
       (e \notin events'[n] /\ pdFile[e.pd] # e.file) => UNCHANGED sem]_vars
=============================================================================
