------------------------------ MODULE NetPoll ------------------------------
(***************************************************************************)
(* The network poller (runtime/netpoll.go over netpoll_epoll.go): the      *)
(* descriptors that park goroutines until their file is ready, closed or   *)
(* past its deadline.                                                      *)
(*                                                                         *)
(* A step is one access to the words that are used without pd.lock (rg,    *)
(* wg, closing, rd, wd).  A read of closing and then of the deadline is    *)
(* one step, since deadlines do not change while a descriptor is closing.  *)
(* Deadlines are the small numbers of a program, -1 for one that has       *)
(* passed; the time is left out, so an armed timer may fire at any moment. *)
(* Each actor (a goroutine, a timerproc, a thread in netpoll) has at most  *)
(* one call in progress.                                                   *)
(***************************************************************************)
EXTENDS Program, Integers, FiniteSets

CONSTANTS
  Files,        \* the open files, each with its system descriptor
  PollDescs,    \* the descriptors of the poll cache
  TimerProcs,   \* the timerproc goroutines, one for each bucket of timers
  Pollers,      \* the threads that may be in netpoll at the same time
  Nobody        \* the absence of an actor, and of a file

Actors == Goroutines \cup TimerProcs \cup Pollers

\* What pd.rg and pd.wg tell apart from goroutines, and actors from one another.
ASSUME PollAssumption ==
  /\ Nobody \notin Actors /\ Nobody \notin Files /\ Nobody \notin PollDescs
  /\ Goroutines \cap (TimerProcs \cup Pollers) = {} /\ TimerProcs \cap Pollers = {}
  /\ {"nil", "ready", "wait"} \cap Goroutines = {}
  /\ PollDescs # {}

\* The two modes of I/O, 'r' and 'w'.
Modes == {"r", "w"}

\* Of several modes r is dealt with first.
FirstMode(modes) == IF "r" \in modes THEN "r" ELSE "w"

VARIABLES
  pdFile,       \* pd.fd; Nobody while the descriptor is free
  closing,      \* pd.closing
  seq,          \* pd.seq
  sem,          \* pd.rg and pd.wg: "nil", "ready", "wait" or the parked goroutine
  deadline,     \* pd.rd and pd.wd
  timer,        \* pd.rt and pd.wt
  pdLock,       \* the actor that holds pd.lock, or Nobody
  freeDescs,    \* pollcache
  readable,     \* the kernel: a system call of this mode would not block
  registered,   \* the kernel: the descriptor epoll reports for the file, or Nobody
  epoll,        \* the kernel: the edges not yet reported
  npc,          \* where each actor is in its call, "idle" outside one
  npd,          \* the descriptor of the call
  todo,         \* the modes the call has still to deal with
  when,         \* the deadline argument, or the seq argument of a timer function
  events,       \* the edges epollwait has returned to a poller
  woken,        \* goroutines to be made runnable after the unlock
  result        \* what the call of a goroutine returned

pollVars ==
  <<pdFile, closing, seq, sem, deadline, timer, pdLock, freeDescs, readable, registered,
    epoll, npc, npd, todo, when, events, woken, result>>
descVars == <<pdFile, closing, seq, sem, deadline, timer, pdLock, freeDescs>>
kernelVars == <<readable, registered, epoll>>
callVars == <<npc, npd, todo, when, events, woken, result>>

\* An armed timer runs its function, which expires the modes in f; f = {} is nil.
NoTimer == [f |-> {}, armed |-> FALSE, seq |-> 0]

\* The descriptors are on the free list, never used.
PollInit ==
  /\ pdFile = [p \in PollDescs |-> Nobody]
  /\ closing = [p \in PollDescs |-> FALSE]
  /\ seq = [p \in PollDescs |-> 0]
  /\ sem = [p \in PollDescs |-> [m \in Modes |-> "nil"]]
  /\ deadline = [p \in PollDescs |-> [m \in Modes |-> 0]]
  /\ timer = [p \in PollDescs |-> [m \in Modes |-> NoTimer]]
  /\ pdLock = [p \in PollDescs |-> Nobody]
  /\ freeDescs = PollDescs
  /\ readable = [f \in Files |-> {}]
  /\ registered = [f \in Files |-> Nobody]
  /\ epoll = {}
  /\ npc = [a \in Actors |-> "idle"]
  /\ npd = [a \in Actors |-> CHOOSE p \in PollDescs : TRUE]
  /\ todo = [a \in Actors |-> {}]
  /\ when = [a \in Actors |-> 0]
  /\ events = [a \in Pollers |-> {}]
  /\ woken = [a \in Actors |-> {}]
  /\ result = [g \in Goroutines |-> "ok"]

-----------------------------------------------------------------------------
(* Calls: a caller conjoins one of these with the step that makes the      *)
(* call; the call has returned when npc is "idle" again.                   *)

CallPoll(g, entry, p, modes, d) ==
  /\ npc[g] = "idle"
  /\ npc' = [npc EXCEPT ![g] = entry]
  /\ npd' = [npd EXCEPT ![g] = p]
  /\ todo' = [todo EXCEPT ![g] = modes]
  /\ when' = [when EXCEPT ![g] = d]
  /\ UNCHANGED <<descVars, kernelVars, events, woken, result>>

CallPollReset(g, p, m) == CallPoll(g, "reset", p, {m}, 0)
CallPollWait(g, p, m) == CallPoll(g, "wait", p, {m}, 0)
CallPollSetDeadline(g, p, modes, d) == CallPoll(g, "setdeadline", p, modes, d)
CallPollUnblock(g, p) == CallPoll(g, "evict", p, Modes, 0)
CallPollClose(g, p) == CallPoll(g, "close", p, {}, 0)

NGoto(a, label) ==
  /\ npc' = [npc EXCEPT ![a] = label]
  /\ UNCHANGED <<npd, todo, when, result>>

\* Return from the call; its arguments are dead.
PollReturn(g, r) ==
  /\ npc' = [npc EXCEPT ![g] = "idle"]
  /\ result' = [result EXCEPT ![g] = r]
  /\ todo' = [todo EXCEPT ![g] = {}]
  /\ when' = [when EXCEPT ![g] = 0]
  /\ UNCHANGED npd

\* The caller reads the result.
Returned(g, rs) ==
  /\ npc[g] = "idle" /\ result[g] \in rs
  /\ result' = [result EXCEPT ![g] = "ok"]
  /\ UNCHANGED <<descVars, kernelVars, npc, npd, todo, when, events, woken>>

\* The mode that a call works on next.
mode(g) == FirstMode(todo[g])

-----------------------------------------------------------------------------
(* Waiting for readiness.                                                  *)

\* netpollcheckerr
CheckErr(p, m) ==
  IF closing[p] THEN "closing" ELSE IF deadline[p][m] < 0 THEN "timeout" ELSE "ok"

SetSem(p, m, s) == sem' = [sem EXCEPT ![p][m] = s]

PollReset(g) ==
  /\ npc[g] = "reset"
  /\ LET err == CheckErr(npd[g], mode(g))
     IN  IF err = "ok" THEN NGoto(g, "reset2") ELSE PollReturn(g, err)
  /\ UNCHANGED <<descVars, kernelVars, events, woken>>

PollResetStore(g) ==
  /\ npc[g] = "reset2"
  /\ SetSem(npd[g], mode(g), "nil")
  /\ PollReturn(g, "ok")
  /\ UNCHANGED <<pdFile, closing, seq, deadline, timer, pdLock, freeDescs, kernelVars,
                 events, woken>>

\* The check before each netpollblock.
PollWait(g) ==
  /\ npc[g] = "wait"
  /\ LET err == CheckErr(npd[g], mode(g))
     IN  IF err = "ok" THEN NGoto(g, "block") ELSE PollReturn(g, err)
  /\ UNCHANGED <<descVars, kernelVars, events, woken>>

\* netpollblock announces that the goroutine is going to wait, or consumes a
\* notification.
NetpollBlock(g) ==
  /\ npc[g] = "block"
  /\ LET s == sem[npd[g]][mode(g)]
     IN  \/ /\ s = "ready"
            /\ SetSem(npd[g], mode(g), "nil")
            /\ PollReturn(g, "ok")
         \/ /\ s = "nil"
            /\ SetSem(npd[g], mode(g), "wait")
            /\ NGoto(g, "recheck")
         \/ /\ s \notin {"ready", "nil"}   \* throw("runtime: double wait")
            /\ NGoto(g, "throw")
            /\ UNCHANGED sem
  /\ UNCHANGED <<pdFile, closing, seq, deadline, timer, pdLock, freeDescs, kernelVars,
                 events, woken>>

\* Mutant: the error states are not looked at again.
NetpollRecheckNot(g) ==
  /\ npc[g] = "recheck"
  /\ NGoto(g, "commit")
  /\ UNCHANGED <<descVars, kernelVars, events, woken>>

NetpollRecheck(g) ==
  /\ npc[g] = "recheck"
  /\ NGoto(g, IF CheckErr(npd[g], mode(g)) = "ok" THEN "commit" ELSE "resume")
  /\ UNCHANGED <<descVars, kernelVars, events, woken>>

\* gopark runs netpollblockcommit, after the goroutine has stopped: it parks if
\* nobody has come in between.
NetpollBlockCommit(g) ==
  /\ npc[g] = "commit"
  /\ IF sem[npd[g]][mode(g)] = "wait"
       THEN SetSem(npd[g], mode(g), g) /\ NGoto(g, "parked")
       ELSE NGoto(g, "resume") /\ UNCHANGED sem
  /\ UNCHANGED <<pdFile, closing, seq, deadline, timer, pdLock, freeDescs, kernelVars,
                 events, woken>>

\* The exchange at the end of netpollblock; pollWait starts over if it was for
\* nothing.
NetpollResume(g) ==
  /\ npc[g] = "resume"
  /\ LET s == sem[npd[g]][mode(g)]
     IN  \/ /\ s \in Goroutines            \* throw("runtime: corrupted polldesc")
            /\ NGoto(g, "throw")
         \/ s = "ready" /\ PollReturn(g, "ok")
         \/ s \in {"nil", "wait"} /\ NGoto(g, "wait")
  /\ SetSem(npd[g], mode(g), "nil")
  /\ UNCHANGED <<pdFile, closing, seq, deadline, timer, pdLock, freeDescs, kernelVars,
                 events, woken>>

-----------------------------------------------------------------------------
(* Ending a wait.                                                          *)

\* netpollunblock: what it swaps in for s, and whom it returns.
Unblocked(s, ioready) ==
  IF s = "ready" \/ (s = "nil" /\ ~ioready) THEN s
  ELSE IF ioready THEN "ready" ELSE "nil"

Waiter(s) == {s} \cap Goroutines

NetpollUnblock(a, p, m, ioready) ==
  /\ SetSem(p, m, Unblocked(sem[p][m], ioready))
  /\ woken' = [woken EXCEPT ![a] = @ \cup Waiter(sem[p][m])]

\* Under the lock: the modes in todo one after the other.  pollUnblock removes
\* the timers; a timer function marks the next deadline first.  The caller goes
\* on to make the waiters runnable after the unlock.
Unblock(a) ==
  /\ npc[a] \in {"unblock", "evict2"}
  /\ LET p == npd[a]  rest == todo[a] \ {mode(a)}
     IN  /\ NetpollUnblock(a, p, mode(a), FALSE)
         /\ todo' = [todo EXCEPT ![a] = rest]
         /\ npc' = [npc EXCEPT ![a] = IF rest = {} THEN "ready"
                                     ELSE IF a \in TimerProcs THEN "expire" ELSE @]
         /\ pdLock' = IF rest = {} THEN [pdLock EXCEPT ![p] = Nobody] ELSE pdLock
         /\ timer' = IF rest = {} /\ npc[a] = "evict2"
                       THEN [timer EXCEPT ![p] = [m \in Modes |-> NoTimer]] ELSE timer
  /\ UNCHANGED <<pdFile, closing, seq, deadline, freeDescs, kernelVars,
                 npd, when, events, result>>

\* netpollgoready, or the injection of the list netpoll has returned.
NetpollGoready(a) ==
  /\ npc[a] = "ready"
  /\ npc' = [b \in Actors |-> IF b \in woken[a] THEN "resume"
                              ELSE IF b = a THEN "idle" ELSE npc[b]]
  /\ woken' = [woken EXCEPT ![a] = {}]
  /\ when' = [when EXCEPT ![a] = 0]
  /\ UNCHANGED <<descVars, kernelVars, npd, todo, events, result>>

Locked(p) == pdLock[p] # Nobody

\* The timers for a pair of deadlines: one for both if they are the same.
TimersFor(dl, s) ==
  LET set(fs) == [f |-> fs, armed |-> TRUE, seq |-> s]
      own(m) == IF dl[m] > 0 THEN set({m}) ELSE NoTimer
  IN  IF dl["r"] > 0 /\ dl["r"] = dl["w"]
        THEN [m \in Modes |-> IF m = "r" THEN set(Modes) ELSE NoTimer]
        ELSE [m \in Modes |-> own(m)]

PollSetDeadline(g) ==
  /\ npc[g] = "setdeadline"
  /\ ~Locked(npd[g])
  /\ LET p == npd[g]
         dl == [m \in Modes |-> IF m \in todo[g] THEN when[g] ELSE deadline[p][m]]
         past == {m \in Modes : dl[m] < 0}
     IN  IF closing[p]
           THEN PollReturn(g, "ok") /\ UNCHANGED <<seq, deadline, timer, pdLock>>
           ELSE /\ seq' = [seq EXCEPT ![p] = @ + 1]
                /\ deadline' = [deadline EXCEPT ![p] = dl]
                /\ timer' = [timer EXCEPT ![p] = TimersFor(dl, seq[p] + 1)]
                /\ IF past = {} THEN PollReturn(g, "ok") /\ UNCHANGED pdLock
                   ELSE /\ npc' = [npc EXCEPT ![g] = "unblock"]
                        /\ todo' = [todo EXCEPT ![g] = past]
                        /\ pdLock' = [pdLock EXCEPT ![p] = g]
                        /\ UNCHANGED <<npd, when, result>>
  /\ UNCHANGED <<pdFile, closing, sem, freeDescs, kernelVars, events, woken>>

PollUnblock(g) ==
  /\ npc[g] = "evict"
  /\ ~Locked(npd[g])
  /\ IF closing[npd[g]]                    \* throw("runtime: unblock on closing polldesc")
       THEN NGoto(g, "throw") /\ UNCHANGED <<closing, seq, pdLock>>
       ELSE /\ closing' = [closing EXCEPT ![npd[g]] = TRUE]
            /\ seq' = [seq EXCEPT ![npd[g]] = @ + 1]
            /\ pdLock' = [pdLock EXCEPT ![npd[g]] = g]
            /\ NGoto(g, "evict2")
  /\ UNCHANGED <<pdFile, sem, deadline, timer, freeDescs, kernelVars,
                 events, woken>>

\* A timerproc takes a timer out of its bucket; pd.lock is not held.
TimerFires(t) ==
  /\ npc[t] = "idle"
  /\ \E p \in PollDescs, m \in Modes :
       /\ timer[p][m].armed
       /\ timer' = [timer EXCEPT ![p][m].armed = FALSE]
       /\ npc' = [npc EXCEPT ![t] = "deadline"]
       /\ npd' = [npd EXCEPT ![t] = p]
       /\ todo' = [todo EXCEPT ![t] = timer[p][m].f]
       /\ when' = [when EXCEPT ![t] = timer[p][m].seq]
  /\ UNCHANGED <<pdFile, closing, seq, sem, deadline, pdLock, freeDescs, kernelVars,
                 events, woken, result>>

\* Mutant: the seq argument is not compared.
StaleTimerNever(t) == FALSE

\* The timer was set before the deadlines changed, or for another file.
StaleTimer(t) == when[t] # seq[npd[t]]

\* netpolldeadlineimpl takes the lock.
DeadlineImpl(t) ==
  /\ npc[t] = "deadline"
  /\ ~Locked(npd[t])
  /\ IF StaleTimer(t)
       THEN /\ npc' = [npc EXCEPT ![t] = "idle"]
            /\ todo' = [todo EXCEPT ![t] = {}]
            /\ when' = [when EXCEPT ![t] = 0]
            /\ UNCHANGED <<npd, result, pdLock>>
       ELSE NGoto(t, "expire") /\ pdLock' = [pdLock EXCEPT ![npd[t]] = t]
  /\ UNCHANGED <<pdFile, closing, seq, sem, deadline, timer, freeDescs, kernelVars,
                 events, woken>>

\* The timer that expires m is still set: its own, or that of both.
TimerSet(p, m) == \E n \in Modes : m \in timer[p][n].f

\* Marks the deadline of the next mode as passed.
Expire(t) ==
  /\ npc[t] = "expire"
  /\ LET p == npd[t]  m == mode(t)
     IN  IF deadline[p][m] <= 0 \/ ~TimerSet(p, m)   \* throw("... inconsistent deadline")
           THEN NGoto(t, "throw") /\ UNCHANGED <<deadline, timer>>
           ELSE /\ deadline' = [deadline EXCEPT ![p][m] = -1]
                /\ timer' = [timer EXCEPT ![p] =
                               [n \in Modes |-> [timer[p][n] EXCEPT !.f = @ \ {m}]]]
                /\ NGoto(t, "unblock")
  /\ UNCHANGED <<pdFile, closing, seq, sem, pdLock, freeDescs, kernelVars,
                 events, woken>>

-----------------------------------------------------------------------------
(* The life of a descriptor.                                               *)

Blocked(p) == \E m \in Modes : sem[p][m] \notin {"nil", "ready"}

\* pollcache.alloc; the cache grows when it is empty, so that a program is
\* given as many descriptors as its open files can take up.
PollOpen(g) ==
  /\ npc[g] = "idle"
  /\ \E p \in freeDescs :
       /\ freeDescs' = freeDescs \ {p}
       /\ npd' = [npd EXCEPT ![g] = p]
  /\ npc' = [npc EXCEPT ![g] = "open"]
  /\ UNCHANGED <<pdFile, closing, seq, sem, deadline, timer, pdLock, kernelVars,
                 todo, when, events, woken, result>>

PollOpenReset(g, f) ==
  /\ npc[g] = "open"
  /\ ~Locked(npd[g])
  /\ LET p == npd[g]
     IN  IF Blocked(p)                     \* throw("... blocked ... on free polldesc")
           THEN NGoto(g, "throw") /\ UNCHANGED <<pdFile, closing, seq, sem, deadline>>
           ELSE /\ pdFile' = [pdFile EXCEPT ![p] = f]
                /\ closing' = [closing EXCEPT ![p] = FALSE]
                /\ seq' = [seq EXCEPT ![p] = @ + 1]
                /\ sem' = [sem EXCEPT ![p] = [m \in Modes |-> "nil"]]
                /\ deadline' = [deadline EXCEPT ![p] = [m \in Modes |-> 0]]
                /\ NGoto(g, "register")
  /\ UNCHANGED <<timer, pdLock, freeDescs, kernelVars, events, woken>>

Edge(p, m, f) == [pd |-> p, mode |-> m, file |-> f]

\* netpollopen: what the file is ready for already is an edge too.  epoll may
\* refuse the file.
PollOpenRegister(g) ==
  /\ npc[g] = "register"
  /\ LET p == npd[g]  f == pdFile[p]
     IN  \/ /\ registered' = [registered EXCEPT ![f] = p]
            /\ epoll' = epoll \cup {Edge(p, m, f) : m \in readable[f]}
            /\ PollReturn(g, "ok")
         \/ PollReturn(g, "errno") /\ UNCHANGED <<registered, epoll>>
  /\ UNCHANGED <<descVars, readable, events, woken>>

\* pollClose checks the descriptor and removes the file from epoll, and with it
\* the edges that were not reported yet.
PollClose(g) ==
  /\ npc[g] = "close"
  /\ LET p == npd[g]  f == pdFile[p]
     IN  IF ~closing[p] \/ Blocked(p)      \* throw("... close polldesc w/o unblock", ...)
           THEN NGoto(g, "throw") /\ UNCHANGED <<registered, epoll>>
           ELSE /\ registered' = [registered EXCEPT ![f] = Nobody]
                /\ epoll' = {e \in epoll : e.file # f}
                /\ NGoto(g, "free")
  /\ UNCHANGED <<descVars, readable, events, woken>>

\* pollcache.free
PollFree(g) ==
  /\ npc[g] = "free"
  /\ freeDescs' = freeDescs \cup {npd[g]}
  /\ pdFile' = [pdFile EXCEPT ![npd[g]] = Nobody]
  /\ PollReturn(g, "ok")
  /\ UNCHANGED <<closing, seq, sem, deadline, timer, pdLock, kernelVars,
                 events, woken>>

-----------------------------------------------------------------------------
(* netpoll                                                                 *)

\* The kernel: a file becomes ready for a mode, which is an edge if it is
\* registered.
BecomesReady(f, m) ==
  /\ m \notin readable[f]
  /\ readable' = [readable EXCEPT ![f] = @ \cup {m}]
  /\ epoll' = epoll \cup {Edge(p, m, f) : p \in {registered[f]} \cap PollDescs}
  /\ UNCHANGED <<descVars, registered, callVars>>

\* A system call of g takes what made the file ready.
Consume(f, m) ==
  /\ readable' = [readable EXCEPT ![f] = @ \ {m}]
  /\ UNCHANGED <<descVars, registered, epoll, callVars>>

EpollWait(n) ==
  /\ npc[n] = "idle"
  /\ epoll # {}
  /\ events' = [events EXCEPT ![n] = epoll]
  /\ epoll' = {}
  /\ NGoto(n, "events")
  /\ UNCHANGED <<descVars, readable, registered, woken>>

\* netpollready, without the lock.
NetpollReady(n) ==
  /\ npc[n] = "events"
  /\ \E e \in events[n] :
       /\ NetpollUnblock(n, e.pd, e.mode, TRUE)
       /\ events' = [events EXCEPT ![n] = @ \ {e}]
  /\ NGoto(n, IF events'[n] = {} THEN "ready" ELSE "events")
  /\ UNCHANGED <<pdFile, closing, seq, deadline, timer, pdLock, freeDescs, kernelVars>>

-----------------------------------------------------------------------------

GoroutineInPoll(g, f) ==
  \/ PollOpenReset(g, f)
  \/ PollReset(g) \/ PollResetStore(g)
  \/ PollWait(g) \/ NetpollBlock(g) \/ NetpollRecheck(g) \/ NetpollBlockCommit(g)
  \/ NetpollResume(g)
  \/ PollSetDeadline(g) \/ PollUnblock(g) \/ Unblock(g) \/ NetpollGoready(g)
  \/ PollOpenRegister(g) \/ PollClose(g) \/ PollFree(g)

TimerProcStep(t) == DeadlineImpl(t) \/ Expire(t) \/ Unblock(t) \/ NetpollGoready(t)

PollerStep(n) == EpollWait(n) \/ NetpollReady(n) \/ NetpollGoready(n)
=============================================================================
