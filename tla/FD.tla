--------------------------------- MODULE FD ---------------------------------
(***************************************************************************)
(* Files of internal/poll (fd_unix.go, fd_poll_runtime.go): Init, Read,    *)
(* Write, Close and the deadlines, over the fdMutex and the network        *)
(* poller.                                                                 *)
(*                                                                         *)
(* The other system calls of an FD are like these: those that may block    *)
(* (Accept, ReadFrom, SendMsg, ...) as Read and Write, those that do not   *)
(* (Pread, Fchmod, Shutdown, ...) take a reference only.                   *)
(***************************************************************************)
EXTENDS NetPoll, SemaSpec, Sequences

CONSTANT
  CountLimit    \* 2^20 in the code: the counts of fdMutex.state wrap there

\* The counts do not wrap: a goroutine holds one reference, or waits once, at a time.
ASSUME FDAssumption ==
  /\ Addrs = Files \X (Modes \cup {"c"})
  /\ IsFiniteSet(Goroutines)
  /\ CountLimit \in Nat /\ CountLimit > Cardinality(Goroutines)

-----------------------------------------------------------------------------
(* fdMutex (fd_mutex.go): whether the file is closed, the locks of its     *)
(* readers and its writers, the references, and the goroutines that wait   *)
(* for a lock.  Each method loads the word and swaps in a new one that     *)
(* depends on the loaded word only, until the swap succeeds: it takes      *)
(* effect in one step, at the swap or at the load after which it returns.  *)
(* An operator is the new word, for those that go on; they sleep on the    *)
(* semaphores of SemaSpec, which runtime/sema.go implements.               *)

Words == [closed : BOOLEAN, locked : SUBSET Modes, refs : 0..CountLimit - 1,
          waits : [Modes -> 0..CountLimit - 1]]

NewWord == [closed |-> FALSE, locked |-> {}, refs |-> 0, waits |-> [m \in Modes |-> 0]]

\* panic("inconsistent poll.fdMutex"): a count has wrapped.
Wraps(count) == (count + 1) % CountLimit = 0

incref(w) == [w EXCEPT !.refs = @ + 1]

increfAndClose(w) ==
  [w EXCEPT !.closed = TRUE, !.refs = @ + 1, !.waits = [m \in Modes |-> 0]]

\* The lock of m is free.
rwlock(w, m) == [w EXCEPT !.locked = @ \cup {m}, !.refs = @ + 1]

\* It is not.
rwwait(w, m) == [w EXCEPT !.waits[m] = @ + 1]

decref(w) == [w EXCEPT !.refs = @ - 1]

\* Mutant: the waiter that is woken stays counted.
rwunlockUncounted(w, m) == [w EXCEPT !.locked = @ \ {m}, !.refs = @ - 1]

\* The signaller subtracts a waiter for the one it wakes.
rwunlock(w, m) ==
  [w EXCEPT !.locked = @ \ {m}, !.refs = @ - 1, !.waits[m] = IF @ > 0 THEN @ - 1 ELSE 0]

\* Mutant: any unlock destroys a closed file.
lastReferenceAny(w) == w.closed

\* Nothing refers to a closed file any more: its descriptor is destroyed.
lastReference(w) == w.closed /\ w.refs = 0

-----------------------------------------------------------------------------

VARIABLES
  fdmu,      \* fd.fdmu.state
  sysfd,     \* fd.Sysfd: "none" before Init, "open" or "closed"
  ctx,       \* fd.pd.runtimeCtx, Nobody for 0
  blocking,  \* fd.isBlocking
  fpc,       \* where each goroutine is in its call, "idle" outside one
  op,        \* the call
  owed       \* Close: the waiters of each mode that it has still to wake

fdVars == <<fdmu, sysfd, ctx, blocking, fpc, op, owed>>
fileVars == <<sysfd, ctx, blocking>>

Op == [kind : {"open", "io", "setdeadline", "misc", "close"}, file : Files,
       modes : SUBSET Modes, deadline : Int]

NoOp == [kind |-> "none", file |-> Nobody, modes |-> {}, deadline |-> 0]

FDInit ==
  /\ fdmu = [f \in Files |-> NewWord]
  /\ sysfd = [f \in Files |-> "none"]
  /\ ctx = [f \in Files |-> Nobody]
  /\ blocking = [f \in Files |-> FALSE]
  /\ fpc = [g \in Goroutines |-> "idle"]
  /\ op = [g \in Goroutines |-> NoOp]
  /\ owed = [g \in Goroutines |-> [m \in Modes |-> 0]]

file(g) == op[g].file
word(g) == fdmu[file(g)]
ioMode(g) == FirstMode(op[g].modes)
Pollable(f) == ctx[f] # Nobody

SetWord(g, w) == fdmu' = [fdmu EXCEPT ![file(g)] = w]

FGoto(g, label) == fpc' = [fpc EXCEPT ![g] = label] /\ UNCHANGED op

Done(g) ==
  /\ fpc' = [fpc EXCEPT ![g] = "idle"]
  /\ op' = [op EXCEPT ![g] = NoOp]

FirstPc ==
  [open |-> "open", io |-> "rwlock", setdeadline |-> "incref", misc |-> "incref",
   close |-> "close"]

\* A file is used after its Init.
Invoke(g, o) ==
  /\ fpc[g] = "idle"
  /\ o.kind = "open" <=> sysfd[o.file] = "none"
  /\ fpc' = [fpc EXCEPT ![g] = FirstPc[o.kind]]
  /\ op' = [op EXCEPT ![g] = o]
  /\ UNCHANGED <<fdmu, fileVars, owed, pollVars, semaphoreVars>>

-----------------------------------------------------------------------------
(* Init                                                                    *)

Open(g) ==
  /\ fpc[g] = "open"
  /\ PollOpen(g)
  /\ FGoto(g, "opening")
  /\ UNCHANGED <<fdmu, fileVars, owed, semaphoreVars>>

Opened(g) ==
  /\ fpc[g] = "opening"
  /\ Returned(g, {"ok"})
  /\ sysfd' = [sysfd EXCEPT ![file(g)] = "open"]
  /\ ctx' = [ctx EXCEPT ![file(g)] = npd[g]]
  /\ Done(g)
  /\ UNCHANGED <<fdmu, blocking, owed, semaphoreVars>>

\* The poller refused the file: the descriptor goes back.
OpenFails(g) ==
  /\ fpc[g] = "opening"
  /\ result[g] = "errno"
  /\ CallPollUnblock(g, npd[g])
  /\ FGoto(g, "unpoll")
  /\ UNCHANGED <<fdmu, fileVars, owed, semaphoreVars>>

OpenUnpoll(g) ==
  /\ fpc[g] = "unpoll"
  /\ CallPollClose(g, npd[g])
  /\ FGoto(g, "unpolled")
  /\ UNCHANGED <<fdmu, fileVars, owed, semaphoreVars>>

OpenedBlocking(g) ==
  /\ fpc[g] = "unpolled"
  /\ Returned(g, {"ok"})
  /\ sysfd' = [sysfd EXCEPT ![file(g)] = "open"]
  /\ blocking' = [blocking EXCEPT ![file(g)] = TRUE]
  /\ Done(g)
  /\ UNCHANGED <<fdmu, ctx, owed, semaphoreVars>>

-----------------------------------------------------------------------------
(* Read and Write                                                          *)

RwLock(g) ==
  /\ fpc[g] = "rwlock"
  /\ LET w == word(g)  m == ioMode(g)
     IN  \/ /\ w.closed
            /\ Done(g)
            /\ UNCHANGED <<fdmu, semaphoreVars>>
         \/ /\ ~w.closed /\ m \notin w.locked
            /\ FGoto(g, IF Wraps(w.refs) THEN "panic" ELSE "prepare")
            /\ SetWord(g, rwlock(w, m))
            /\ UNCHANGED semaphoreVars
         \/ /\ ~w.closed /\ m \in w.locked
            /\ FGoto(g, IF Wraps(w.waits[m]) THEN "panic" ELSE "rwsleep")
            /\ SetWord(g, rwwait(w, m))
            /\ Semacquire(g, <<file(g), m>>)
  /\ UNCHANGED <<fileVars, owed, pollVars>>

RwLockWake(g) ==
  /\ fpc[g] = "rwsleep"
  /\ Acquired(g, <<file(g), ioMode(g)>>)
  /\ FGoto(g, "rwlock")
  /\ UNCHANGED <<fdmu, fileVars, owed, pollVars>>

Prepare(g) ==
  /\ fpc[g] = "prepare"
  /\ IF Pollable(file(g))
       THEN CallPollReset(g, ctx[file(g)], ioMode(g)) /\ FGoto(g, "prepared")
       ELSE FGoto(g, "syscall") /\ UNCHANGED pollVars
  /\ UNCHANGED <<fdmu, fileVars, owed, semaphoreVars>>

\* Back from pollReset or pollWait: without an error, make the system call.
Prepared(g) ==
  /\ fpc[g] = "prepared"
  /\ \/ Returned(g, {"ok"}) /\ FGoto(g, "syscall")
     \/ Returned(g, {"closing", "timeout"}) /\ FGoto(g, "rwunlock")
  /\ UNCHANGED <<fdmu, fileVars, owed, semaphoreVars>>

\* The system call reads, writes, perhaps not everything, or finds that it would
\* block; on a blocking file it does block.
Syscall(g) ==
  /\ fpc[g] = "syscall"
  /\ LET f == file(g)  m == ioMode(g)
     IN  IF m \in readable[f]
           THEN /\ Consume(f, m)
                /\ \/ FGoto(g, "rwunlock")
                   \/ m = "w" /\ FGoto(g, "syscall")
           ELSE /\ Pollable(f)
                /\ CallPollWait(g, ctx[f], m)
                /\ FGoto(g, "prepared")
  /\ UNCHANGED <<fdmu, fileVars, owed, semaphoreVars>>

\* What follows the last use of the file in a call.
AfterUse(g, w) ==
  IF lastReference(w) THEN FGoto(g, "destroy")
  ELSE IF op[g].kind = "close" /\ ~blocking[file(g)] THEN FGoto(g, "csema")
  ELSE Done(g)

RwUnlock(g) ==
  /\ fpc[g] = "rwunlock"
  /\ LET w == word(g)  m == ioMode(g)
     IN  IF m \notin w.locked \/ w.refs = 0
           THEN FGoto(g, "panic") /\ UNCHANGED fdmu
           ELSE /\ SetWord(g, rwunlock(w, m))
                /\ IF w.waits[m] > 0
                     THEN FGoto(g, IF lastReference(rwunlock(w, m))
                                     THEN "signal-destroy" ELSE "signal")
                     ELSE AfterUse(g, rwunlock(w, m))
  /\ UNCHANGED <<fileVars, owed, pollVars, semaphoreVars>>

RwSignal(g) ==
  /\ fpc[g] \in {"signal", "signal-destroy"}
  /\ Semrelease(<<file(g), ioMode(g)>>)
  /\ IF fpc[g] = "signal" THEN Done(g) ELSE FGoto(g, "destroy")
  /\ UNCHANGED <<fdmu, fileVars, owed, pollVars>>

-----------------------------------------------------------------------------
(* SetDeadline, and the calls that only need the file to stay open         *)

Incref(g) ==
  /\ fpc[g] = "incref"
  /\ IF word(g).closed
       THEN Done(g) /\ UNCHANGED <<fdmu, pollVars>>
       ELSE /\ SetWord(g, incref(word(g)))
            /\ FGoto(g, IF Wraps(word(g).refs) THEN "panic" ELSE "decref")
            /\ IF op[g].kind = "setdeadline" /\ Pollable(file(g))
                 THEN CallPollSetDeadline(g, ctx[file(g)], op[g].modes, op[g].deadline)
                 ELSE UNCHANGED pollVars
  /\ UNCHANGED <<fileVars, owed, semaphoreVars>>

Decref(g) ==
  /\ fpc[g] = "decref"
  /\ Returned(g, {"ok"})
  /\ IF word(g).refs = 0
       THEN FGoto(g, "panic") /\ UNCHANGED fdmu
       ELSE SetWord(g, decref(word(g))) /\ AfterUse(g, decref(word(g)))
  /\ UNCHANGED <<fileVars, owed, semaphoreVars>>

-----------------------------------------------------------------------------
(* Close                                                                   *)

IncrefAndClose(g) ==
  /\ fpc[g] = "close"
  /\ IF word(g).closed
       THEN Done(g) /\ UNCHANGED <<fdmu, owed>>
       ELSE /\ SetWord(g, increfAndClose(word(g)))
            /\ owed' = [owed EXCEPT ![g] = word(g).waits]
            /\ FGoto(g, IF Wraps(word(g).refs) THEN "panic" ELSE "release")
  /\ UNCHANGED <<fileVars, pollVars, semaphoreVars>>

Owes(g) == {m \in Modes : owed[g][m] > 0}

\* Wake every waiter: they will see that the file is closed.
CloseRelease(g) ==
  /\ fpc[g] = "release" /\ Owes(g) # {}
  /\ Semrelease(<<file(g), FirstMode(Owes(g))>>)
  /\ owed' = [owed EXCEPT ![g][FirstMode(Owes(g))] = @ - 1]
  /\ UNCHANGED <<fdmu, fileVars, fpc, op, pollVars>>

\* Mutant: the goroutines that wait in the poller are left there.
CloseEvictNobody(g) ==
  /\ fpc[g] = "release" /\ Owes(g) = {}
  /\ FGoto(g, "decref")
  /\ UNCHANGED <<fdmu, fileVars, owed, pollVars, semaphoreVars>>

CloseEvict(g) ==
  /\ fpc[g] = "release" /\ Owes(g) = {}
  /\ IF Pollable(file(g)) THEN CallPollUnblock(g, ctx[file(g)]) ELSE UNCHANGED pollVars
  /\ FGoto(g, "decref")
  /\ UNCHANGED <<fdmu, fileVars, owed, semaphoreVars>>

CloseWait(g) ==
  /\ fpc[g] = "csema"
  /\ Semacquire(g, <<file(g), "c">>)
  /\ FGoto(g, "csleep")
  /\ UNCHANGED <<fdmu, fileVars, owed, pollVars>>

CloseReturn(g) ==
  /\ fpc[g] = "csleep"
  /\ Acquired(g, <<file(g), "c">>)
  /\ Done(g)
  /\ UNCHANGED <<fdmu, fileVars, owed, pollVars>>

\* destroy: first the poller, then the system's descriptor, then tell Close.
Destroy(g) ==
  /\ fpc[g] = "destroy"
  /\ IF Pollable(file(g)) THEN CallPollClose(g, ctx[file(g)]) ELSE UNCHANGED pollVars
  /\ FGoto(g, "closefunc")
  /\ UNCHANGED <<fdmu, fileVars, owed, semaphoreVars>>

CloseFunc(g) ==
  /\ fpc[g] = "closefunc"
  /\ Returned(g, {"ok"})
  /\ ctx' = [ctx EXCEPT ![file(g)] = Nobody]
  /\ sysfd' = [sysfd EXCEPT ![file(g)] = "closed"]
  /\ FGoto(g, "csignal")
  /\ UNCHANGED <<fdmu, blocking, owed, semaphoreVars>>

CloseSignal(g) ==
  /\ fpc[g] = "csignal"
  /\ Semrelease(<<file(g), "c">>)
  /\ IF op[g].kind = "close" /\ ~blocking[file(g)] THEN FGoto(g, "csema") ELSE Done(g)
  /\ UNCHANGED <<fdmu, fileVars, owed, pollVars>>

-----------------------------------------------------------------------------

FDStep(g) ==
  \/ Open(g) \/ Opened(g) \/ OpenFails(g) \/ OpenUnpoll(g) \/ OpenedBlocking(g)
  \/ RwLock(g) \/ RwLockWake(g) \/ Prepare(g) \/ Prepared(g) \/ Syscall(g)
  \/ RwUnlock(g) \/ RwSignal(g)
  \/ Incref(g) \/ Decref(g)
  \/ IncrefAndClose(g) \/ CloseRelease(g) \/ CloseEvict(g) \/ CloseWait(g) \/ CloseReturn(g)
  \/ Destroy(g) \/ CloseFunc(g) \/ CloseSignal(g)
=============================================================================
