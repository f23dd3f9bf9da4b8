------------------------------ MODULE RWMutex ------------------------------
(***************************************************************************)
(* sync.RWMutex (sync/rwmutex.go) over the runtime semaphore of module     *)
(* Sema.  The mutex w in which writers compete is an exclusive lock, which *)
(* MutexProofs shows sync.Mutex to be.                                     *)
(*                                                                         *)
(* Every atomic addition is one step.  The counters are integers: they     *)
(* have 32 bits and stay within rwmutexMaxReaders of zero.                 *)
(***************************************************************************)
EXTENDS Sema, Integers

CONSTANTS
  WriterSem,   \* &rw.writerSem
  ReaderSem,   \* &rw.readerSem
  MaxReaders   \* rwmutexMaxReaders: more than there can be pending readers

ASSUME RWAssumption ==
  /\ WriterSem \in Addrs /\ ReaderSem \in Addrs /\ WriterSem # ReaderSem
  /\ MaxReaders \in Nat /\ MaxReaders > 2 * Cardinality(Goroutines)

VARIABLES
  readerCount,   \* rw.readerCount: pending readers, less MaxReaders under a writer
  readerWait,    \* rw.readerWait: readers the writer has yet to wait for
  wHeld,         \* rw.w is locked
  rpc,           \* where each goroutine is in an operation, "idle" outside
  r              \* local of Lock and Unlock: readers to wait for, readers to wake

rwVars == <<readerCount, readerWait, wHeld, rpc, r>>

W == INSTANCE LockSpec WITH
       waiting <- {g \in Goroutines : rpc[g] = "wlock"}, held <- wHeld

RLockPc == {"rlock", "rwait"}
RUnlockPc == {"runlock", "depart", "rrelease"}
WLockPc == {"wlock", "announce", "await", "wwait"}
WUnlockPc == {"unlock", "wake"}

RWTypeOK ==
  /\ readerCount \in -MaxReaders .. MaxReaders
  /\ readerWait \in -MaxReaders .. MaxReaders
  /\ wHeld \in BOOLEAN
  /\ rpc \in [Goroutines -> {"idle", "throw"} \cup RLockPc \cup RUnlockPc \cup WLockPc \cup WUnlockPc]
  /\ r \in [Goroutines -> 0 .. MaxReaders]

RWInit ==
  /\ readerCount = 0
  /\ readerWait = 0
  /\ rpc = [g \in Goroutines |-> "idle"]
  /\ W!LockInit
  /\ r = [g \in Goroutines |-> 0]

RWGoto(g, label) == rpc' = [rpc EXCEPT ![g] = label]

\* A caller conjoins this with the step that makes the call; the call has
\* returned when rpc is "idle" again.
CallRW(g, entry) ==
  /\ rpc[g] = "idle"
  /\ RWGoto(g, entry)
  /\ UNCHANGED <<readerCount, readerWait, r>>

CallRLock(g) == CallRW(g, "rlock") /\ UNCHANGED wHeld
CallRUnlock(g) == CallRW(g, "runlock") /\ UNCHANGED wHeld
CallWLock(g) == CallRW(g, "wlock") /\ W!Ask(g)
CallWUnlock(g) == CallRW(g, "unlock") /\ UNCHANGED wHeld

-----------------------------------------------------------------------------
(* RLock, RUnlock                                                          *)

\* Mutant: a reader compares with -MaxReaders instead of zero.
RLockAddUnseen(g) ==
  /\ rpc[g] = "rlock"
  /\ readerCount' = readerCount + 1
  /\ IF readerCount' < -MaxReaders
       THEN CallSemacquire(g, ReaderSem, FALSE) /\ RWGoto(g, "rwait")
       ELSE RWGoto(g, "idle") /\ UNCHANGED semaVars
  /\ UNCHANGED <<readerWait, wHeld, r>>

\* Count the reader; under a pending writer, sleep until it has gone.
RLockAdd(g) ==
  /\ rpc[g] = "rlock"
  /\ readerCount' = readerCount + 1
  /\ IF readerCount' < 0
       THEN CallSemacquire(g, ReaderSem, FALSE) /\ RWGoto(g, "rwait")
       ELSE RWGoto(g, "idle") /\ UNCHANGED semaVars
  /\ UNCHANGED <<readerWait, wHeld, r>>

RLockReturn(g) ==
  /\ rpc[g] = "rwait" /\ spc[g] = "idle"
  /\ RWGoto(g, "idle")
  /\ UNCHANGED <<semaVars, readerCount, readerWait, wHeld, r>>

\* Uncount the reader.  The code throws "RUnlock of unlocked RWMutex" if there
\* was none.
RUnlockAdd(g) ==
  /\ rpc[g] = "runlock"
  /\ readerCount' = readerCount - 1
  /\ RWGoto(g, IF readerCount' >= 0 THEN "idle"
               ELSE IF readerCount \in {0, -MaxReaders} THEN "throw"
               ELSE "depart")
  /\ UNCHANGED <<semaVars, readerWait, wHeld, r>>

\* A writer is pending: the last reader it waits for wakes it.
Depart(g) ==
  /\ rpc[g] = "depart"
  /\ readerWait' = readerWait - 1
  /\ IF readerWait' = 0
       THEN CallSemrelease(g, WriterSem, FALSE) /\ RWGoto(g, "rrelease")
       ELSE RWGoto(g, "idle") /\ UNCHANGED semaVars
  /\ UNCHANGED <<readerCount, wHeld, r>>

RUnlockReturn(g) ==
  /\ rpc[g] = "rrelease" /\ spc[g] = "idle"
  /\ RWGoto(g, "idle")
  /\ UNCHANGED <<semaVars, readerCount, readerWait, wHeld, r>>

-----------------------------------------------------------------------------
(* Lock, Unlock                                                            *)

\* rw.w.Lock() returns.
LockCompete(g) ==
  /\ rpc[g] = "wlock"
  /\ RWGoto(g, "announce")
  /\ W!Grant(g)
  /\ UNCHANGED <<semaVars, readerCount, readerWait, r>>

\* Announce the writer and learn how many readers there are.
LockAnnounce(g) ==
  /\ rpc[g] = "announce"
  /\ readerCount' = readerCount - MaxReaders
  /\ r' = [r EXCEPT ![g] = readerCount]
  /\ RWGoto(g, IF readerCount = 0 THEN "idle" ELSE "await")
  /\ UNCHANGED <<semaVars, readerWait, wHeld>>

\* Mutant: the readers that departed since the announcement are forgotten.
LockAwaitReset(g) ==
  /\ rpc[g] = "await"
  /\ readerWait' = r[g]
  /\ r' = [r EXCEPT ![g] = 0]
  /\ CallSemacquire(g, WriterSem, FALSE)
  /\ RWGoto(g, "wwait")
  /\ UNCHANGED <<readerCount, wHeld>>

\* Wait for these readers, less those that have departed since.
LockAwait(g) ==
  /\ rpc[g] = "await"
  /\ readerWait' = readerWait + r[g]
  /\ r' = [r EXCEPT ![g] = 0]
  /\ IF readerWait' # 0
       THEN CallSemacquire(g, WriterSem, FALSE) /\ RWGoto(g, "wwait")
       ELSE RWGoto(g, "idle") /\ UNCHANGED semaVars
  /\ UNCHANGED <<readerCount, wHeld>>

LockReturn(g) ==
  /\ rpc[g] = "wwait" /\ spc[g] = "idle"
  /\ RWGoto(g, "idle")
  /\ UNCHANGED <<semaVars, readerCount, readerWait, wHeld, r>>

\* Announce that the writer has gone and learn how many readers came meanwhile.
\* The code throws "Unlock of unlocked RWMutex" if there was no writer.
UnlockAnnounce(g) ==
  /\ rpc[g] = "unlock"
  /\ readerCount' = readerCount + MaxReaders
  /\ IF readerCount' >= MaxReaders
       THEN RWGoto(g, "throw") /\ UNCHANGED r
       ELSE RWGoto(g, "wake") /\ r' = [r EXCEPT ![g] = readerCount']
  /\ UNCHANGED <<semaVars, readerWait, wHeld>>

\* One round of the loop that wakes them; a round begins when the call of the
\* one before has returned.
UnlockWake(g) ==
  /\ rpc[g] = "wake" /\ r[g] > 0
  /\ CallSemrelease(g, ReaderSem, FALSE)
  /\ r' = [r EXCEPT ![g] = @ - 1]
  /\ UNCHANGED <<readerCount, readerWait, wHeld, rpc>>

\* rw.w.Unlock() and the return.
UnlockReturn(g) ==
  /\ rpc[g] = "wake" /\ r[g] = 0 /\ spc[g] = "idle"
  /\ RWGoto(g, "idle")
  /\ W!Release
  /\ UNCHANGED <<semaVars, readerCount, readerWait, r>>

-----------------------------------------------------------------------------

ReaderStep(g) ==
  \/ RLockAdd(g)
  \/ RLockReturn(g)
  \/ RUnlockAdd(g)
  \/ Depart(g)
  \/ RUnlockReturn(g)

WriterStep(g) ==
  \/ LockCompete(g)
  \/ LockAnnounce(g)
  \/ LockAwait(g)
  \/ LockReturn(g)
  \/ UnlockAnnounce(g)
  \/ UnlockWake(g)
  \/ UnlockReturn(g)

RWStep(g) == ReaderStep(g) \/ WriterStep(g)
=============================================================================
