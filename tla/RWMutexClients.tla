--------------------------- MODULE RWMutexClients ---------------------------
(***************************************************************************)
(* Goroutines that lock and unlock one sync.RWMutex for ever, for reading  *)
(* and for writing.  As rwmutex.go:110-112 allows, the goroutine that      *)
(* unlocks need not be the one that locked.  Nobody locks twice: the       *)
(* documentation prohibits recursive read locking.                         *)
(***************************************************************************)
EXTENDS RWMutex

VARIABLES
  asked,   \* asked[g]: what g has called, RLock ("read") or Lock ("write"), and
           \* nobody has unlocked on its behalf
  late     \* history: the readers that called RLock after the Lock that now sleeps

rwClientVars == <<semaVars, rwVars, asked, late>>

RWClientsInit ==
  /\ SemaInit /\ RWInit
  /\ asked = [g \in Goroutines |-> "none"]
  /\ late = {}

\* The lock that g has called for is held.
Reads(g) == asked[g] = "read" /\ rpc[g] \notin RLockPc
Writes(g) == asked[g] = "write" /\ rpc[g] \notin WLockPc

\* A Lock that is blocked.
Sleeps(g) == rpc[g] = "wwait" /\ spc[g] = "parked"

Read(g) ==
  /\ asked[g] = "none"
  /\ CallRLock(g)
  /\ asked' = [asked EXCEPT ![g] = "read"]
  /\ late' = IF \E h \in Goroutines : Sleeps(h) THEN late \cup {g} ELSE late
  /\ UNCHANGED semaVars

Write(g) ==
  /\ asked[g] = "none"
  /\ CallWLock(g)
  /\ asked' = [asked EXCEPT ![g] = "write"]
  /\ UNCHANGED <<semaVars, late>>

\* g unlocks what h has locked.
ReadEnd(g, h) ==
  /\ Reads(h)
  /\ CallRUnlock(g)
  /\ asked' = [asked EXCEPT ![h] = "none"]
  /\ late' = late \ {h}
  /\ UNCHANGED semaVars

WriteEnd(g, h) ==
  /\ Writes(h)
  /\ CallWUnlock(g)
  /\ asked' = [asked EXCEPT ![h] = "none"]
  /\ UNCHANGED <<semaVars, late>>

RWRun(g) ==
  \/ RWStep(g) /\ UNCHANGED <<asked, late>>
  \/ /\ SemaStep(g)
     /\ UNCHANGED <<rwVars, asked>>
     /\ late' = IF \E h \in Goroutines : Sleeps(h) /\ ~Sleeps(h)' THEN {} ELSE late

RWUnlock(g, h) == ReadEnd(g, h) \/ WriteEnd(g, h)

RWClientsNext ==
  \E g \in Goroutines :
    \/ Read(g)
    \/ Write(g)
    \/ \E h \in Goroutines : RWUnlock(g, h)
    \/ RWRun(g)

-----------------------------------------------------------------------------
(* Properties                                                              *)

RWClientsTypeOK ==
  /\ RWTypeOK
  /\ asked \in [Goroutines -> {"none", "read", "write"}]
  /\ late \in SUBSET Goroutines

\* A writer is alone: no reader and no other writer holds the lock while it does,
\* whatever readers arrive and depart while it announces itself and waits.
WriterAlone ==
  \A g, h \in Goroutines :
    Writes(g) /\ g # h => ~Writes(h) /\ ~Reads(h)

\* The readers that hold the lock; that are about to leave it; that have the permit
\* that lets them in; that have yet to get it.
Holding == {g \in Goroutines : Reads(g)}
Leaving == {g \in Goroutines : rpc[g] \in {"runlock", "depart"}}
Admitted == {g \in Goroutines : rpc[g] = "rwait" /\ spc[g] = "idle"}
Asleep == {g \in Goroutines : rpc[g] = "rwait" /\ spc[g] # "idle"}

ReadersIn ==
  Cardinality(Holding) + Cardinality(Leaving) + Cardinality(Admitted) + sval[ReaderSem]

\* The goroutines about to add a permit.
Adding(sem) == {g \in Goroutines : spc[g] = "xadd" /\ saddr[g] = sem}

\* The permits for readers that nobody has taken.
Permits == sval[ReaderSem] + Cardinality(Adding(ReaderSem))

\* A writer that readers know of waits, or has the lock.
Announced(g) == rpc[g] \in {"await", "wwait", "unlock"} \/ Writes(g)

\* A writer that sleeps, and one that has been woken.
Blocked == {g \in Goroutines : rpc[g] = "wwait"}
Woken == {g \in Goroutines : rpc[g] = "wwait" /\ spc[g] = "idle"}

\* The permits that wake a sleeping writer: one, once the last reader it waits for
\* has departed, and nobody else takes it.
WriterOwed ==
  sval[WriterSem] + Cardinality(Adding(WriterSem)) + Cardinality(Woken)
    = IF readerWait = 0 THEN Cardinality(Blocked) ELSE 0

\* A pending writer counts on exactly the readers that are in: neither the two
\* steps of its announcement nor readers that come and go meanwhile are counted
\* twice or not at all, and it is woken once when they have departed.  While it
\* holds the lock nobody is in, and once it has gone every reader that sleeps is
\* owed a permit.  So neither "RUnlock of unlocked RWMutex" nor "Unlock of unlocked
\* RWMutex" is thrown in a program that unlocks only what is locked.
ReadersAccounted ==
  /\ \A g \in Goroutines :
       /\ rpc[g] \in {"await", "wwait"} => ReadersIn = readerWait + r[g]
       /\ Writes(g) \/ rpc[g] = "unlock" => ReadersIn = 0 /\ readerWait = 0
       /\ rpc[g] = "wake" => Cardinality(Asleep) = Permits + r[g] /\ readerWait = 0
       /\ rpc[g] # "throw"
  /\ (\A g \in Goroutines : ~Announced(g) /\ rpc[g] # "wake")
       => Cardinality(Asleep) = Permits /\ readerWait = 0
  /\ WriterOwed

\* A writer that has won against the other writers, until it holds the lock.
WriterComes(g) == rpc[g] \in {"announce", "await", "wwait"}

\* What rwmutex.go:25-28 says: a blocked Lock call excludes new readers from
\* acquiring the lock.
BlockedLockExcludes == \A g \in late : ~Reads(g)

-----------------------------------------------------------------------------
(* The inductive invariant behind WriterAlone and ReadersAccounted.        *)

\* The calls of the semaphore, none of them with a handoff, are those of the four
\* operations; who is inside one has called it.
RWCallInv ==
  \A g \in Goroutines :
    /\ spc[g] \in AcquirePc => \/ rpc[g] = "rwait" /\ saddr[g] = ReaderSem
                               \/ rpc[g] = "wwait" /\ saddr[g] = WriterSem
    /\ spc[g] \in ReleasePc => \/ rpc[g] = "rrelease" /\ saddr[g] = WriterSem
                               \/ rpc[g] = "wake" /\ saddr[g] = ReaderSem
    /\ spc[g] \in ReleasePc => ~sflag[g]
    /\ ~ticket[g]
    /\ rpc[g] \in RLockPc => asked[g] = "read"
    /\ rpc[g] \in WLockPc => asked[g] = "write"
    /\ rpc[g] \in WUnlockPc => asked[g] # "write"
    /\ r[g] # 0 => rpc[g] \in {"await", "wake"}

\* From the return of rw.w.Lock to rw.w.Unlock one goroutine owns rw.w: it announces
\* itself and waits, holds the lock, or unlocks.
OwnsW(g) == Announced(g) \/ rpc[g] \in {"announce", "wake"}

WriterInv ==
  /\ \A g, h \in Goroutines : OwnsW(g) /\ OwnsW(h) => g = h
  /\ (\E g \in Goroutines : OwnsW(g)) => wHeld

\* The counted readers, and the share of an announced writer.
Queued == {g \in Goroutines : rpc[g] = "rwait"}
Uncounting == {g \in Goroutines : rpc[g] = "runlock"}

CountInv ==
  /\ readerCount = Cardinality(Holding) + Cardinality(Queued) + Cardinality(Uncounting)
                     - (IF \E g \in Goroutines : Announced(g) THEN MaxReaders ELSE 0)
  /\ \A g \in Goroutines :
       /\ rpc[g] = "depart" => \E h \in Goroutines : rpc[h] \in {"await", "wwait"}
       /\ rpc[g] = "await" => readerWait <= 0

RWInv ==
  /\ SemaTypeOK /\ SemaInv /\ RWClientsTypeOK
  /\ RWCallInv /\ WriterInv /\ CountInv /\ ReadersAccounted

RWSpec == RWClientsInit /\ [][RWClientsNext]_rwClientVars
=============================================================================
