# Formal models of Go's goroutine synchronization

The repository collects Go resources: link lists, book translations with exercise
programs, and one complete program, the source tree of Go under
`docs/go/go-source-code/src`. Below, a path such as `runtime/sema.go` is relative to
that directory. This directory holds TLA+ models of the part of that program that is
hardest to test: the primitives by which goroutines wait for each other, in the runtime
and in the library, and the packages whose whole point is concurrency.

Every goroutine that blocks in Go blocks in one of a few places: in the sleep/wakeup
semaphore of the runtime (below `sync.Mutex`, `sync.RWMutex`, `sync.WaitGroup` and the
locks of files), in a wait queue of a channel, in the notify list below `sync.Cond`, on
a descriptor of the network poller, or on a note below them. A lost wakeup there hangs
programs, a doubled one corrupts them, and both depend on orders of atomic steps that no
test sets up.

## Inventory

| Component | State | Operations | What is hard |
|---|---|---|---|
| semaphore, `runtime/sema.go` | a count per address; per root a lock, `nwait`, a treap of sleepers | `semacquire1`, `semrelease1`, `queue`, `dequeue` | `nwait` and the count are read without the lock; a permit and a wakeup travel apart; handoff; rotations must lose nobody |
| `sync.Mutex` | one word: locked, woken, starving, waiter count | `Lock`, `Unlock` | stale copies swapped in; who is responsible for the next wakeup; two modes |
| channels, `runtime/chan.go` | buffer with two indices, `closed`, two wait queues, a lock | send, receive, close, each also non-blocking | direct handover between stacks; reads outside the lock; close against everything |
| select, `runtime/select.go` | the wait queues of several channels, `selectDone` of the goroutine | `selectgo` | several locks; one of many wakers must win; stale sudogs; the park itself unlocks |
| `sync.Cond`, notify list in `runtime/sema.go` | two wrapping counters and a list | `Wait`, `Signal`, `Broadcast` | tickets are taken before the queue is joined; loads outside the lock; wraparound |
| `sync.RWMutex`, `sync.WaitGroup`, `sync.Once` | packed counters over the semaphore | | announcement in two steps; reuse |
| `sync.Map` | a read map without lock, a dirty map under one, shared entries | `Load`, `Store`, `LoadOrStore`, `Delete`, `Range` | promotion; entries that are expunged while a call holds them |
| files, `internal/poll` | `fdMutex`: references, locks and waiters in one word; the poll descriptor | `Init`, `Read`, `Write`, `Close`, deadlines | close against operations in progress; who destroys the file |
| network poller, `runtime/netpoll.go` | per descriptor `rg`/`wg`, deadlines, `closing`, `seq`, timers; a free list | open, close, reset, wait, deadlines, unblock, `netpoll` | deadlines, readiness and close race for one parked goroutine; descriptors are reused while timers and events are late |
| `context` | a tree of contexts, each with a lock, an error, a channel, children, a timer | `WithCancel`, `WithDeadline`, cancel, `Done` | the tree grows while it is cancelled; locks nest; foreign parents need a goroutine |
| signals, `runtime/sigqueue.go`, `os/signal` | masks and a three-valued state word; channels per signal | `sigsend`, `signal_recv`, `Notify`, `Stop`, `Reset`, `Ignore` | the sender can take no lock; Stop while signals are on their way |
| `singleflight` | the call in flight for a key, its duplicates | `Do`, `DoChan`, `ForgetUnshared` | forgetting against ending; counts read late |
| runtime locks and notes, `runtime/lock_futex.go` | a futex word | `lock`, `unlock`, notes | sleep against wakeup without any lock below |
| `sync.Pool`, timer heap, `io.Pipe`, `net.Pipe` | | | not modelled, see the end |
| scheduler, collector, compiler, commands, rest of the library, tutorials | | | not in scope, see the end |

`PROJECT.json` lists every component with its status, and, under "hazards", the places
where each of them could go wrong, at their lines, with the properties that would
notice.

They interact in layers. `RWMutex` and `Once` contain a `Mutex`; `RWMutex` and
`WaitGroup` also sleep on semaphores of their own, and so does the mutex of a file. A
`Mutex` calls the semaphore, several mutexes share one root of its table, and what a
sleeping `Lock` learns from its wakeup is only what the `Unlock` promised in the state
word. A select is in the queues of several channels at once, so the channel code and the
select code share the wait queues and the flag `selectDone`. A file holds a descriptor of
the poller from its `Init` until its last reference goes; timers and the thread that
polls the kernel keep pointers to that descriptor beyond. `os/signal` polls the runtime's
queue from a goroutine and, in `Stop`, waits for the queue to have nothing under way.
Goroutines never call back; what they share is memory.

## Modules

| Module | Models | Composed by |
|---|---|---|
| `Program` | the goroutines of a program | all |
| `Sema` | `semacquire1`, `semrelease1` and what they call, one queue per address | `SemaClients`, `Mutex`, `RWMutex`, `WaitGroup` |
| `SemaClients` | goroutines that acquire and release in any order; properties | `MCSema` |
| `SemaSpec` | an abstract semaphore: permits, and who wants one | refined by `SemaClients`; used by `FD` |
| `SemaRoot` | the treap of a root: `queue`, `dequeue`, the rotations, pointer by pointer | `SyncPrimitives` |
| `WaitQueues` | one queue of sleepers per address | refined by `SemaRoot`; the view of `Sema` |
| `Mutex` | `Lock` and `Unlock` over `Sema` | `MutexClients` |
| `MutexClients` | goroutines that lock and unlock one mutex; properties, `IInv` | `MCMutex` |
| `LockSpec` | an abstract exclusive lock | refined by `MutexClients`; used by `RWMutex`, `Once` |
| `RWMutex`, `RWMutexClients` | `RLock`, `RUnlock`, `Lock`, `Unlock` over `Sema` and `LockSpec`; goroutines that use one, properties | `SyncPrimitives` |
| `WaitGroup`, `WaitGroupClients` | `Add`, `Wait` over `Sema`; goroutines that use and reuse one, properties | `SyncPrimitives` |
| `Once` | `Do` over `LockSpec`, properties | `SyncPrimitives` |
| `NotifyList`, `Cond` | the ticket list; `Wait`, `Signal`, `Broadcast`, properties | `SyncPrimitives` |
| `CondSpec` | an abstract condition variable: one line of waiters | refined by `Cond` |
| `SyncPrimitives` | one of RWMutex, WaitGroup, Once, Cond and the treap at a time | `MCSync` |
| `Chan` | `makechan`, `chansend`, `chanrecv`, `closechan` | `Select` |
| `Select` | `selectgo`, `selparkcommit` over the channels of `Chan` | `ChanClients` |
| `ChanSpec` | abstract channels: queues of values, atomic rendezvous | refined by `ChanClients` |
| `ChanClients` | goroutines that call the operations of a program; properties, `ChanInv` and `RefineInv` | `MCChan`, and with a bounded number of calls each, for liveness, `MCSelectLive` |
| `NetPoll` | the descriptors and their cache, waits, deadlines, timers, `netpoll` over edge-triggered epoll | `FD` |
| `FD` | `fdMutex` and the operations of a file over `NetPoll` and `SemaSpec` | `FDPrograms` |
| `FDPrograms` | programs over files, timers and pollers; properties | `MCFD` |
| `SyncMap` | the methods of `sync.Map`; goroutines that call them, properties | `MCLibraries` |
| `MapSpec` | a map of keys whose calls take effect at one moment | refined by `SyncMap` |
| `Context` | cancellation over a tree of contexts; programs that build and cancel one, properties | `MCLibraries` |
| `SigQueue` | the runtime's queue of signals and the receiver's note | `OSSignal` |
| `OSSignal` | `os/signal` over it; programs and arriving signals, properties | `MCLibraries` |
| `SingleFlight` | `Do`, `DoChan`, `doCall`, `ForgetUnshared`; callers, properties | `MCLibraries` |
| `MCLibraries` | for TLC: one of these four packages at a time, with programs | |
| `SemaLemmas`, `SemaProofs`, `MutexProofs`, `SyncProofs`, `ChanProofs`, `SyncMapProofs`, `LibraryProofs`, `FDProofs` | theorems, no code | |

### Grain of atomicity

A step is one atomic access to memory that others read or write without the lock in
question; a critical section that touches only what its lock protects is one step. So:

* `Sema`: `atomic.Xadd(addr, 1)`, the load of `nwait` outside the lock, the lock of the
  root, the increment of `nwait` under it (`semrelease1` reads `nwait` without the
  lock), each `cansemacquire` and the call of `readyWithTime` are steps of their own.
  The compare-and-swap loop of `cansemacquire` is one step: a failed swap changes
  nothing and is tried again with a fresh load.
* `SemaRoot`: all of it happens under the lock of the root, so what matters is not who
  interferes but what each rotation does to the tree. A step is one round of a loop that
  rotates, or the part of a call up to such a loop; `ImplementsWaitQueues` compares the
  tree with the queues after every one of them.
* `Mutex`: every compare-and-swap, addition and load of `m.state`. The word is the
  record of its fields; the two additions that presume the word to hold certain fields
  (`delta` in `Lock`, `-mutexLocked` in `Unlock`) are checked to carry from none of them
  into another (`HandoffAdds`). `runtime_canSpin` may answer either way up to
  `ActiveSpin` spins, and a waiter may or may not have exceeded the threshold.
* `RWMutex`, `WaitGroup`: each atomic addition, load or swap of a counter; in
  `WaitGroup` also the plain read and the plain store in `Add` and the plain read after
  the sleep in `Wait`. `rw.w` and `o.m` are the lock of `LockSpec`: `Lock` returns in
  the step `Grant`, and `Unlock` has its effect when it is called. That is all that
  `MutexImplementsLock` leaves to be seen of a mutex.
* `Chan`: what happens under `c.lock` is one step. The reads of a non-blocking operation
  outside the lock are a step each. They see a critical section before or after, though
  they could see the middle of one: between `c.closed = 1` and the emptying of the
  queues in `closechan`, or between two stale sudogs of a `dequeue`. Each read is of a
  single field, `closed` changes first and the queues only become emptier, so what a
  pair of reads finds in the middle it also finds before or after it. A goroutine that
  was dequeued is readied in a later step, after the unlock. `closechan` wins the races
  for the selects among its waiters (`selectDone`) all at once, where the code runs for
  one after the other while parties of other channels may run for them too: see "Not
  modelled".
* `Select`: each lock taken by `sellock` and each unlock of `selparkcommit` is a step,
  because others use the channel in between; `selunlock` of a select that has its result
  is one step, for it does nothing between its unlocks.
* `NotifyList`: the addition to `wait`, the two loads of the fast path, the critical
  sections, and each goroutine readied.
* `FD`: a method of `fdMutex` loads the word and swaps in a new one that depends on the
  load only, until the swap succeeds: one step. It sleeps on the semaphores of
  `SemaSpec`, which is all that `SemaImplementsSemaphore` leaves to be seen of them. Each
  call into the poller, each wakeup that `Close` owes and each part of `destroy` is a
  step.
* `NetPoll`: each access to the words used without `pd.lock` (`rg`, `wg`, `closing`, the
  deadlines); what a thread of `netpoll` does with each event; `closing` and then the
  deadline are read in one step, since deadlines do not change while a descriptor is
  closing. A goroutine that is going to park is visible in `rg` in the step after the
  one that looked at the error state, and the commit of the park is another.
* `SyncMap`: each access to the read map and to the pointer of an entry, with what is
  done under `mu` before or after it; `dirtyLocked` looks at one entry per step.
* `Context`: a critical section that calls nothing is one step. `cancel` calls the
  cancels of the children with its lock held, so a thread has a stack of calls.
* `SigQueue`: each atomic operation of a handler and of the receiver; a load whose
  compare-and-swap fails starts again and is one step with it.
* `OSSignal`, `SingleFlight`: each critical section; in `Stop`, each signal released.

Waiters of one address form a sequence in `Sema`, the abstraction of the treap of
sudogs; values sent are the identity of their sender, and values stored in a map the name
of who stores them; a channel is its address, a number, so that select can sort. Counters
are `Nat` in `Sema`, `Mutex` and `Chan` and `Int` in `RWMutex` and `WaitGroup` (the
waiter count of a mutex has 29 bits and counts goroutines; `MaxReaders` stands for 2^30
and exceeds the number of readers, as there); in `NotifyList` they wrap at `Modulus`,
because the code compares them across the wraparound, and in `FD` a count of the word
that reaches `CountLimit` is the panic of the code. Deadlines are small numbers without a
clock: an armed timer may fire at any later moment.

Histories: `released` (`SemaClients`), `wants` (`MutexClients`, the program's view of who
holds the mutex), `missed` (`ChanClients`: the operation could do nothing at some moment
of the call), `quiet`/`overtaken` (`Cond`), `asked`/`late` (`RWMutexClients`), `zeroed`
(`WaitGroupClients`), `begun`/`over`/`after` (`Once`), `seen` (`SyncMap`: the values a
key has had during a call), `owed`/`quiet` (`OSSignal`: signals a channel is to get,
channels a Stop has returned for), `forgotten` (`SingleFlight`). They are written, never
read, by the steps that model code.

## Runs

| Run | Instance | Question |
|---|---|---|
| `sema` | 3 goroutines, 2 addresses on 1 root, 2 and 1 releases | no wakeup is missed, `nwait` is exact, a sleeper is in one place, refinement of `SemaSpec`, a permit does not stay where goroutines sleep |
| `mutex` | 3 goroutines for ever, 1 spin | exclusion, accounts of waiters and of wakeups, no throw, no deadlock, starvation mode keeps arrivals out, somebody gets the mutex, refinement of `LockSpec` |
| `mutex_handoff` | the same | finding 1 |
| `chan` | 3 goroutines that run one of three programs: every operation on an unbuffered channel and on nil; every operation on a ring of 2 slots; 4 selects and a close over an unbuffered and a 1-slot channel | order and integrity of values, lost rendezvous, the races between selects, closes and parks, non-blocking operations, refinement of `ChanSpec` |
| `select_live` | 3 goroutines, 2 calls each, crossing selects | no deadlock on channel locks, nobody is forgotten |
| `sync` | 3 goroutines for ever with a RWMutex, a WaitGroup, a Once or a Cond, all semaphores on one root; or a treap of 4 sudogs on 3 addresses with 3 priorities | writers alone, accounts of readers, permits and waiters, reuse, no panic; f before everybody; tickets across the wraparound, refinement of `CondSpec`; the treap implements `WaitQueues`; who need not block returns |
| `rwmutex_late` | the same, RWMutex only | finding 2 |
| `fd` | 3 goroutines that run one of seven programs over 2 files, 1 descriptor, 1 timerproc, 1 poller | the word is exact, the descriptor stays while it is used, no throw, no missed wakeup, all calls end |
| `fd_reuse` | one of these programs | finding 3 |
| `libraries` | 2 goroutines that call a map of 2 keys for ever; 3 goroutines over one of five trees of 3 contexts; 3 signal programs with 2 channels, 2 signals, 2 arriving on 2 threads; 4 calls of 3 goroutines in a flight group | refinement of `MapSpec`, live entries; cancellation reaches everything, releases everything and ends; Stop loses nothing; sharing is told truly; all calls end |
| `signal_stop`, `singleflight` | the same, one package each | findings 4 and 5 |

What the properties say, and why, stands in a comment above each of them. The central
ones:

* **Semaphore.** `NoMissedWakeup`: while somebody sleeps on an address (or holds the
  root lock on the way to sleep), every permit in its word is matched by a goroutine
  under way that will wake a sleeper or take a permit. It needs both the increment of
  `nwait` before the second `cansemacquire` and the check of `nwait` after the addition.
  `ImplementsSemaphore`: every permit is taken once, by somebody who asked, handed-off
  ones included. `ImplementsWaitQueues`: the treap, with its rotations and wait lists,
  is one queue per address, and stays ordered by address and by priority.
* **Mutex.** `WordAccounts` (`WakeAccounting` and `WaitersExact`) states the protocol
  that the comments leave implicit: at most one waiter is awake in normal mode, and it
  owns `mutexWoken`; in starvation mode the one token is ownership itself; and the count
  in the word is the number of sleepers less the one already paid for.
* **RWMutex.** `ReadersAccounted`: what a pending writer waits for is the number of
  readers that are in, where a permit that lies in the semaphore counts as a reader; it
  is woken once; and once a writer has gone, every sleeping reader is owed a permit.
* **WaitGroup.** `WaitersOwed`: the word that `Add` clears with a plain store is not
  changed by anybody until every waiter has returned, if the program keeps to the rules.
  These are modelled by who owns a unit of the counter: see the head of
  `WaitGroupClients`.
* **Channels and select.** `SleepersBlocked`: a goroutine that sleeps and was not
  dequeued could not proceed by any of its cases. `SudogsOwned`: no sudog outlives its
  call, and a select that is awake again cannot free the sudogs that its own park still
  reads. `ImplementsChanSpec`: each step is one step of abstract channels, in which
  values form a queue and a rendezvous is atomic, or a stutter; an operation takes effect
  when it has its result or when another goroutine completes its sudog.
* **Cond.** `TicketsHeld` and `ImplementsCond`: waiters are woken in the order of their
  tickets although they join the list in any order. `SignalExcused` says how far
  `sync/cond.go:60`, "Signal wakes one goroutine waiting on c, if there is any", goes:
  two loads in the fast path may miss a waiter that was there all the time, but only if
  another notifier woke somebody in between.
* **Files and poller.** `WordTellsTruth`: references, lock bits and waiters in the word
  are those of the calls in progress, where a permit on its way counts for a waiter.
  `DescriptorHeld`: neither descriptor is closed, freed or given away under a call.
  `ParkedForAReason`: while a goroutine is parked in the poller, nothing that it waits
  for has happened, or somebody has the duty to tell it. It rests on who stores first and
  who reads second on both sides of `rg`.
* **Map.** `ImplementsMap`: every call has an effect or a result that the map had at a
  moment during the call. `EntriesAlive` is the protocol between the two maps that makes
  it so: the dirty map has every entry of the read map that is not expunged, deleted ones
  included, and nobody is about to store into an entry that is in neither. The comment
  on `entry.p` says otherwise of deleted entries: see the end of "Findings".
* **Context.** `CancelReachesAll`: once a cancel has let go of a context, everything
  linked below it, down to a foreign parent, is cancelled, also what was derived at the
  same time.
  `ReleasesResources`: a live parent keeps no cancelled child and no timer of one.
* **Signals.** `StopLosesNothing`: a signal that was queued for a channel gets to it,
  although the channel is stopped meanwhile.
* **singleflight.** `SharedTellsTruth`: who is told that its result is not shared is and
  stays the only one, although the number of duplicates is read without the lock.

Each property is shown to depend on the code by a mutant: a definition changed the way a
bug would change it (they stand before the definition they replace), for which TLC finds
the property violated.

### Bounds, and why they are enough

* Three goroutines: a wakeup has a waker and a sleeper, and the third is the one that
  interferes (barges, closes, selects on the same channel, takes the other address of
  the root). The mutex needs a holder, a sleeper and an arrival; the select a loser, a
  winner and a waker; the file two readers and a Close; the map one goroutine that
  promotes and one that holds an entry of the past.
* `MaxReleases` bounds the calls of `semrelease` for each address (2 on one, so that a
  permit may arrive while another is under way, and 1 on the other, which interferes).
  `MaxCalls` bounds the calls of a goroutine in `select_live` (2, so that a select meets
  the leftovers of the one before). The runs `mutex`, `chan`, `sync` and the map have
  goroutines that call for ever.
* `ActiveSpin` is 1 (4 in the code): a spin only repeats the one before it.
* A channel with two slots has a head, a tail and a full state that differ; `Cap` 0 and
  1 are the two kinds of channel a select meets.
* `Modulus` is 6 in place of 2^32, so that the counters wrap many times; with at most
  three waiters the difference between them stays within half of it, as the code
  requires, and the theorems about Cond hold for every even width and every `MaxLag` up to
  half of it. `MaxLag` (3) bounds how many Waits may begin while one is between its ticket
  and the list: half of `Modulus` (in the code: 2^31). Beyond it a waiter that was
  notified parks, with few goroutines; `runtime/sema.go:454-457` speaks of 2^31 goroutines
  that block.
* `MaxReaders` is 7, one more than the readers and departing readers that 3 goroutines
  can make. `MaxOwn` bounds the units of the counter that belong to one goroutine (2, so
  that the counter passes values between its first and its last unit). `Primitives` and
  `Packages` choose what a run is about: the components of a run share nothing, so one run
  has the states of each of them side by side.
* Four `Sudogs` on three `Elems` with three `Tickets`: a root with two children, a wait
  list, equal priorities, and rotations of both kinds up and down.
* The programs of `fd` are bounded in calls and in the times that files become ready
  (`ready`): two readers against two Closes; a deadline that is replaced by one that has
  passed, by none, by another, while its timer fires; a reader and a writer with one
  deadline; a descriptor that goes to another file while an event or a timer of the first
  is late. One descriptor for two files makes every reopening a reuse. `CountLimit` 8
  exceeds the calls that can be in progress.
* Six `Entries`: four that the two maps can hold at a time and one in the hands of each
  goroutine. Three `Contexts` as a chain and as a fork, with deadlines and foreign
  parents at each place of the chain; `MaxArrivals` 2 signals, one of them on its way
  while the other is relayed; three `Flights` and `MaxAsked` 4 calls: a forgotten flight,
  its successor and a third.
* Symmetry is used where no constant tells goroutines apart, and never in a run with
  liveness.

Deadlock is checked for the mutex, which may never stop. The other systems really stop:
all goroutines may sleep on a semaphore without permits, on channels that nobody serves,
in Wait, or in a read of a file that never becomes ready, and a program with a panic or a
bounded number of calls ends. There, the liveness properties say which ends are the right
ones.

### Fairness

`WF(Run(g))` for every goroutine: the scheduler runs each runnable goroutine again and
again, by the global run queue that is polled every 61st tick and preemption at function
calls (`runtime/proc.go`). A goroutine in a queue is not enabled, so nothing is assumed
about sleepers. `WF(Unlock(g, g))` in `MutexClients`: a holder eventually unlocks,
without which no lock makes sense; in the same way `WF(RWUnlock(g, g))` and weak
fairness of `Finish`, the call of Done. `WF(Commit(g))` in `MCSelectLive`: the scheduler
finishes a park that it has begun. In `FDPrograms` also weak fairness of each timerproc
that has a fired timer in hand and of each thread that polls: `findrunnable` and `sysmon`
call `netpoll`. Nothing says that a file becomes ready or when a timer fires. In
`MCLibraries` also weak fairness of the threads that run a timer's function or watch a
foreign parent, of the handler that queues a signal, of the goroutine that relays them,
and of the functions that `Do` calls; deadlines pass; nothing says that signals arrive.

No lock is assumed to be fair: a runtime lock is a futex word that anybody may grab, so
one of several goroutines that contend for ever may lose for ever, and `CallsSettle` is
therefore asked of programs that end. For the same reason `SomeoneProceeds` says that
some goroutine gets the mutex, not each: in the model, where no waiter need ever exceed
the starvation threshold, a given one can lose for ever.

## Findings

1. **`mutex_handoff`.** `sync/mutex.go:53-57` says that in starvation mode ownership
   goes directly to the waiter at the front of the queue and new arrivals queue at the
   tail. Ownership travels as a permit of the semaphore: `semrelease1` adds it at
   `runtime/sema.go:161` and only later takes the root lock and gives it to the first
   sleeper. An arrival that has been counted as a waiter and calls `semacquire1` in
   between takes it with its first `cansemacquire`, past the queue. Exclusion is not
   affected (`MutualExclusion`, `StarvingExcludesArrivals` hold).
2. **`rwmutex_late`.** `sync/rwmutex.go:26-28`: "a blocked Lock call excludes new
   readers from acquiring the lock." The permits for the readers that waited for the
   last writer may still be in the semaphore when the next writer has announced itself
   and sleeps. A reader that comes then finds the writer, goes to the semaphore and
   takes a permit. Writers are alone all the same (`WriterAlone`) and do not wait for
   more readers than there were (`ReadersAccounted`), but an older reader sleeps on.
3. **`fd_reuse`.** `runtime/netpoll.go:59` and `:73-76` say that `seq` protects from stale
   timers and from stale ready notifications. The timers check it; `netpollready`
   (`:295`) does not: an event that `epollwait` returned before the file was closed is
   delivered to the descriptor after it has been given to another file, and makes that
   file's `rg` ready. Nothing worse follows: the reader that it wakes tries its system
   call again (`ParkedForAReason`, `CallsSettle` hold).
4. **`signal_stop`.** `os/signal/signal.go:164`: "When Stop returns, it is guaranteed that
   c will receive no more signals." A second Stop of the same channel finds it no longer
   among the handlers and returns at once (`:169`), while the first still waits for the
   signals on their way, which go to the channel.
5. **`singleflight`.** `internal/singleflight/singleflight.go:42-44` promises one execution
   in flight for a key. `ForgetUnshared` removes a flight from the map, a new call starts
   its successor, and when the forgotten one ends it deletes the key whatever it maps to
   (`:99`): a third call then starts while the second, which nobody forgot, is in flight.

Five more disagreements were met that have no run of their own:

* `runtime/chan.go:159-166` argues that the two unlocked reads of a non-blocking send imply
  a moment at which the channel was open and not ready; with a receiver parked before the
  close there is none, and `DefaultJustified` states this close of an unbuffered channel as
  the only exception.
* `sync/waitgroup.go:45-47` allows calls of Add "that start when the counter is greater than
  zero"; what counts is the counter at the addition, and the programs of `WaitGroupClients`
  keep it positive during the call.
* `sync/map.go:76`: "If p == nil, the entry has been deleted and m.dirty == nil." `Delete` of
  a key of the read map swaps nil into the entry (`:294`) without a look at `m.dirty`. Store
  a key, Load it, which promotes the dirty map, Store a second key, which makes a new dirty
  map, and Delete the first: its entry has p == nil and is in both maps. The model
  does the same, and in its states `mu = NoHolder`, `dirty # NoEntry` and a pointer of the
  read map that is `NoValue` go together. The code is right and the comment is wrong: a later
  `Store` fills the entry through the read map without the lock, and nothing is lost at the
  next promotion just because the dirty map still has the entry. This is what `EntriesAlive`
  says, against line 76 and with lines 78-79: a deleted entry stays in both maps, an
  expunged one is in the read map only.
* `sync/map.go:81-82`: any other entry is "recorded in m.read.m[key]". That of a new key is
  in the dirty map only, until the next promotion.
* `internal/singleflight/singleflight.go:20-22`: `dups` and `chans` are "not written after
  the WaitGroup is done". The key is deleted only after `wg.Done` (`:96-99`), and who comes
  in between still joins; `SharedTellsTruth` holds through that window.

## Theorems

All are of the form "for every number of goroutines, every assignment of addresses to
roots", under the assumptions that the modules name: `SemaAssumption` (a finite set of
goroutines, `Nobody` not one of them, every address has a root), `ClientsAssumption`,
`MutexAssumption` (the semaphore word of the mutex is an address, `ActiveSpin` a natural
number), `RWAssumption` (two semaphore words; rwmutexMaxReaders is more than twice the
number of goroutines), `ChanAssumption` (finitely many channels, which are positive
numbers and have capacities; goroutines, by whose names values are known, are none of the
outcomes of an operation), `NotifyListAssumption` (the width of the counters is even and at
least twice the number of goroutines), `CondAssumption` (`MaxLag` is at most half of it),
`ProgramsAssumption` (programs call operations of the kinds that the language has),
`WaitGroupAssumption` and `WGClientsAssumption` (a semaphore word,
a natural number), `FlightAssumption` (nil is not a flight), `MapAssumption` (there is a key; nil,
expunged and the values are distinct), `MapCallsAssumption` (goroutines make the calls
that `MapSpec` has), `ContextAssumption` (goroutines, watchers and timers are different
threads, nil is neither a channel nor an error, `Background` is above the tree),
`ContextProgramsAssumption` (parents are contexts or `Background`, and each `With...` makes
a context of its own), `SignalAssumption` (nobody is not a goroutine; goroutines make
the calls that `os/signal` has), `PollAssumption` (nobody is no actor, file or descriptor;
goroutines, timerprocs and pollers are different threads, and goroutines none of the values
of `rg` and `wg`; there is a descriptor), `FDAssumption` (each file has three semaphore words; finitely many
goroutines, and the counts of `fdMutex` do not wrap with one reference and one wait for each)
and the `ProgramsAssumption` of `FDPrograms` (the calls are those that files have, and a file
is opened once). TLC evaluates them in every run that has the module.

* `SemaProofs`: `SemaParkedOnce`, `SemaNwaitExact`. The inductive invariant is `SemaInv`
  (in `Sema`): types, the root lock is held by exactly the goroutine whose position says
  so, every sleeper is in one queue or in the hands of one releaser, and `nwait` is the
  number of those in the queues of the root plus those in the window between their
  increment and their sleep. The last is not inductive without the others: a dequeue
  decrements `nwait` by one for the sleeper it found, which is right only if the sleeper
  was there once and on that root. `SemaLemmas` has the facts about sequences and
  cardinalities and one lemma per action; `SemaProofs` and `MutexProofs` both use them,
  since a semaphore step means the same under any client.
* `SemaProofs`: `SemaNoMissedWakeup`, the property a semaphore exists for. It is proved
  over `SemaInv`, and needs `NwaitExact` from it at one place: a releaser that has read
  zero without the lock goes away and is no longer a helper, so nobody may sleep on its
  address; a goroutine that is counted but not yet asleep holds the root lock
  (`RootHeld`), so that no releaser looks at the queue between its last try for a permit
  and its sleep. A goroutine that woke with a ticket is no helper: it leaves without a
  permit.
* `SemaProofs`: `SemaImplementsSemaphore`, the refinement of `SemaSpec`: a step adds a
  permit, takes one for a goroutine that wants one, or does not show.
* `MutexProofs`: `MutexTypeCorrect`, `MutexExclusion`, `MutexHandoffAdds`,
  `MutexStarvingExcludesArrivals`, from `IInv` in `MutexClients`. `MutualExclusion`
  alone is not inductive: whether a goroutine that comes back from the semaphore may
  take the mutex is decided by the word, and that it is alone in coming back by the
  semaphore. `IInv` joins them: calls of the semaphore are those of the mutex
  (`CallInv`); the lock bit has one owner (`OwnerInv`); there is at most one token, a
  permit in the word or a goroutine awake on behalf of the waiters, and only while
  `mutexWoken` is set, or in starvation mode while the mutex is free (`TokenInv`); and
  the two modes exclude each other, also in what a goroutine remembers of the word
  (`ModeInv`).
* `MutexProofs`: `MutexImplementsLock`, the refinement of `LockSpec`. Of `IInv` it needs
  that at most one goroutine holds the mutex, before and after the step: the step in
  which a Lock returns is then a grant of a lock that nobody holds.
* `MutexProofs`: `MutexWordAccounts`, from `IInv` and `AccountInv`. The count in the word
  is a cardinality, that of the goroutines that sleep or are about to, less the waiter
  already paid for; each step is shown to change the word and the set by the same amount.
  What makes it inductive is who is paid for: `mutexWoken` has one owner, or the one
  waiter on whose behalf `Unlock` has decremented the count is between that and its wakeup.
* `SyncProofs`: the primitives over the semaphore and over an exclusive lock. A client
  without handoffs needs of the semaphore only the lemma `SemaEffect` (in `SemaLemmas`): a
  step takes a permit and returns, adds a permit, or shows neither.
* `SyncProofs`: `RWWriterAlone`, `RWReadersAccounted`, `RWTypes`, from `RWInv` in
  `RWMutexClients`. That a writer is alone follows from the numbers: `readerCount` counts
  the readers that hold the lock, those queued and those that have yet to subtract
  themselves, and is shifted down by rwmutexMaxReaders exactly while a writer is announced
  (`CountInv`); while one waits, `readerWait` is the number of readers that it has to wait
  for, and the permits for readers in the semaphore are as many as readers are owed
  (`ReadersAccounted`); and one goroutine at a time owns `rw.w` (`WriterInv`). None of
  them is inductive alone: whether a departing reader is the last is read from
  `readerWait`, whether it must decrement it from `readerCount`. A writer between the
  two additions of `Lock` may find `readerWait` below zero, because readers that left
  meanwhile have been subtracted before they were added.
* `SyncProofs`: `WGWaitersOwed`, `WGWaitsForZero`, from `WGInv` in `WaitGroupClients`. The
  counter is the sum of the units that goroutines own and of the additions under way
  (`CounterInv`), so it can become zero only in the hands of the last owner. From that
  moment until the plain store of zero nobody changes the word, since the program's rules
  leave nobody who could (`ZeroInv`), and the permits given out for a round are taken
  before the word of the next one is anything but zero (`RoundInv`). Sums over the goroutines
  are numbers of pairs (`Total`), so that they are reasoned about as cardinalities.
* `SyncProofs`: `OnceCorrect`, from `OnceInv`: one goroutine at a time is inside the
  lock, and what it and the others know of `done` and of f follows from how far it has
  got.
* `SyncProofs`: `CondTicketsHeld`, `CondSignalExcused`, `CondImplementsWaiting`, from
  `CondInv` in `Cond`, which TLC has checked on the Cond part of the run `sync`. The tickets
  from `notify` up to `wait` are a window that wraps around; `WindowInv` says that each
  place in it has one holder. It is inductive only with what the list adds
  (`ListInv`: who is parked is on the list or in the hands of one notifier, once), and
  with a bound on how late a waiter comes to the list: `less` tells rightly whether a
  ticket was notified if at most half of the range has been handed out since (`LessFact`).
  That the window itself never exceeds that half follows from its places having
  different holders (`WindowCount`). The lemmas from `RemainderFact` to `SameCount`
  reduce differences of counters to differences of integers, so that a step does one of
  four things to the window: `WindowSame`, `WindowGrows` by the ticket of a new Wait,
  `WindowShrinks` by the one notified, or `WindowCloses`. The refinement of `CondSpec` is
  then a fact about the window: the line is its holders in the order of their places
  (`LineFact`), and the four things that may happen to it are a stutter or a return, the
  arrival at its end, a signal and a broadcast (`LineMoves`).
  A notifier that wakes nobody has found the counters equal under the lock, or its two
  loads equal; `ExcuseInv` keeps what it has seen between them.
* `ChanProofs`: `ChanSleepersBlocked`, `ChanSudogsOwned`, `ChanQueueShape`,
  `ChanWokenForAReason`, `ChanDefaultJustified`, from `ChanInv` in `ChanClients`, for every
  number of goroutines and channels, all capacities, and selects with any number of cases
  (the same channel twice and in both directions included). TLC has checked `ChanInv` on
  the instance of the run `chan`. None of the five is inductive alone. That a sleeper has
  a sudog in each of its queues says nothing unless a sudog is a case of its goroutine's
  call (`SudogInv`), one that is queued is not the one that its waker has dequeued, and
  `selectDone` is set exactly from the dequeue to pass 3 (`WakeInv`): then a sudog is live
  iff its goroutine sleeps. A select that is woken without a sudog was woken by a close,
  and the channel stays closed, so that pass 1 finds a case. What the two reads without
  the lock have seen is kept in `FastInv`: after the first one says "open", either the
  operation could do nothing then, or the channel has been closed since.
  The sixteen actions come down to three forms.
  In a `WakeStep` an operation finishes and wakes the goroutines of a set W, empty for a
  buffered transfer, one for a rendezvous, all that wait for a close: the live sudogs that
  leave the queues are those of W, and nobody else slept for what the step has changed. In
  `Parks` the new sudogs are those of the cases, and nobody on the other side of a case
  is alive. In an `OwnStep` one goroutine moves and at most its own sudogs
  leave. `Examined` takes stale sudogs from the queues in every one of them
  (`Stripped`). `RankFact`, `KeptFact` and `SudogsFact` count the places of a queue.
* `ChanProofs`: `ChanImplementsSpec`, that `Spec` implements `ChanSpec` under the refinement
  mapping of `ChanClients`, from `RefineInv`: `ChanInv`, that the free slots of a ring begin
  where its values end (`RingInv`), and that a receiver woken by a close has found nothing
  in the buffer (`WokenEmptyInv`). TLC has checked `RefineInv` on the instance of `chan`.
  Who waits in the abstract channel is who is asleep, and who may be somebody's partner is
  who has a live sudog in the queue (`PhaseFact`, `PartnersFact`). The queue of values is
  read off the circular buffer: a send extends it (`PutFact`), a receive takes its head
  (`TakeFact`), and a receive from a full buffer with a sender in line does both at once
  (`TurnFact`). Whichever way a case proceeds is one abstract send or receive, in which a
  dequeued partner completes at the same time (`ClaimRefines`). A park is allowed because
  nothing is ready for the cases (`ParkRefines`), and a close releases exactly those that
  wait for that channel (`CloseWakes`). Locking, `goready`, taking the locks again and pass
  3 are stutters: the abstract partner was done when its sudog was dequeued.
* `LibraryProofs`: `FlightSharing`, from `FlightInv` in `SingleFlight`. What a caller
  is told depends on a count that it reads late. The invariant says that the members of
  a flight have joined it (`Membership`), that all but the one that started it are
  counted (`OneUncounted`), and that a flight which still has the key is not over
  (`InFlight`), so that nobody joins after the count was read.
* `LibraryProofs`: `ContextCancelReachesAll`, `ContextReleasesResources`, from `ContextInv`
  in `Context`, for any forest of contexts (chains, forks, foreign parents, deadlines), any
  program over it and any number of goroutines. TLC has checked `ContextInv` on the Context
  part of the run `libraries`. `Above` is the least set that has the parent of a context
  and is closed under parents, so that the first theorem needs no induction: the contexts
  above c that are not finished are such a set, if c is not (`FinishedBelow`).
  What is inductive is said of one generation (`LinkInv`): a context that is linked is
  among the children of its parent while neither has been finished, and `Finished` means
  more than `err # nil`: no `cancel` is still at its children. That a walk has left
  nothing behind when it ends is `ChainInv`: calls nest, a call waits for the children
  that it has taken out of `left` and called `cancel` for, and each of them is finished
  or is the one that the next call is at. Both hold because the children
  of a context change, and `err` is read, only under its lock (`LockInv`: one call holds a
  lock, so that children stay put during the walk). `CallsInv` says what a call may rely
  on, so that `propagateCancel` passes on an error that is one; `MakeInv`
  that a context is made once and by one call and unknown before, so that a
  timer or a watcher starts once. Calls are a stack with the innermost first;
  `Depth` and `Frame` count from the outermost, so that a place stays put while others
  come and go, and every step has the form of `Shape`: from a place on, the calls of one
  thread become at most two, and `propagateCancel` may start a watcher besides. `Above`
  ends at a foreign parent, which tells nobody: there a goroutine carries the
  cancellation on, and that it has crossed in the end is `CancellationSettled`.
* `LibraryProofs`: `SignalStopLosesNothing`, from `SignalInv`, for any program and any
  number of channels, signals, handlers and arrivals. `Stop` does two things: it waits until no handler is counted and
  then until the receiver sleeps, and only then removes the entry under which the
  channel still gets signals. Both are needed. A signal that is owed is on its way
  (`OwedInv`): a handler is about to queue it, or it is in the queue or being relayed.
  If no handler is counted, it is `Coming`: the receiver takes it over before it sleeps
  again, since every signal in the queue is announced (`QueueInv`) by the
  state word, the note or a handler that will wake the receiver; `NoteInv` says that
  there is one such handler at most and that the note is then clear, so that `notewakeup`
  does not throw. When the receiver sleeps and nobody has announced anything, no signal
  is coming any more. What remains is which entry goes (`StopInv`): Stops of one channel may overlap, and each removes the first entry of
  the channel, not the one it added. There is always a way to give each Stop
  an entry of its own, such that an owed signal is in an entry that only
  Stops still waiting for it have, or ones before it (`Ordered`, `Covered`); if another's
  entry is removed, that Stop is given the later one of the two (`StopRemoveKeeps`).
  TLC has checked `SignalInv` on the programs of the run `signal_stop`.
* `SyncMapProofs`: `MapEntriesAlive`, from `MapInv` in `SyncMap`. That the dirty map is
  complete is preserved only if each entry belongs to one key (`OneKeyEach`: two keys with
  one entry would be expunged together), if entries are expunged only while there is a
  dirty map that does not have them (`DirtyLive`), and if what the holder of `mu` has
  looked up is still so at its next step (`UnderMu`): the new key is in neither map, the
  entries that `dirtyLocked` has not reached are not in the dirty one. There is one lemma
  per action; `QuietStep`, `PromoteStep` and `CriticalStep` are what the actions share.
  Entries are as many as the constant says: `AddKey` waits when none is free.
* `SyncMapProofs`: `SyncMapImplementsMap`, the refinement of `MapSpec`. Over `MapInv` it
  needs `SeenInv`: a call has seen the values that its keys have now, and through an entry
  that it looked up before, it can find only a value that its key has had since it began.
  This is what makes a load through an entry of the past right: an entry that falls out
  of the maps keeps the value its key had at that moment (`KeepsValues`). Each action is
  shown to be a write, a read, the start or the return of a call, or not to show: a
  promotion changes no value (`PromotedValues`), nor do expunging and its undoing. A
  delete through an entry that has been expunged meanwhile is a read: the key had no
  value at some moment of the call, though it may have one again.
* `FDProofs`: `FDWordTellsTruth`, from `FDInv` in `FDProofs`, for every number of goroutines, files,
  descriptors, timerprocs and pollers. The counts of the word are cardinalities of sets of
  goroutines, and what a Close owes to the waiters of two modes a number of pairs (`Rows`), so that
  it is one. A step of a file changes the word, the permits and these sets
  by the same amount for the goroutine that takes it (`Balanced`) and leaves the other
  goroutines and files alone (`Local`); `StepKeeps` adds this up, and there is one lemma
  per method. That no method panics follows: references and waiters are as many as
  goroutines, and `CountLimit` is more. The poller does not touch the word
  (`QuietKeeps`).
* `FDProofs`: `FDDescriptorHeld`, from `DescInv`. The reference count keeps the descriptors
  only if who destroys them is alone and there is nobody left (`LifeInv`: a file is opened
  once, by one goroutine; it is closed by one Close; who destroys it has found it
  closed and without references, and no call can take one any more). That the poll
  descriptor is not freed under its user, nor given to another file, is `OwnInv`: a descriptor
  has at most one owner, a file or the goroutine that opens one, and is on the free list if
  it has none. For this every call of the poller must be one that its file makes, with the file's own
  descriptor (`CallInv`), and a goroutine whose name is in a descriptor must be parked
  there and be readied once (`SleepInv`), since who is readied takes its next step in the
  poller. `EdgeInv` says what the edges are made of.
* `FDProofs`: `FDNeverThrows`, from `ThrowInv`, which is `DescInv` and what the checks of the
  poller rely on. Two goroutines never wait at one mode of a descriptor, because the lock of
  that mode in the file's word has one holder (`Alone`, over `FDInv`); a place marked `wait`
  has a goroutine that is about to park (`WaitInv`); so `netpollblock` finds its place to
  itself. A descriptor is closing exactly when its file is closed and the Close, or the
  failed open, has evicted it (`ClosingInv`), so that it is evicted once and before it is
  closed. Of the timers that were set for a mode, one counts at most, armed, taken out of
  the bucket or at work, and its deadline is set: the others are older than `seq`
  (`TimerInv`). Who is in the middle of its work on a descriptor holds its lock (`LockInv`),
  so that nothing of this changes under it. That the waiters are gone when a descriptor is
  closed takes all of them: whoever waits has a reference, and a Close frees after the last.
* `FDProofs`: `FDParkedForAReason`, from `ReasonInv`, which is `ThrowInv` and, for each
  goroutine that waits, not only for those that are parked, why it may (`Reason`). It must
  hold from the moment the goroutine has looked at the error states for the last time, so
  that the stores of who closes or expires the descriptor are either seen by that check or
  followed by an unblock (`Spared`), and from the moment the system call has found the file
  not ready, so that an edge that came since is in epoll, in the hands of a poller or in the
  descriptor (`Told`). For this whatever is in use must be registered with epoll, for its own
  file (`UseInv`, `RegInv`), a Close must go for both modes, a timer function at work must
  find the descriptor open and a poller must begin with an empty list (`WorkInv`).
  `ReasonOthers` is what the steps of other actors share: there is one lemma per action.

Only model-checked: everything about the treap, that signals, contexts and calls on files
settle, and the refinement of `WaitQueues`. Liveness stays with TLC, being
out of the proof system's reach: `PermitReachesSleeper`, `SomeoneProceeds`,
`BlockedCallsReturn` and the three `CallsSettle`.
`SemaRoot` defines its depth-first views of the tree by functions over the sudogs; what they
compute for every tree would need induction over trees, which is out of reach as well.

## Plan

Done: semaphore, mutex, channels and select, Cond, RWMutex, WaitGroup and Once; then the
treap below the semaphore, the poller and files, `sync.Map`, `context`, the signal queue
with `os/signal`, and `singleflight`.

Next to model: `lock` and `unlock` of the futex locks, shown to implement the root lock of
`Sema`; the heap of timers below `NetPoll` and `Context`; `sync.Pool`; the pipes as
clients of `Select`.

Left to prove are the refinement of `WaitQueues`, which waits for induction over trees,
and what of the above is modelled next.

## Not modelled, and why

* `runtime/proc.go`, the collector and the allocator: the scheduler is assumed, as
  fairness; memory is not moved by the primitives modelled here. Stack copying, which
  the order of `selparkcommit` and of `sudog.elem` also serves, is left out.
* Profiling, tracing and the hooks of the race detector: they do not change the state of
  the primitives.
* `semtable`'s hash: `RootOf` is a constant.
* `lock` and `unlock` of `runtime/lock_futex.go`: the models use runtime locks as critical
  sections. The notes of that file are steps of `SigQueue`.
* `c.L` and `copyChecker` of `sync.Cond`: waiters that hold `c.L` in read mode may all
  call `Wait` at the same time, so the model lets everybody do so.
* In the poller: `netpollWaiters`, a count that only the scheduler reads to decide whether
  polling is worth it; `pollWaitCanceled` (Windows) and `netpollarm` (Solaris); the other
  systems' `netpoll`. In `internal/poll`: `SetBlocking` of an open file, `writev`, and the
  data that is read and written.
* A `closechan` that wins the race for some of the selects that wait on its channel and,
  between two of them, loses others to a party on another channel: `CloseChan` wins all
  that are still asleep in one step. Left out are the outcomes in which the two share such
  selects between them; each would win its own under the lock of its channel, by the swap
  of `selectDone` that the model has.
* The heap of timers and `timerproc`'s loop: the models use of a timer that it fires once
  unless it is deleted before.
* `Reset` and `Ignore` may lose signals that are in the queue; nothing is promised of
  them, and `StopLosesNothing` is asked of what they do not touch.
* `sync.Pool`: per-P lists used with preemption disabled and emptied by the collector,
  which is where its difficulty lies. `io.Pipe`, `net.Pipe`: short clients of channels,
  select, Once and Mutex, whose models are checked in their place.
* The compiler, the commands, the rest of the standard library and the tutorials:
  sequential, or clients of what is modelled.
