----------------------------- MODULE SemaLemmas -----------------------------
(***************************************************************************)
(* Every step of module Sema keeps the types and the queue invariant of    *)
(* the semaphore: lemmas for the proofs about its clients.                 *)
(***************************************************************************)
EXTENDS Sema, SequenceTheorems, FiniteSetTheorems, TLAPS

\* A step that is slow on one machine is given time on every one.
USE SMTT(40), ZenonT(40)

\* What root.queue does to a queue: the new waiter is in it, once.
LEMMA EnqueueFact ==
  ASSUME NEW S, NEW q \in Seq(S), NEW x \in S, NEW lifo \in BOOLEAN
  PROVE  /\ Enqueue(q, x, lifo) \in Seq(S)
         /\ Range(Enqueue(q, x, lifo)) = Range(q) \cup {x}
         /\ IsInjective(q) /\ x \notin Range(q) => IsInjective(Enqueue(q, x, lifo))
<1> DEFINE e == Enqueue(q, x, lifo)
<1>1. CASE lifo
  <2>1. <<x>> \in Seq(S) /\ Len(<<x>>) = 1 /\ <<x>>[1] = x
    OBVIOUS
  <2>2. /\ e \in Seq(S)
        /\ Len(e) = 1 + Len(q)
        /\ \A i \in 1 .. 1 + Len(q) : e[i] = IF i <= 1 THEN x ELSE q[i - 1]
    BY <1>1, <2>1, ConcatProperties DEF Enqueue
  <2>3. Len(q) \in Nat /\ DOMAIN q = 1 .. Len(q) /\ DOMAIN e = 1 .. 1 + Len(q)
    BY <2>2, LenProperties
  <2>4. \A i \in 1 .. Len(q) : i + 1 \in 1 .. 1 + Len(q) /\ e[i + 1] = q[i]
    BY <2>2, <2>3
  <2>5. Range(e) = Range(q) \cup {x}
    <3>1. Range(e) \subseteq Range(q) \cup {x}
      BY <2>2, <2>3 DEF Range
    <3>2. Range(q) \subseteq Range(e)
      BY <2>3, <2>4 DEF Range
    <3>3. x \in Range(e)
      BY <2>2, <2>3 DEF Range
    <3> QED BY <3>1, <3>2, <3>3
  <2>6. ASSUME IsInjective(q), x \notin Range(q)
        PROVE  IsInjective(e)
    <3>1. \A i \in DOMAIN e : i # 1 => i - 1 \in DOMAIN q /\ e[i] = q[i - 1]
      BY <2>2, <2>3
    <3>2. \A i \in DOMAIN e : i # 1 => e[i] # x
      BY <3>1, <2>6 DEF Range
    <3>3. e[1] = x
      BY <2>2, <2>3
    <3>4. \A i, j \in DOMAIN e : i # 1 /\ j # 1 /\ e[i] = e[j] => i - 1 = j - 1
      BY <3>1, <2>6 DEF IsInjective
    <3>5. \A i, j \in DOMAIN e : i - 1 = j - 1 => i = j
      BY <2>3
    <3> QED BY <3>2, <3>3, <3>4, <3>5 DEF IsInjective
  <2> QED BY <2>2, <2>5, <2>6
<1>2. CASE ~lifo
  <2>1. /\ e \in Seq(S)
        /\ Len(e) = Len(q) + 1
        /\ \A i \in 1 .. Len(q) : e[i] = q[i]
        /\ e[Len(q) + 1] = x
    BY <1>2, AppendProperties DEF Enqueue
  <2>2. Len(q) \in Nat /\ DOMAIN q = 1 .. Len(q) /\ DOMAIN e = 1 .. Len(q) + 1
    BY <2>1, LenProperties
  <2>3. Range(e) = Range(q) \cup {x}
    BY <2>1, <2>2 DEF Range
  <2>4. IsInjective(q) /\ x \notin Range(q) => IsInjective(e)
    BY <2>1, <2>2 DEF IsInjective, Range
  <2> QED BY <2>1, <2>3, <2>4
<1> QED BY <1>1, <1>2

\* What root.dequeue does to a queue: it removes its first waiter and no other.
LEMMA DequeueFact ==
  ASSUME NEW S, NEW q \in Seq(S), q # <<>>, IsInjective(q)
  PROVE  /\ Head(q) \in S
         /\ Head(q) \in Range(q)
         /\ Tail(q) \in Seq(S)
         /\ Range(Tail(q)) = Range(q) \ {Head(q)}
         /\ IsInjective(Tail(q))
<1>1. /\ Head(q) \in S
      /\ Tail(q) \in Seq(S)
      /\ Len(Tail(q)) = Len(q) - 1
      /\ \A i \in 1 .. Len(Tail(q)) : Tail(q)[i] = q[i + 1]
  BY HeadTailProperties
<1>2. Len(q) \in Nat /\ Len(q) # 0 /\ DOMAIN q = 1 .. Len(q) /\ Head(q) = q[1]
  BY LenProperties, EmptySeq
<1>3. DOMAIN Tail(q) = 1 .. Len(q) - 1
  BY <1>1, LenProperties
<1>4. \A i \in DOMAIN Tail(q) : i + 1 \in DOMAIN q /\ i + 1 # 1 /\ Tail(q)[i] = q[i + 1]
  BY <1>1, <1>2, <1>3
<1>5. \A i \in DOMAIN q : i # 1 => i - 1 \in DOMAIN Tail(q) /\ Tail(q)[i - 1] = q[i]
  BY <1>1, <1>2, <1>3
<1>6. Head(q) \in Range(q)
  BY <1>2 DEF Range
<1>7. Range(Tail(q)) = Range(q) \ {Head(q)}
  <2>1. Range(Tail(q)) \subseteq Range(q) \ {Head(q)}
    BY <1>2, <1>4 DEF Range, IsInjective
  <2>2. Range(q) \ {Head(q)} \subseteq Range(Tail(q))
    <3> SUFFICES ASSUME NEW x \in Range(q), x # Head(q)
                 PROVE  x \in Range(Tail(q))
      OBVIOUS
    <3>1. PICK i \in DOMAIN q : x = q[i]
      BY DEF Range
    <3>2. i # 1
      BY <1>2, <3>1
    <3>3. i - 1 \in DOMAIN Tail(q) /\ Tail(q)[i - 1] = x
      BY <1>5, <3>1, <3>2, ZenonT(40)
    <3> QED BY <3>3 DEF Range
  <2> QED BY <2>1, <2>2
<1>8. IsInjective(Tail(q))
  BY <1>2, <1>3, <1>4 DEF IsInjective
<1> QED BY <1>1, <1>6, <1>7, <1>8

-----------------------------------------------------------------------------

LEMMA SemaInitInv == SemaInit => SemaTypeOK /\ SemaInv
<1> SUFFICES ASSUME SemaInit
             PROVE  SemaTypeOK /\ SemaInv
  OBVIOUS
<1> USE DEF SemaInit
<1>1. SemaTypeOK
  BY SemaAssumption DEF SemaTypeOK, AcquirePc, ReleasePc
<1>2. \A a \in Addrs : Range(waitq[a]) = {} /\ IsInjective(waitq[a])
  BY DEF Range, IsInjective
<1>3. ParkedOnce
  BY <1>2 DEF ParkedOnce
<1>4. NwaitExact
  <2>1. \A g \in Goroutines : saddr[g] \in Addrs
    BY <1>1 DEF SemaTypeOK
  <2>2. \A r \in Roots : Waiting(r) = {}
    BY <1>2, <2>1 DEF Waiting
  <2> QED BY <2>2, FS_EmptySet DEF NwaitExact
<1> QED BY <1>1, <1>3, <1>4 DEF SemaInv, TicketInv

\* The waiters of a queue are goroutines, and they are finitely many.
LEMMA QueuesOfGoroutines ==
  ASSUME SemaTypeOK
  PROVE  /\ \A a \in Addrs : Range(waitq[a]) \subseteq Goroutines
         /\ \A r \in Roots : IsFiniteSet(Waiting(r))
         /\ \A g \in Goroutines : saddr[g] \in Addrs /\ root(g) \in Roots
<1>1. \A a \in Addrs : Range(waitq[a]) \subseteq Goroutines
  BY ElementOfSeq, LenProperties DEF SemaTypeOK, Range
<1>2. \A r \in Roots : Waiting(r) \subseteq Goroutines
  BY DEF Waiting
<1>3. \A r \in Roots : IsFiniteSet(Waiting(r))
  BY <1>2, SemaAssumption, FS_Subset
<1> QED BY <1>1, <1>3 DEF SemaTypeOK, Roots, root

\* A step of a goroutine that is not parked and holds no dequeued sudog, and that
\* leaves the queues alone, does not disturb who is parked where.
LEMMA QuietStep ==
  ASSUME SemaTypeOK, ParkedOnce,
         NEW g \in Goroutines, NEW label,
         spc[g] \notin {"parked", "ready"}, label \notin {"parked", "ready"},
         spc' = [spc EXCEPT ![g] = label],
         \A h \in Goroutines : h # g => saddr'[h] = saddr[h],
         UNCHANGED <<waitq, target>>
  PROVE  ParkedOnce'
<1>1. \A h \in Goroutines : spc'[h] = IF h = g THEN label ELSE spc[h]
  BY DEF SemaTypeOK
<1>2. \A h \in Goroutines : (spc'[h] = "parked" \/ spc[h] = "parked")
                               => spc'[h] = spc[h] /\ saddr'[h] = saddr[h]
  BY <1>1
<1>3. \A h \in Goroutines : (spc'[h] = "ready" \/ spc[h] = "ready")
                               => spc'[h] = spc[h] /\ saddr'[h] = saddr[h]
  BY <1>1
<1>4. \A a \in Addrs : Range(waitq[a]) \subseteq Goroutines
  BY QueuesOfGoroutines
<1> QED BY <1>2, <1>3, <1>4 DEF ParkedOnce

\* Such a step leaves the waiters of a root as they are, unless it starts or ends
\* the time in which an acquirer counts as one.
LEMMA QuietWaiting ==
  ASSUME SemaTypeOK, ParkedOnce,
         NEW g \in Goroutines, NEW label,
         spc[g] \notin {"parked", "ready"}, label # "parked",
         spc' = [spc EXCEPT ![g] = label],
         \A h \in Goroutines : h # g => saddr'[h] = saddr[h],
         saddr' \in [Goroutines -> Addrs],
         UNCHANGED waitq,
         NEW r \in Roots
  PROVE  /\ g \in Waiting(r) <=> root(g) = r /\ spc[g] \in {"retry", "queue"}
         /\ Waiting(r)' = IF label \in {"retry", "queue"} /\ root(g)' = r
                            THEN Waiting(r) \cup {g} ELSE Waiting(r) \ {g}
<1>1. \A h \in Goroutines : spc'[h] = IF h = g THEN label ELSE spc[h]
  BY DEF SemaTypeOK
<1>2. \A a \in Addrs : g \notin Range(waitq[a])
  BY DEF ParkedOnce
<1>3. g \in Waiting(r) <=> root(g) = r /\ spc[g] \in {"retry", "queue"}
  BY <1>2, QueuesOfGoroutines DEF Waiting
<1>4. g \in Waiting(r)' <=> root(g)' = r /\ label \in {"retry", "queue"}
  BY <1>1, <1>2 DEF Waiting, SemaTypeOK
<1>5. \A h \in Goroutines : h # g => (h \in Waiting(r)' <=> h \in Waiting(r))
  BY <1>1 DEF Waiting, root
<1>6. Waiting(r) \subseteq Goroutines /\ Waiting(r)' \subseteq Goroutines
  BY DEF Waiting
<1> QED BY <1>3, <1>4, <1>5, <1>6

-----------------------------------------------------------------------------

\* A call keeps the invariant, whoever makes it and with whatever arguments.
LEMMA CallKeepsInv ==
  ASSUME SemaTypeOK, SemaInv,
         NEW g \in Goroutines, NEW a \in Addrs, NEW flag \in BOOLEAN,
         NEW entry \in {"easy", "xadd"},
         Call(g, a, flag, entry)
  PROVE  SemaTypeOK' /\ SemaInv'
<1> USE DEF Call
<1>1. SemaTypeOK'
  BY DEF SemaTypeOK, AcquirePc, ReleasePc
<1>2. \A h \in Goroutines : h # g => saddr'[h] = saddr[h]
  BY DEF SemaTypeOK
<1>3. ParkedOnce'
  BY <1>2, QuietStep DEF SemaInv
<1>4. TicketInv'
  BY DEF SemaInv, TicketInv, SemaTypeOK
<1>5. NwaitExact'
  <2>1. \A r \in Roots : Waiting(r)' = Waiting(r)
    <3> TAKE r \in Roots
    <3>1. saddr' \in [Goroutines -> Addrs]
      BY <1>1 DEF SemaTypeOK
    <3>2. g \notin Waiting(r) /\ Waiting(r)' = Waiting(r) \ {g}
      BY <1>2, <3>1, QuietWaiting DEF SemaInv
    <3> QED BY <3>2
  <2> QED BY <2>1 DEF SemaInv, NwaitExact
<1> QED BY <1>1, <1>3, <1>4, <1>5 DEF SemaInv

\* A step that neither parks, wakes, dequeues nor counts a waiter.
LEMMA PlainStep ==
  ASSUME SemaTypeOK, SemaInv, NEW g \in Goroutines, NEW label,
         spc[g] \notin {"parked", "ready", "retry", "queue"},
         label \notin {"parked", "ready", "retry", "queue"},
         spc' = [spc EXCEPT ![g] = label],
         UNCHANGED <<saddr, waitq, target, nwait>>
  PROVE  ParkedOnce' /\ NwaitExact'
<1>1. ParkedOnce'
  BY QuietStep DEF SemaInv
<1>2. \A r \in Roots : Waiting(r)' = Waiting(r)
  <2> TAKE r \in Roots
  <2>1. saddr' \in [Goroutines -> Addrs]
    BY DEF SemaTypeOK
  <2>2. g \notin Waiting(r) /\ Waiting(r)' = Waiting(r) \ {g}
    BY <2>1, QuietWaiting DEF SemaInv
  <2> QED BY <2>2
<1> QED BY <1>1, <1>2 DEF SemaInv, NwaitExact

\* The lock and the second cansemacquire, between which the acquirer is counted.
LEMMA AcquireCountedInv ==
  ASSUME SemaTypeOK, SemaInv, NEW g \in Goroutines,
         SemacquireLock(g) \/ SemacquireRetry(g)
  PROVE  SemaTypeOK' /\ SemaInv'
<1>1. g \in Goroutines /\ saddr[g] \in Addrs /\ root(g) \in Roots
  BY QueuesOfGoroutines
<1>2. saddr' \in [Goroutines -> Addrs] /\ root(g)' = root(g)
  BY DEF SemacquireLock, SemacquireRetry, SemaTypeOK, root
<1>3. CASE SemacquireLock(g)
  <2> USE <1>3 DEF SemacquireLock, Goto
  <2>1. SemaTypeOK'
    BY <1>1 DEF SemaTypeOK, AcquirePc, ReleasePc
  <2>2. ParkedOnce'
    BY QuietStep DEF SemaInv
  <2>3. TicketInv'
    BY DEF SemaInv, TicketInv, SemaTypeOK
  <2>4. ASSUME NEW r \in Roots
        PROVE  nwait'[r] = Cardinality(Waiting(r)')
    <3>1. /\ g \notin Waiting(r)
          /\ Waiting(r)' = IF root(g) = r THEN Waiting(r) \cup {g} ELSE Waiting(r) \ {g}
      BY <1>2, QuietWaiting DEF SemaInv
    <3>2. IsFiniteSet(Waiting(r)) /\ nwait[r] = Cardinality(Waiting(r))
      BY QueuesOfGoroutines DEF SemaInv, NwaitExact
    <3>3. nwait'[r] = IF root(g) = r THEN nwait[r] + 1 ELSE nwait[r]
      BY <1>1 DEF SemaTypeOK
    <3> HIDE DEF SemacquireLock
    <3>4. CASE root(g) = r
      BY <3>1, <3>2, <3>3, <3>4, FS_AddElement
    <3>5. CASE root(g) # r
      BY <3>1, <3>2, <3>3, <3>5, FS_RemoveElement
    <3> QED BY <3>4, <3>5
  <2> QED BY <2>1, <2>2, <2>3, <2>4 DEF SemaInv, NwaitExact
<1>4. CASE SemacquireRetry(g) /\ CanSemacquire(saddr[g])
  <2> USE <1>4 DEF SemacquireRetry, CanSemacquire, Return
  <2>1. ParkedOnce'
    BY QuietStep DEF SemaInv
  <2>2. TicketInv'
    BY DEF SemaInv, TicketInv, SemaTypeOK
  <2>3. ASSUME NEW r \in Roots
        PROVE  /\ nwait'[r] = Cardinality(Waiting(r)')
               /\ r = root(g) => nwait[r] # 0
    <3>1. /\ g \in Waiting(r) <=> root(g) = r
          /\ Waiting(r)' = Waiting(r) \ {g}
      <4>1. /\ spc[g] = "retry"
            /\ spc' = [spc EXCEPT ![g] = "idle"]
            /\ UNCHANGED <<waitq, saddr>>
        OBVIOUS
      <4> HIDE <1>4 DEF SemacquireRetry, CanSemacquire, Return
      <4>2. /\ g \in Waiting(r) <=> root(g) = r /\ spc[g] \in {"retry", "queue"}
            /\ Waiting(r)' = IF "idle" \in {"retry", "queue"} /\ root(g)' = r
                               THEN Waiting(r) \cup {g} ELSE Waiting(r) \ {g}
        BY <1>2, <4>1, QuietWaiting DEF SemaInv
      <4> QED BY <4>1, <4>2
    <3>2. IsFiniteSet(Waiting(r)) /\ nwait[r] = Cardinality(Waiting(r))
      BY QueuesOfGoroutines DEF SemaInv, NwaitExact
    <3>3. nwait'[r] = IF root(g) = r THEN nwait[r] - 1 ELSE nwait[r]
      BY <1>1 DEF SemaTypeOK
    <3>4. nwait'[r] = Cardinality(Waiting(r)')
      <4>1. Cardinality(Waiting(r) \ {g}) =
              IF g \in Waiting(r) THEN Cardinality(Waiting(r)) - 1 ELSE Cardinality(Waiting(r))
        BY <3>2, FS_RemoveElement, ZenonT(40)
      <4> QED BY <3>1, <3>2, <3>3, <4>1, ZenonT(40)
    <3>5. r = root(g) => nwait[r] # 0
      BY <3>1, <3>2, FS_EmptySet
    <3> QED BY <3>4, <3>5
  <2>4. SemaTypeOK'
    <3>1. sval[saddr[g]] - 1 \in Nat
      BY <1>1 DEF SemaTypeOK
    <3>2. nwait[root(g)] - 1 \in Nat
      BY <1>1, <2>3 DEF SemaTypeOK
    <3> QED BY <1>1, <3>1, <3>2, ZenonT(40) DEF SemaTypeOK, AcquirePc, ReleasePc
  <2> QED BY <2>1, <2>2, <2>3, <2>4 DEF SemaInv, NwaitExact
<1>5. CASE SemacquireRetry(g) /\ ~CanSemacquire(saddr[g])
  <2> USE <1>5 DEF SemacquireRetry, Goto
  <2>1. SemaTypeOK'
    BY DEF SemaTypeOK, AcquirePc, ReleasePc
  <2>2. ParkedOnce'
    BY QuietStep DEF SemaInv
  <2>3. TicketInv'
    BY DEF SemaInv, TicketInv, SemaTypeOK
  <2>4. \A r \in Roots : Waiting(r)' = Waiting(r)
    BY <1>2, QuietWaiting DEF SemaInv
  <2> QED BY <2>1, <2>2, <2>3, <2>4 DEF SemaInv, NwaitExact
<1> QED BY <1>3, <1>4, <1>5

\* The acquirer goes to sleep: it moves from the counted to the queued.
LEMMA AcquireQueueInv ==
  ASSUME SemaTypeOK, SemaInv, NEW g \in Goroutines, SemacquireQueue(g)
  PROVE  SemaTypeOK' /\ SemaInv'
<1> DEFINE q == waitq[saddr[g]]
           e == Enqueue(q, g, sflag[g])
<1>1. saddr[g] \in Addrs /\ root(g) \in Roots /\ q \in Seq(Goroutines)
        /\ sflag[g] \in BOOLEAN
  BY QueuesOfGoroutines DEF SemaTypeOK
<1>2. \A a \in Addrs : g \notin Range(waitq[a])
  BY DEF SemacquireQueue, SemaInv, ParkedOnce
<1>3. /\ e \in Seq(Goroutines)
      /\ Range(e) = Range(q) \cup {g}
      /\ IsInjective(e)
  BY <1>1, <1>2, EnqueueFact DEF SemaInv, ParkedOnce
<1>4. /\ \A a \in Addrs : waitq'[a] = IF a = saddr[g] THEN e ELSE waitq[a]
      /\ \A h \in Goroutines : spc'[h] = IF h = g THEN "parked" ELSE spc[h]
      /\ spc[g] = "queue"
      /\ UNCHANGED <<sval, nwait, saddr, ticket, target>>
  BY DEF SemacquireQueue, Goto, SemaTypeOK
<1>5. SemaTypeOK'
  BY <1>1, <1>3 DEF SemacquireQueue, Goto, SemaTypeOK, AcquirePc, ReleasePc
<1>6. ParkedOnce'
  <2>1. \A a \in Addrs : IsInjective(waitq'[a])
    BY <1>3, <1>4 DEF SemaInv, ParkedOnce
  <2>2. \A a \in Addrs : \A h \in Range(waitq'[a]) : spc'[h] = "parked" /\ saddr'[h] = a
    BY <1>3, <1>4, QueuesOfGoroutines DEF SemaInv, ParkedOnce
  <2>3. ASSUME NEW h \in Goroutines, spc'[h] = "ready"
        PROVE  /\ target'[h] \in Goroutines \ Range(waitq'[saddr'[h]])
               /\ spc'[target'[h]] = "parked" /\ saddr'[target'[h]] = saddr'[h]
               /\ \A k \in Goroutines : spc'[k] = "ready" /\ target'[k] = target'[h]
                                         => k = h
    <3>1. spc[h] = "ready" /\ h # g
      BY <1>4, <2>3
    <3>2. target[h] # g
      BY <1>4, <3>1 DEF SemaInv, ParkedOnce
    <3>3. target'[h] \in Goroutines \ Range(waitq'[saddr'[h]])
      BY <1>3, <1>4, <3>1, <3>2, QueuesOfGoroutines DEF SemaInv, ParkedOnce
    <3>4. spc'[target'[h]] = "parked" /\ saddr'[target'[h]] = saddr'[h]
      BY <1>4, <3>1, <3>2 DEF SemaInv, ParkedOnce
    <3>5. \A k \in Goroutines : spc'[k] = "ready" /\ target'[k] = target'[h] => k = h
      BY <1>4, <3>1 DEF SemaInv, ParkedOnce
    <3> QED BY <3>3, <3>4, <3>5
  <2>4. ASSUME NEW h \in Goroutines, spc'[h] = "parked"
        PROVE  \/ h \in Range(waitq'[saddr'[h]])
               \/ \E k \in Goroutines : spc'[k] = "ready" /\ target'[k] = h
    <3>1. CASE h = g
      BY <1>1, <1>3, <1>4, <3>1
    <3>2. CASE h # g
      BY <1>3, <1>4, <2>4, <3>2, QueuesOfGoroutines DEF SemaInv, ParkedOnce
    <3> QED BY <3>1, <3>2
  <2> QED BY <2>1, <2>2, <2>3, <2>4 DEF ParkedOnce
<1>7. TicketInv'
  BY <1>4 DEF SemaInv, TicketInv, SemaTypeOK
<1>8. NwaitExact'
  <2>1. ASSUME NEW r \in Roots, NEW h \in Goroutines
        PROVE  h \in Waiting(r)' <=> h \in Waiting(r)
    <3>1. CASE h = g
      BY <1>1, <1>3, <1>4, <3>1 DEF Waiting, root
    <3>2. CASE h # g
      BY <1>3, <1>4, <3>2, QueuesOfGoroutines DEF Waiting, root
    <3> QED BY <3>1, <3>2
  <2>2. \A r \in Roots : Waiting(r) \subseteq Goroutines /\ Waiting(r)' \subseteq Goroutines
    BY DEF Waiting
  <2>3. \A r \in Roots : Waiting(r)' = Waiting(r)
    BY <2>1, <2>2
  <2> QED BY <1>4, <2>3 DEF SemaInv, NwaitExact
<1> QED BY <1>5, <1>6, <1>7, <1>8 DEF SemaInv

\* A releaser takes the first waiter of its address off the queue.
LEMMA DequeueInv ==
  ASSUME SemaTypeOK, SemaInv, NEW g \in Goroutines, SemreleaseDequeue(g),
         nwait[root(g)] # 0, waitq[saddr[g]] # <<>>
  PROVE  SemaTypeOK' /\ SemaInv'
<1> DEFINE q == waitq[saddr[g]]
           t == Head(q)
<1>1. saddr[g] \in Addrs /\ root(g) \in Roots /\ q \in Seq(Goroutines) /\ IsInjective(q)
  BY QueuesOfGoroutines DEF SemaTypeOK, SemaInv, ParkedOnce
<1>2. /\ t \in Goroutines /\ t \in Range(q)
      /\ Tail(q) \in Seq(Goroutines)
      /\ Range(Tail(q)) = Range(q) \ {t}
      /\ IsInjective(Tail(q))
  BY <1>1, DequeueFact
<1>3. spc[t] = "parked" /\ saddr[t] = saddr[g] /\ \A a \in Addrs : t \in Range(waitq[a]) => a = saddr[g]
  BY <1>1, <1>2 DEF SemaInv, ParkedOnce
<1>4. /\ \A a \in Addrs : waitq'[a] = IF a = saddr[g] THEN Tail(q) ELSE waitq[a]
      /\ \A h \in Goroutines : spc'[h] = IF h = g THEN "ready" ELSE spc[h]
      /\ \A h \in Goroutines : target'[h] = IF h = g THEN t ELSE target[h]
      /\ \A r \in Roots : nwait'[r] = IF r = root(g) THEN nwait[r] - 1 ELSE nwait[r]
      /\ spc[g] = "dequeue"
      /\ UNCHANGED <<sval, saddr, ticket>>
  <2>1. /\ waitq' = [waitq EXCEPT ![saddr[g]] = Tail(@)]
        /\ spc' = [spc EXCEPT ![g] = "ready"]
        /\ target' = [target EXCEPT ![g] = t]
        /\ nwait' = [nwait EXCEPT ![root(g)] = @ - 1]
        /\ spc[g] = "dequeue"
        /\ UNCHANGED <<sval, saddr, ticket>>
    BY <1>1 DEF SemreleaseDequeue, Goto
  <2>2. \A a \in Addrs : waitq'[a] = IF a = saddr[g] THEN Tail(q) ELSE waitq[a]
    BY <1>1, <2>1 DEF SemaTypeOK
  <2>3. \A h \in Goroutines : spc'[h] = IF h = g THEN "ready" ELSE spc[h]
    BY <2>1 DEF SemaTypeOK
  <2>4. \A h \in Goroutines : target'[h] = IF h = g THEN t ELSE target[h]
    BY <2>1 DEF SemaTypeOK
  <2>5. \A r \in Roots : nwait'[r] = IF r = root(g) THEN nwait[r] - 1 ELSE nwait[r]
    BY <1>1, <2>1 DEF SemaTypeOK
  <2> QED BY <2>1, <2>2, <2>3, <2>4, <2>5
<1>5. SemaTypeOK'
  <2>1. nwait[root(g)] - 1 \in Nat
    BY <1>1 DEF SemaTypeOK
  <2> QED BY <1>1, <1>2, <2>1 DEF SemreleaseDequeue, Goto, SemaTypeOK, AcquirePc, ReleasePc
<1>6. \A h \in Goroutines : spc[h] = "ready" => target[h] # t
  BY <1>2, <1>3 DEF SemaInv, ParkedOnce
<1>7. ParkedOnce'
  <2>1. \A a \in Addrs : IsInjective(waitq'[a])
    BY <1>2, <1>4 DEF SemaInv, ParkedOnce
  <2>2. \A a \in Addrs : \A h \in Range(waitq'[a]) : spc'[h] = "parked" /\ saddr'[h] = a
    BY <1>2, <1>4, QueuesOfGoroutines DEF SemaInv, ParkedOnce
  <2>3. ASSUME NEW h \in Goroutines, spc'[h] = "ready"
        PROVE  /\ target'[h] \in Goroutines \ Range(waitq'[saddr'[h]])
               /\ spc'[target'[h]] = "parked" /\ saddr'[target'[h]] = saddr'[h]
               /\ \A k \in Goroutines : spc'[k] = "ready" /\ target'[k] = target'[h]
                                         => k = h
    <3>1. CASE h = g
      BY <1>1, <1>2, <1>3, <1>4, <1>6, <3>1
    <3>2. CASE h # g
      <4>1. spc[h] = "ready" /\ target'[h] = target[h] /\ target[h] # t /\ saddr[h] \in Addrs
        BY <1>4, <1>6, <2>3, <3>2, QueuesOfGoroutines
      <4>2. /\ target[h] \in Goroutines \ Range(waitq[saddr[h]])
            /\ spc[target[h]] = "parked" /\ saddr[target[h]] = saddr[h]
            /\ \A k \in Goroutines : spc[k] = "ready" /\ target[k] = target[h] => k = h
        BY <4>1 DEF SemaInv, ParkedOnce
      <4>3. Range(waitq'[saddr[h]]) \subseteq Range(waitq[saddr[h]])
        BY <1>2, <1>4, <4>1
      <4>4. spc'[target[h]] = "parked"
        BY <1>4, <4>2
      <4> QED BY <1>4, <3>2, <4>1, <4>2, <4>3, <4>4
    <3> QED BY <3>1, <3>2
  <2>4. ASSUME NEW h \in Goroutines, spc'[h] = "parked"
        PROVE  \/ h \in Range(waitq'[saddr'[h]])
               \/ \E k \in Goroutines : spc'[k] = "ready" /\ target'[k] = h
    <3>1. CASE h = t
      BY <1>4, <3>1
    <3>2. CASE h # t /\ h \in Range(waitq[saddr[h]])
      BY <1>2, <1>4, <3>2, QueuesOfGoroutines
    <3>3. CASE h # t /\ h \notin Range(waitq[saddr[h]])
      <4>1. spc[h] = "parked"
        BY <1>4, <2>4
      <4>2. PICK k \in Goroutines : spc[k] = "ready" /\ target[k] = h
        BY <3>3, <4>1 DEF SemaInv, ParkedOnce
      <4> QED BY <1>4, <4>2
    <3> QED BY <3>1, <3>2, <3>3
  <2> QED BY <2>1, <2>2, <2>3, <2>4 DEF ParkedOnce
<1>8. TicketInv'
  BY <1>4 DEF SemaInv, TicketInv, SemaTypeOK
<1>9. ASSUME NEW r \in Roots
      PROVE  nwait'[r] = Cardinality(Waiting(r)')
  <2>1. ASSUME NEW h \in Goroutines
        PROVE  h \in Waiting(r)' <=> h \in Waiting(r) /\ h # t
    <3>1. CASE h = t
      <4>1. spc'[t] = "parked" /\ t \notin Range(waitq'[saddr'[t]])
        BY <1>1, <1>2, <1>3, <1>4
      <4> QED BY <3>1, <4>1 DEF Waiting
    <3>2. CASE h = g
      <4>1. \A a \in Addrs : g \notin Range(waitq[a])
        BY <1>4 DEF SemaInv, ParkedOnce
      <4>2. g \notin Range(waitq'[saddr[g]])
        BY <1>1, <1>2, <1>4, <4>1
      <4>3. spc'[g] \notin {"retry", "queue"} /\ spc[g] \notin {"retry", "queue"}
        BY <1>4
      <4> QED BY <1>1, <1>4, <3>2, <4>1, <4>2, <4>3 DEF Waiting
    <3>3. CASE h # t /\ h # g
      <4>1. h \in Range(waitq'[saddr[h]]) <=> h \in Range(waitq[saddr[h]])
        BY <1>2, <1>4, <3>3, QueuesOfGoroutines
      <4> QED BY <1>4, <3>3, <4>1 DEF Waiting, root
    <3> QED BY <3>1, <3>2, <3>3
  <2>2. Waiting(r)' = Waiting(r) \ {t}
    BY <2>1 DEF Waiting
  <2>3. t \in Waiting(r) <=> root(g) = r
    BY <1>2, <1>3 DEF Waiting, root
  <2>4. IsFiniteSet(Waiting(r)) /\ nwait[r] = Cardinality(Waiting(r))
    BY QueuesOfGoroutines DEF SemaInv, NwaitExact
  <2>5. nwait'[r] = IF root(g) = r THEN nwait[r] - 1 ELSE nwait[r]
    BY <1>4
  <2> HIDE DEF t
  <2>6. Cardinality(Waiting(r) \ {t}) =
          IF t \in Waiting(r) THEN Cardinality(Waiting(r)) - 1 ELSE Cardinality(Waiting(r))
    BY <2>4, FS_RemoveElement, ZenonT(40)
  <2> QED BY <2>2, <2>3, <2>4, <2>5, <2>6, ZenonT(40)
<1> QED BY <1>5, <1>7, <1>8, <1>9 DEF SemaInv, NwaitExact

\* The dequeued waiter is readied, with or without a ticket.
LEMMA ReadyInv ==
  ASSUME SemaTypeOK, SemaInv, NEW g \in Goroutines, SemreleaseReady(g)
  PROVE  SemaTypeOK' /\ SemaInv'
<1> DEFINE t == target[g]
<1>1. /\ spc[g] = "ready" /\ saddr[g] \in Addrs
      /\ t \in Goroutines /\ t # g /\ spc[t] = "parked" /\ saddr[t] = saddr[g]
      /\ \A a \in Addrs : t \notin Range(waitq[a])
      /\ \A h \in Goroutines : spc[h] = "ready" /\ target[h] = t => h = g
  BY QueuesOfGoroutines DEF SemreleaseReady, SemaInv, ParkedOnce
<1>2. /\ \A h \in Goroutines :
            spc'[h] = IF h = t THEN "woken" ELSE IF h = g THEN "idle" ELSE spc[h]
      /\ \A h \in Goroutines : target'[h] = IF h = g THEN Nobody ELSE target[h]
      /\ UNCHANGED <<waitq, nwait, saddr>>
  BY <1>1 DEF SemreleaseReady, SemaTypeOK
<1>3. SemaTypeOK'
  <2>1. sval' \in [Addrs -> Nat] /\ ticket' \in [Goroutines -> BOOLEAN]
    <3>1. CASE sflag[g] /\ CanSemacquire(saddr[g])
      <4>1. sval[saddr[g]] - 1 \in Nat
        BY <1>1, <3>1 DEF SemaTypeOK, CanSemacquire
      <4> QED BY <3>1, <4>1 DEF SemreleaseReady, SemaTypeOK
    <3>2. CASE ~(sflag[g] /\ CanSemacquire(saddr[g]))
      BY <3>2 DEF SemreleaseReady, SemaTypeOK
    <3> QED BY <3>1, <3>2
  <2>2. spc' \in [Goroutines -> {"idle"} \cup AcquirePc \cup ReleasePc]
    BY DEF SemreleaseReady, SemaTypeOK, AcquirePc, ReleasePc
  <2> QED BY <2>1, <2>2 DEF SemreleaseReady, SemaTypeOK
<1>4. ParkedOnce'
  <2>1. \A a \in Addrs : IsInjective(waitq'[a])
    BY <1>2 DEF SemaInv, ParkedOnce
  <2>2. \A a \in Addrs : \A h \in Range(waitq'[a]) : spc'[h] = "parked" /\ saddr'[h] = a
    BY <1>1, <1>2, QueuesOfGoroutines DEF SemaInv, ParkedOnce
  <2>3. ASSUME NEW h \in Goroutines, spc'[h] = "ready"
        PROVE  /\ target'[h] \in Goroutines \ Range(waitq'[saddr'[h]])
               /\ spc'[target'[h]] = "parked" /\ saddr'[target'[h]] = saddr'[h]
               /\ \A k \in Goroutines : spc'[k] = "ready" /\ target'[k] = target'[h]
                                         => k = h
    <3>1. spc[h] = "ready" /\ h # g /\ h # t
      BY <1>2, <2>3
    <3>2. /\ target[h] \in Goroutines \ Range(waitq[saddr[h]])
          /\ spc[target[h]] = "parked" /\ saddr[target[h]] = saddr[h]
          /\ \A k \in Goroutines : spc[k] = "ready" /\ target[k] = target[h] => k = h
      BY <3>1 DEF SemaInv, ParkedOnce
    <3>3. target[h] # t /\ target[h] # g
      BY <1>1, <3>1, <3>2
    <3>4. \A k \in Goroutines : spc'[k] = "ready" => spc[k] = "ready" /\ target'[k] = target[k]
      BY <1>2
    <3> QED BY <1>2, <3>1, <3>2, <3>3, <3>4
  <2>4. ASSUME NEW h \in Goroutines, spc'[h] = "parked"
        PROVE  \/ h \in Range(waitq'[saddr'[h]])
               \/ \E k \in Goroutines : spc'[k] = "ready" /\ target'[k] = h
    <3>1. spc[h] = "parked" /\ h # t
      BY <1>2, <2>4
    <3>2. CASE h \in Range(waitq[saddr[h]])
      BY <1>2, <3>2
    <3>3. CASE h \notin Range(waitq[saddr[h]])
      <4>1. PICK k \in Goroutines : spc[k] = "ready" /\ target[k] = h
        BY <3>1, <3>3 DEF SemaInv, ParkedOnce
      <4>2. k # g /\ k # t
        BY <1>1, <3>1, <4>1
      <4> QED BY <1>2, <4>1, <4>2
    <3> QED BY <3>2, <3>3
  <2> QED BY <2>1, <2>2, <2>3, <2>4 DEF ParkedOnce
<1>5. TicketInv'
  BY <1>1, <1>2 DEF SemreleaseReady, SemaInv, TicketInv, SemaTypeOK
<1>6. NwaitExact'
  <2>1. ASSUME NEW r \in Roots, NEW h \in Goroutines
        PROVE  h \in Waiting(r)' <=> h \in Waiting(r)
    BY <1>1, <1>2, QueuesOfGoroutines DEF Waiting, root
  <2>2. \A r \in Roots : Waiting(r)' = Waiting(r)
    BY <2>1 DEF Waiting
  <2> QED BY <1>2, <2>2 DEF SemaInv, NwaitExact
<1> QED BY <1>3, <1>4, <1>5, <1>6 DEF SemaInv

\* Every step of a call of semacquire1 or semrelease1 keeps the invariant.
LEMMA SemaStepKeepsInv ==
  ASSUME SemaTypeOK, SemaInv, NEW g \in Goroutines, SemaStep(g)
  PROVE  SemaTypeOK' /\ SemaInv'
<1>1. saddr[g] \in Addrs
  BY QueuesOfGoroutines
<1>2. ASSUME SemacquireEasy(g) \/ SemacquireWake(g)
             \/ SemreleaseXadd(g) \/ SemreleaseCheck(g)
      PROVE  SemaTypeOK' /\ SemaInv'
  <2>1. SemaTypeOK'
    <3> HIDE <1>2
    <3>0. CanSemacquire(saddr[g]) => sval[saddr[g]] - 1 \in Nat
      BY <1>1 DEF SemaTypeOK, CanSemacquire
    <3>1. CASE SemacquireEasy(g)
      BY <3>0, <3>1 DEF SemacquireEasy, Return, Goto, SemaTypeOK, AcquirePc, ReleasePc
    <3>2. CASE SemacquireWake(g)
      <4>1. sval' \in [Addrs -> Nat]
        <5>1. CASE ticket[g]
          BY <3>2, <5>1 DEF SemacquireWake, SemaTypeOK
        <5>2. CASE ~ticket[g]
          BY <3>0, <3>2, <5>2 DEF SemacquireWake, SemaTypeOK
        <5> QED BY <5>1, <5>2
      <4>2. spc' \in [Goroutines -> {"idle"} \cup AcquirePc \cup ReleasePc]
        BY <3>2 DEF SemacquireWake, Return, Goto, SemaTypeOK, AcquirePc, ReleasePc
      <4>3. sflag' \in [Goroutines -> BOOLEAN] /\ ticket' \in [Goroutines -> BOOLEAN]
        BY <3>2 DEF SemacquireWake, Return, Goto, SemaTypeOK
      <4> QED BY <3>2, <4>1, <4>2, <4>3 DEF SemacquireWake, SemaTypeOK
    <3>3. CASE SemreleaseXadd(g)
      BY <1>1, <3>3 DEF SemreleaseXadd, Goto, SemaTypeOK, AcquirePc, ReleasePc
    <3>4. CASE SemreleaseCheck(g)
      BY <3>4 DEF SemreleaseCheck, Return, Goto, SemaTypeOK, AcquirePc, ReleasePc
    <3> QED BY <1>2, <3>1, <3>2, <3>3, <3>4
  <2>2. \E label \in {"idle", "lock", "check", "dequeue"} : spc' = [spc EXCEPT ![g] = label]
    BY <1>2 DEF SemacquireEasy, SemacquireWake, SemreleaseXadd, SemreleaseCheck, Return, Goto
  <2>3. /\ spc[g] \notin {"parked", "ready", "retry", "queue"}
        /\ UNCHANGED <<saddr, waitq, target, nwait>>
    BY <1>2 DEF SemacquireEasy, SemacquireWake, SemreleaseXadd, SemreleaseCheck
  <2>4. ParkedOnce' /\ NwaitExact'
    BY <2>2, <2>3, PlainStep
  <2>5. TicketInv'
    BY <1>2 DEF SemacquireEasy, SemacquireWake, SemreleaseXadd, SemreleaseCheck, Return,
                Goto, SemaInv, TicketInv, SemaTypeOK
  <2> QED BY <2>1, <2>4, <2>5 DEF SemaInv
<1>3. CASE SemreleaseDequeue(g)
  <2>1. CASE nwait[root(g)] = 0 \/ waitq[saddr[g]] = <<>>
    <3>1. /\ spc[g] = "dequeue"
          /\ spc' = [spc EXCEPT ![g] = "idle"]
          /\ sflag' = [sflag EXCEPT ![g] = FALSE]
          /\ UNCHANGED <<sval, waitq, nwait, rootLock, saddr, ticket, target>>
      BY <1>3, <2>1 DEF SemreleaseDequeue, Return
    <3>2. SemaTypeOK'
      BY <3>1 DEF SemaTypeOK
    <3>3. ParkedOnce' /\ NwaitExact'
      BY <3>1, PlainStep
    <3>4. TicketInv'
      BY <3>1 DEF SemaInv, TicketInv, SemaTypeOK
    <3> QED BY <3>2, <3>3, <3>4 DEF SemaInv
  <2>2. CASE nwait[root(g)] # 0 /\ waitq[saddr[g]] # <<>>
    BY <1>3, <2>2, DequeueInv
  <2> QED BY <2>1, <2>2
<1> QED BY <1>2, <1>3, AcquireCountedInv, AcquireQueueInv, ReadyInv
        DEF SemaStep, Semacquire, Semrelease

\* Without handoffs, what a step of the semaphore does to its clients: it takes a permit
\* and returns, adds a permit, or shows neither.
LEMMA SemaEffect ==
  ASSUME SemaTypeOK, SemaInv, NEW g \in Goroutines, SemaStep(g),
         \A h \in Goroutines : ~ticket[h] /\ (spc[h] \in ReleasePc => ~sflag[h])
  PROVE  /\ UNCHANGED <<saddr, ticket>> /\ spc[g] # "idle"
         /\ \A h \in Goroutines :
              /\ spc'[h] \in ReleasePc => spc[h] \in ReleasePc /\ ~sflag'[h]
              /\ spc'[h] \in AcquirePc => spc[h] \in AcquirePc
              /\ h # g => /\ spc'[h] = "idle" <=> spc[h] = "idle"
                          /\ spc'[h] = "xadd" <=> spc[h] = "xadd"
         /\ \/ /\ UNCHANGED sval /\ spc[g] # "xadd" /\ spc'[g] # "xadd"
               /\ spc[g] \in AcquirePc => spc'[g] # "idle"
            \/ /\ spc[g] \in AcquirePc /\ spc'[g] = "idle" /\ sval[saddr[g]] > 0
               /\ sval' = [sval EXCEPT ![saddr[g]] = @ - 1]
            \/ /\ spc[g] = "xadd" /\ spc'[g] = "check"
               /\ sval' = [sval EXCEPT ![saddr[g]] = @ + 1]
<1> USE DEF AcquirePc, ReleasePc
<1>1. CASE SemacquireEasy(g)
  BY <1>1 DEF SemacquireEasy, CanSemacquire, Goto, Return, SemaTypeOK
<1>2. CASE SemacquireLock(g) \/ SemacquireQueue(g)
  BY <1>2 DEF SemacquireLock, SemacquireQueue, Goto, SemaTypeOK
<1>3. CASE SemacquireRetry(g)
  BY <1>3 DEF SemacquireRetry, CanSemacquire, Goto, Return, SemaTypeOK
<1>4. CASE SemacquireWake(g)
  <2>1. ~ticket[g]
    OBVIOUS
  <2>2. ticket' = ticket
    BY <1>4, <2>1 DEF SemacquireWake, SemaTypeOK
  <2>3. CASE CanSemacquire(saddr[g])
    BY <1>4, <2>1, <2>2, <2>3 DEF SemacquireWake, CanSemacquire, Return, SemaTypeOK
  <2>4. CASE ~CanSemacquire(saddr[g])
    BY <1>4, <2>1, <2>2, <2>4 DEF SemacquireWake, Goto, SemaTypeOK
  <2> QED BY <2>3, <2>4
<1>5. CASE SemreleaseXadd(g)
  BY <1>5 DEF SemreleaseXadd, Goto, SemaTypeOK
<1>6. CASE SemreleaseCheck(g) \/ SemreleaseDequeue(g)
  BY <1>6 DEF SemreleaseCheck, SemreleaseDequeue, Goto, Return, SemaTypeOK
<1>7. CASE SemreleaseReady(g)
  <2>1. spc[g] = "ready" /\ ~sflag[g] /\ target[g] \in Goroutines /\ spc[target[g]] = "parked"
    BY <1>7 DEF SemreleaseReady, SemaInv, ParkedOnce
  <2>2. UNCHANGED <<saddr, ticket, sval>>
    BY <1>7, <2>1 DEF SemreleaseReady
  <2>3. \A h \in Goroutines :
          spc'[h] = IF h = target[g] THEN "woken" ELSE IF h = g THEN "idle" ELSE spc[h]
    BY <1>7, <2>1 DEF SemreleaseReady, SemaTypeOK
  <2>4. \A h \in Goroutines : h # g => sflag'[h] = sflag[h]
    BY <1>7 DEF SemreleaseReady, SemaTypeOK
  <2> QED BY <2>1, <2>2, <2>3, <2>4
<1> QED BY <1>1, <1>2, <1>3, <1>4, <1>5, <1>6, <1>7 DEF SemaStep, Semacquire, Semrelease

\* The number of members of a set when only one candidate may come or go.
LEMMA OneMoves ==
  ASSUME NEW S, NEW T, NEW U, NEW g \in U, IsFiniteSet(U), S \subseteq U, T \subseteq U,
         \A h \in U : h # g => (h \in T <=> h \in S)
  PROVE  /\ Cardinality(S) \in Nat /\ Cardinality(T) \in Nat
         /\ Cardinality(T) = Cardinality(S) + (IF g \in T THEN 1 ELSE 0) - (IF g \in S THEN 1 ELSE 0)
         /\ g \in S => Cardinality(S) > 0
<1>1. IsFiniteSet(S) /\ IsFiniteSet(T)
  BY FS_Subset
<1>2. Cardinality(S) \in Nat /\ Cardinality(T) \in Nat
  BY <1>1, FS_CardinalityType
<1>3. g \in S => Cardinality(S) > 0
  BY <1>1, <1>2, FS_EmptySet
<1>4. CASE g \in T <=> g \in S
  <2>1. T = S
    BY <1>4
  <2> QED BY <1>2, <1>3, <1>4, <2>1
<1>5. CASE g \in T /\ g \notin S
  <2>1. T = S \cup {g}
    BY <1>5
  <2> QED BY <1>1, <1>2, <1>3, <1>5, <2>1, FS_AddElement
<1>6. CASE g \notin T /\ g \in S
  <2>1. T = S \ {g}
    BY <1>6
  <2> QED BY <1>1, <1>2, <1>3, <1>6, <2>1, FS_RemoveElement
<1> QED BY <1>4, <1>5, <1>6

\* A step of a client that does not touch the semaphore.
LEMMA SemaUnchanged ==
  ASSUME SemaTypeOK, SemaInv, UNCHANGED semaVars
  PROVE  SemaTypeOK' /\ SemaInv'
BY DEF semaVars, SemaTypeOK, SemaInv, ParkedOnce, TicketInv, NwaitExact, Waiting, root
=============================================================================
