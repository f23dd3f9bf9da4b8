----------------------------- MODULE WaitQueues -----------------------------
(***************************************************************************)
(* What a semaRoot keeps: the sudogs that wait on each address, the next   *)
(* to wake first.  Module Sema is built on this view of it.                *)
(***************************************************************************)
EXTENDS Sequences

CONSTANTS Sudogs, Elems

VARIABLE queues

QueuesInit == queues = [a \in Elems |-> <<>>]

InNone(s, q) == \A a \in Elems : \A i \in DOMAIN q[a] : q[a][i] # s

\* What may become of the queue of an address, if it was q, all of them were all:
\* a sudog that waited nowhere goes to its end, or lifo to its front; or the first
\* one is taken.
Outcomes(q, all) ==
  {Append(q, s) : s \in {t \in Sudogs : InNone(t, all)}}
    \cup {<<s>> \o q : s \in {t \in Sudogs : InNone(t, all)}}
    \cup (IF q = <<>> THEN {} ELSE {Tail(q)})

QueuesNext ==
  \E all \in {queues}, a \in Elems :
    \E q \in Outcomes(all[a], all) : queues' = [all EXCEPT ![a] = q]

Queues == QueuesInit /\ [][QueuesNext]_queues
=============================================================================
