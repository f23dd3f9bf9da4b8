------------------------------ MODULE CondSpec ------------------------------
(***************************************************************************)
(* What sync.Cond promises (sync/cond.go:36-76), without tickets: waiters  *)
(* stand in line in the order of their calls, Signal wakes the first of    *)
(* them, Broadcast all of them, and nothing else ends a Wait.              *)
(***************************************************************************)
EXTENDS Naturals, Sequences

CONSTANT Goroutines

VARIABLES
  line,     \* the goroutines that wait, in order
  awoken    \* those that were woken and have yet to return

condVars == <<line, awoken>>

CondInit == line = <<>> /\ awoken = {}

Enter(g) ==
  /\ g \notin awoken /\ \A i \in DOMAIN line : line[i] # g
  /\ line' = Append(line, g)
  /\ UNCHANGED awoken

Wake(n) ==
  /\ line' = SubSeq(line, n + 1, Len(line))
  /\ awoken' = awoken \cup {line[i] : i \in 1 .. n}

Signalled == line # <<>> /\ Wake(1)
Broadcasted == line # <<>> /\ Wake(Len(line))

Leave(g) ==
  /\ g \in awoken
  /\ awoken' = awoken \ {g}
  /\ UNCHANGED line

CondNext ==
  \/ \E g \in Goroutines : Enter(g) \/ Leave(g)
  \/ Signalled
  \/ Broadcasted

Condition == CondInit /\ [][CondNext]_condVars
=============================================================================
