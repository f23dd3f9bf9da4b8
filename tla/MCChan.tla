------------------------------- MODULE MCChan -------------------------------
(* Three programs: the operations on an unbuffered channel and on nil, those *)
(* on a ring of two slots, and selects over an unbuffered and a buffered     *)
(* channel that meet each other in both orders of the locks, with the closes *)
(* that race with them.                                                      *)
EXTENDS ChanClients

Unbuffered == 1
Buffered == 2
Ring == 3
TheChans == {Unbuffered, Buffered, Ring}
TheCap == (Unbuffered :> 0) @@ (Buffered :> 1) @@ (Ring :> 2)

ToSend(c) == [dir |-> "send", c |-> c]
ToRecv(c) == [dir |-> "recv", c |-> c]

Single(case, block) == [kind |-> "chan", cases |-> <<case>>, block |-> block]
SelectOp(cases, block) == [kind |-> "select", cases |-> cases, block |-> block]
CloseOp(c) == [kind |-> "close", cases |-> <<ToRecv(c)>>, block |-> TRUE]

OpsOn(c) ==
  {Single(ToSend(c), b) : b \in BOOLEAN} \cup {Single(ToRecv(c), b) : b \in BOOLEAN}
    \cup {CloseOp(c)}

RendezvousOps == OpsOn(Unbuffered) \cup OpsOn(Nil)

SelectOps ==
  {SelectOp(<<ToSend(Unbuffered), ToRecv(Unbuffered)>>, TRUE),
   SelectOp(<<ToRecv(Unbuffered), ToSend(Buffered)>>, TRUE),
   SelectOp(<<ToRecv(Buffered), ToSend(Unbuffered)>>, TRUE),
   SelectOp(<<ToRecv(Buffered), ToRecv(Unbuffered), ToSend(Nil)>>, FALSE),
   CloseOp(Unbuffered)}

ThePrograms == {RendezvousOps, OpsOn(Ring), SelectOps}

Symmetry == Permutations(Goroutines)
=============================================================================
