------------------------------ MODULE ChanSpec ------------------------------
(***************************************************************************)
(* What channels and select promise, without locks, sudogs or parking: a   *)
(* channel is a FIFO of at most Cap[c] values, an operation takes effect   *)
(* in one step between its call and its return, and an operation waits     *)
(* only while it could not proceed.                                        *)
(***************************************************************************)
EXTENDS Naturals, Sequences

CONSTANTS Goroutines, Chans, Cap, Ops

VARIABLES
  queue,    \* the values buffered in each channel
  closed,   \* the channels that are closed
  status    \* the phase of each goroutine, with its operation and result

specVars == <<queue, closed, status>>

Idle == [phase |-> "idle"]
Called(o) == [phase |-> "called", op |-> o]
Parked(o) == [phase |-> "parked", op |-> o]
Done(o, i, x) == [phase |-> "done", op |-> o, res |-> <<i, x>>]

SpecInit ==
  /\ queue = [c \in Chans |-> <<>>]
  /\ closed = {}
  /\ status = [g \in Goroutines |-> Idle]

In(g, phase) == status[g].phase = phase

\* The cases of g that send to, or receive from, channel c.
CasesOf(g, dir, c) ==
  {i \in DOMAIN status[g].op.cases :
     /\ status[g].op.kind # "close"
     /\ status[g].op.cases[i] = [dir |-> dir, c |-> c]}

\* The other goroutines parked on channel c in that direction.
Partners(g, dir, c) ==
  {h \in Goroutines \ {g} : In(h, "parked") /\ CasesOf(h, dir, c) # {}}

CanSend(g, c) ==
  c \in closed \/ Len(queue[c]) < Cap[c] \/ Partners(g, "recv", c) # {}
CanRecv(g, c) ==
  c \in closed \/ queue[c] # <<>> \/ Partners(g, "send", c) # {}

\* Takes effect on case i, with result x.
Effect(g, i, x) == status' = [status EXCEPT ![g] = Done(@.op, i, x)]

\* The same, for a parked partner h and its case j too.
JointEffect(g, i, x, h, j, y) ==
  status' = [status EXCEPT ![g] = Done(@.op, i, x), ![h] = Done(@.op, j, y)]

Call(g, o) ==
  /\ status' = [status EXCEPT ![g] = Called(o)]
  /\ UNCHANGED <<queue, closed>>

\* Only an operation that cannot proceed waits.
Park(g) ==
  /\ status[g].op.block /\ status[g].op.kind # "close"
  /\ \A c \in Chans : /\ CasesOf(g, "send", c) # {} => ~CanSend(g, c)
                      /\ CasesOf(g, "recv", c) # {} => ~CanRecv(g, c)
  /\ status' = [status EXCEPT ![g] = Parked(@.op)]
  /\ UNCHANGED <<queue, closed>>

Send(g, i, c) ==
  \/ /\ c \in closed
     /\ Effect(g, i, "panic")
     /\ UNCHANGED <<queue, closed>>
  \/ /\ c \notin closed /\ queue[c] = <<>>
     /\ \E h \in Partners(g, "recv", c) : \E j \in CasesOf(h, "recv", c) :
          JointEffect(g, i, "sent", h, j, g)
     /\ UNCHANGED <<queue, closed>>
  \/ /\ c \notin closed /\ Partners(g, "recv", c) = {} /\ Len(queue[c]) < Cap[c]
     /\ queue' = [queue EXCEPT ![c] = Append(@, g)]
     /\ Effect(g, i, "sent")
     /\ UNCHANGED closed

\* A receiver that takes a value from a full buffer makes room for a parked
\* sender.
Recv(g, i, c) ==
  \/ /\ c \in closed /\ queue[c] = <<>>
     /\ Effect(g, i, "closed")
     /\ UNCHANGED <<queue, closed>>
  \/ /\ \E h \in Partners(g, "send", c) : \E j \in CasesOf(h, "send", c) :
          LET full == Append(queue[c], h)
          IN  /\ queue' = [queue EXCEPT ![c] = Tail(full)]
              /\ JointEffect(g, i, Head(full), h, j, "sent")
     /\ UNCHANGED closed
  \/ /\ Partners(g, "send", c) = {} /\ queue[c] # <<>>
     /\ queue' = [queue EXCEPT ![c] = Tail(@)]
     /\ Effect(g, i, Head(queue[c]))
     /\ UNCHANGED closed

\* Closing wakes everybody who waits on the channel, to find it closed.
Close(g, c) ==
  /\ IF c \in Chans \ closed
       THEN /\ closed' = closed \cup {c}
            /\ status' = [h \in Goroutines |->
                 IF h = g
                   THEN Done(status[g].op, 1, "closed")
                 ELSE IF h \in Partners(g, "send", c) \cup Partners(g, "recv", c)
                   THEN Called(status[h].op)
                   ELSE status[h]]
       ELSE /\ Effect(g, 1, "panic")
            /\ UNCHANGED closed
  /\ UNCHANGED queue

\* When an operation may give up is no matter of this specification.
GiveUp(g) ==
  /\ ~status[g].op.block
  /\ Effect(g, 0, "default")
  /\ UNCHANGED <<queue, closed>>

Return(g) ==
  /\ status' = [status EXCEPT ![g] = Idle]
  /\ UNCHANGED <<queue, closed>>

Proceeds(g) ==
  \/ /\ status[g].op.kind = "close"
     /\ Close(g, status[g].op.cases[1].c)
  \/ \E i \in DOMAIN status[g].op.cases :
       LET case == status[g].op.cases[i] IN
       /\ status[g].op.kind # "close" /\ case.c \in Chans
       /\ \/ case.dir = "send" /\ Send(g, i, case.c)
          \/ case.dir = "recv" /\ Recv(g, i, case.c)

SpecNext ==
  \E g \in Goroutines :
    \/ In(g, "idle") /\ \E o \in Ops : Call(g, o)
    \/ In(g, "called") /\ (Park(g) \/ Proceeds(g) \/ GiveUp(g))
    \/ In(g, "done") /\ Return(g)

AbstractSpec == SpecInit /\ [][SpecNext]_specVars
=============================================================================
