-------------------------------- MODULE Chan --------------------------------
(***************************************************************************)
(* Channels and select of the Go runtime: chansend, chanrecv and closechan *)
(* (runtime/chan.go), selectgo (runtime/select.go).                        *)
(*                                                                         *)
(* What a goroutine does to one channel between lock(&c.lock) and unlock   *)
(* is one step, since everything else touches the channel under its lock;  *)
(* the exceptions are the two unlocked reads of a non-blocking operation,  *)
(* a step each.  select takes the locks one at a time, and gives them up   *)
(* one at a time when it parks.  Readying a goroutine that was dequeued is *)
(* a later step, after the unlock.                                         *)
(*                                                                         *)
(* A channel is its address, so that select can sort by it; the value sent *)
(* is the identity of the goroutine that sends it.                         *)
(***************************************************************************)
EXTENDS Naturals, Sequences, FiniteSets, FiniteSetsExt, SequencesExt

CONSTANTS
  Goroutines,
  Chans,        \* the addresses of the channels
  Cap,          \* Cap[c]: c.dataqsiz
  Nobody        \* no goroutine, and the zero value of an element

ASSUME ChanAssumption ==
  /\ Chans \subseteq Nat \ {0} /\ IsFiniteSet(Chans)
  /\ Cap \in [Chans -> Nat]
  /\ Nobody \notin Goroutines
  /\ (Goroutines \cup {Nobody}) \cap {"sent", "closed", "panic", "default"} = {}

Nil == 0  \* the nil channel; as a param, the nil sudog

(***************************************************************************)
(* An operation a goroutine may call: "chan" is c <- x or <-c, alone       *)
(* (block) or as the only case next to a default (~block); "select" a      *)
(* select of several cases, ~block when it has a default; "close" close(c).*)
(***************************************************************************)
Case == [dir : {"send", "recv"}, c : Chans \cup {Nil}]
NoOp == [kind |-> "none", cases |-> <<>>, block |-> TRUE]
IsOp(o) ==
  /\ DOMAIN o = {"kind", "cases", "block"}
  /\ o.kind \in {"chan", "select", "close"}
  /\ o.cases \in Seq(Case) /\ o.block \in BOOLEAN
  /\ o.kind # "select" => Len(o.cases) = 1

VARIABLES
  ch,           \* the hchan of each channel
  chlock,       \* c.lock: the goroutine on whose behalf it is held, or Nobody
  pc,           \* where each goroutine is in its operation
  op,           \* the operation, NoOp outside one
  selectDone,   \* g.selectDone: somebody has won the race to wake the select
  param,        \* g.param: the case whose sudog completed, or Nil
  elem,         \* *sudog.elem of a receiver: what a sender has written there
  wakes,        \* the goroutines dequeued, to be readied after the unlock
  commit,       \* the channels selparkcommit has yet to unlock
  res           \* the result of the operation, <<case, what happened>>

chanVars == <<ch, chlock, pc, op, selectDone, param, elem, wakes, commit, res>>

Sudog == [g : Goroutines, case : Nat \ {0}, isSelect : BOOLEAN]
Value == Goroutines \cup {Nobody}
Outcome == Value \cup {"sent", "closed", "panic", "default"}
NoResult == <<0, Nobody>>
Default == <<0, "default">>

Slot(c) == IF Cap[c] = 0 THEN {0} ELSE 0 .. Cap[c] - 1

Hchan(c) ==
  [qcount : 0 .. Cap[c], sendx : Slot(c), recvx : Slot(c),
   buf : [0 .. Cap[c] - 1 -> Value],
   closed : BOOLEAN, sendq : Seq(Sudog), recvq : Seq(Sudog)]

\* makechan
NewHchan(c) ==
  [qcount |-> 0, sendx |-> 0, recvx |-> 0,
   buf |-> [i \in 0 .. Cap[c] - 1 |-> Nobody],
   closed |-> FALSE, sendq |-> <<>>, recvq |-> <<>>]

ChanTypeOK ==
  /\ DOMAIN ch = Chans /\ \A c \in Chans : ch[c] \in Hchan(c)
  /\ chlock \in [Chans -> Goroutines \cup {Nobody}]
  /\ pc \in [Goroutines -> {"idle", "fast", "fast2", "lock", "sellock", "loop",
                            "parked", "awake", "relock", "done", "throw"}]
  /\ DOMAIN op = Goroutines
  /\ \A g \in Goroutines : op[g] = NoOp \/ IsOp(op[g])
  /\ selectDone \in [Goroutines -> BOOLEAN]
  /\ param \in [Goroutines -> Nat]
  /\ elem \in [Goroutines -> Value]
  /\ wakes \in [Goroutines -> SUBSET Goroutines]
  /\ commit \in [Goroutines -> SUBSET Chans]
  /\ res \in [Goroutines -> Nat \X Outcome]

ChanInit ==
  /\ ch = [c \in Chans |-> NewHchan(c)]
  /\ chlock = [c \in Chans |-> Nobody]
  /\ pc = [g \in Goroutines |-> "idle"]
  /\ op = [g \in Goroutines |-> NoOp]
  /\ selectDone = [g \in Goroutines |-> FALSE]
  /\ param = [g \in Goroutines |-> Nil]
  /\ elem = [g \in Goroutines |-> Nobody]
  /\ wakes = [g \in Goroutines |-> {}]
  /\ commit = [g \in Goroutines |-> {}]
  /\ res = [g \in Goroutines |-> NoResult]

Goto(g, label) == pc' = [pc EXCEPT ![g] = label]

\* The operation has its result; what it dequeued is still to be readied.
Finish(g, case, outcome) ==
  /\ Goto(g, "done")
  /\ res' = [res EXCEPT ![g] = <<case, outcome>>]

-----------------------------------------------------------------------------
(* Wait queues                                                             *)

Field == [send |-> "sendq", recv |-> "recvq"]
Other == [send |-> "recv", recv |-> "send"]

\* Mutant: dequeue does not look at selectDone.
LiveAlways(s) == TRUE

\* A sudog of a select that somebody has already woken is skipped.
Live(s) == s.isSelect => ~selectDone[s.g]

LiveIn(q) == {i \in DOMAIN q : Live(q[i])}

\* dequeue: the first live sudog, and the queue left behind; the stale ones in
\* front of it are gone with it.
First(q) == q[Min(LiveIn(q))]
Rest(q) == IF LiveIn(q) = {} THEN <<>> ELSE SubSeq(q, Min(LiveIn(q)) + 1, Len(q))

\* g has dequeued s: it owns the wakeup of s.g.  The param it will hand over
\* is private to the two of them until then.
Claim(g, s, case, x) ==
  /\ selectDone' = [selectDone EXCEPT ![s.g] = s.isSelect]
  /\ param' = [param EXCEPT ![s.g] = case]
  /\ elem' = [elem EXCEPT ![s.g] = x]
  /\ wakes' = [wakes EXCEPT ![g] = {s.g}]

NoWake == UNCHANGED <<selectDone, param, elem, wakes>>

Waiting(c, dir) == LiveIn(ch[c][Field[dir]]) # {}

\* A case can proceed at once.
Ready(case) ==
  /\ case.c # Nil
  /\ \/ ch[case.c].closed
     \/ Waiting(case.c, Other[case.dir])
     \/ case.dir = "send" /\ ch[case.c].qcount < Cap[case.c]
     \/ case.dir = "recv" /\ ch[case.c].qcount > 0

\* Mutant: a dequeue that fails leaves the stale sudogs where they are.
ExaminedUntouched(cases) == ch

\* The channels after dequeue has failed on behalf of these cases: only stale
\* sudogs were there.
Examined(cases) ==
  [c \in Chans |->
     [ch[c] EXCEPT
        !.recvq = IF [dir |-> "send", c |-> c] \in cases THEN <<>> ELSE @,
        !.sendq = IF [dir |-> "recv", c |-> c] \in cases THEN <<>> ELSE @]]

\* The next slot of the circular buffer.
Advance(i, c) == IF i + 1 = Cap[c] THEN 0 ELSE i + 1

-----------------------------------------------------------------------------
(* What a goroutine does to a channel that is ready, with its lock held:   *)
(* the same six ways in chansend, chanrecv and pass 1 of selectgo.  hs are *)
(* the channels as the cases examined before have left them.               *)

SendPanics(g, i, c, hs) ==
  /\ hs[c].closed
  /\ ch' = hs
  /\ Finish(g, i, "panic")
  /\ NoWake

\* Mutant: the value is not copied to the receiver.
SendToReceiverNoCopy(g, i, c, hs) ==
  /\ ~hs[c].closed /\ LiveIn(hs[c].recvq) # {}
  /\ LET r == First(hs[c].recvq)
     IN  Claim(g, r, r.case, Nobody)
  /\ ch' = [hs EXCEPT ![c].recvq = Rest(@)]
  /\ Finish(g, i, "sent")

\* send: the value goes to a waiting receiver, past the buffer.
SendToReceiver(g, i, c, hs) ==
  /\ ~hs[c].closed /\ LiveIn(hs[c].recvq) # {}
  /\ LET r == First(hs[c].recvq)
     IN  Claim(g, r, r.case, g)
  /\ ch' = [hs EXCEPT ![c].recvq = Rest(@)]
  /\ Finish(g, i, "sent")

SendToBuffer(g, i, c, hs) ==
  /\ ~hs[c].closed /\ LiveIn(hs[c].recvq) = {} /\ hs[c].qcount < Cap[c]
  /\ ch' = [hs EXCEPT ![c].buf[hs[c].sendx] = g,
                      ![c].sendx = Advance(@, c),
                      ![c].qcount = @ + 1,
                      ![c].recvq = <<>>]
  /\ Finish(g, i, "sent")
  /\ NoWake

\* recv: from the waiting sender when there is no buffer, else from the head of
\* the full buffer, whose slot the value of the sender takes.
RecvFromSender(g, i, c, hs) ==
  /\ LiveIn(hs[c].sendq) # {}
  /\ LET s == First(hs[c].sendq)
         x == hs[c].recvx
     IN  /\ Claim(g, s, s.case, Nobody)
         /\ IF Cap[c] = 0
              THEN /\ ch' = [hs EXCEPT ![c].sendq = Rest(@)]
                   /\ Finish(g, i, s.g)
              ELSE /\ ch' = [hs EXCEPT ![c].buf[x] = s.g,
                                       ![c].recvx = Advance(@, c),
                                       ![c].sendx = Advance(x, c),
                                       ![c].sendq = Rest(@)]
                   /\ Finish(g, i, hs[c].buf[x])

RecvFromBuffer(g, i, c, hs) ==
  /\ LiveIn(hs[c].sendq) = {} /\ hs[c].qcount > 0
  /\ ch' = [hs EXCEPT ![c].buf[hs[c].recvx] = Nobody,
                      ![c].recvx = Advance(@, c),
                      ![c].qcount = @ - 1,
                      ![c].sendq = <<>>]
  /\ Finish(g, i, hs[c].buf[hs[c].recvx])
  /\ NoWake

RecvClosed(g, i, c, hs) ==
  /\ hs[c].closed /\ hs[c].qcount = 0 /\ LiveIn(hs[c].sendq) = {}
  /\ ch' = hs
  /\ Finish(g, i, "closed")
  /\ NoWake

Proceed(g, i, hs) ==
  LET case == op[g].cases[i]
      c    == case.c
  IN  \/ /\ case.dir = "send"
         /\ \/ SendPanics(g, i, c, hs)
            \/ SendToReceiver(g, i, c, hs)
            \/ SendToBuffer(g, i, c, hs)
      \/ /\ case.dir = "recv"
         /\ \/ RecvFromSender(g, i, c, hs)
            \/ RecvFromBuffer(g, i, c, hs)
            \/ RecvClosed(g, i, c, hs)

\* The sudogs that g puts on the queue of c in that direction, one for each such case.
Places(cases, c, dir) ==
  SetToSeq({i \in DOMAIN cases : cases[i] = [dir |-> dir, c |-> c]})
SudogOf(g, i) == [g |-> g, case |-> i, isSelect |-> op[g].kind = "select"]
Sudogs(g, cases, c, dir) ==
  [k \in DOMAIN Places(cases, c, dir) |-> SudogOf(g, Places(cases, c, dir)[k])]

\* hs with a sudog of g for each of these cases at the end of its queue.
Enqueued(g, cases, hs) ==
  [c \in Chans |-> [hs[c] EXCEPT !.sendq = @ \o Sudogs(g, cases, c, "send"),
                                 !.recvq = @ \o Sudogs(g, cases, c, "recv")]]

-----------------------------------------------------------------------------
(* One channel: chansend, chanrecv, closechan                              *)

theCase(g) == op[g].cases[1]

\* A call begins.  A non-blocking operation first tries without the lock.
Invoke(g, o) ==
  /\ pc[g] = "idle"
  /\ op' = [op EXCEPT ![g] = o]
  /\ Goto(g, CASE o.kind = "select"             -> "sellock"
               [] o.kind = "chan" /\ ~o.block   -> "fast"
               [] OTHER                         -> "lock")
  /\ UNCHANGED <<ch, chlock, selectDone, param, elem, wakes, commit, res>>

\* On a nil channel close panics, a non-blocking operation fails, and a blocking
\* one parks for ever.
OnNil(g) ==
  /\ pc[g] \in {"fast", "lock"} /\ theCase(g).c = Nil
  /\ \/ op[g].kind = "close" /\ Finish(g, 1, "panic")
     \/ op[g].kind = "chan" /\ ~op[g].block /\ Finish(g, 0, "default")
     \/ op[g].kind = "chan" /\ op[g].block /\ Goto(g, "parked") /\ UNCHANGED res
  /\ UNCHANGED <<ch, chlock, op, selectDone, param, elem, wakes, commit>>

\* What the unlocked read sees: the first sudog, even a stale one, or the count.
LooksFull(c) == IF Cap[c] = 0 THEN ch[c].recvq = <<>> ELSE ch[c].qcount = Cap[c]
LooksEmpty(c) == IF Cap[c] = 0 THEN ch[c].sendq = <<>> ELSE ch[c].qcount = 0

\* Mutant: a receive reads closed first.
FastReadsSwapped(dir, c) ==
  IF dir = "send" THEN <<~ch[c].closed, LooksFull(c)>>
                  ELSE <<~ch[c].closed, LooksEmpty(c)>>

\* The two reads without the lock, in order; the operation fails if both find so.
FastReads(dir, c) ==
  IF dir = "send" THEN <<~ch[c].closed, LooksFull(c)>>
                  ELSE <<LooksEmpty(c), ~ch[c].closed>>

FastRead1(g) ==
  /\ pc[g] = "fast" /\ theCase(g).c # Nil
  /\ Goto(g, IF FastReads(theCase(g).dir, theCase(g).c)[1] THEN "fast2" ELSE "lock")
  /\ UNCHANGED <<ch, chlock, op, selectDone, param, elem, wakes, commit, res>>

FastRead2(g) ==
  /\ pc[g] = "fast2"
  /\ IF FastReads(theCase(g).dir, theCase(g).c)[2]
       THEN Finish(g, 0, "default")
       ELSE Goto(g, "lock") /\ UNCHANGED res
  /\ UNCHANGED <<ch, chlock, op, selectDone, param, elem, wakes, commit>>

\* chansend and chanrecv under the lock.
ChanOp(g) ==
  LET case == theCase(g) IN
  /\ pc[g] = "lock" /\ op[g].kind = "chan" /\ case.c # Nil
  /\ chlock[case.c] = Nobody
  /\ \/ Proceed(g, 1, ch)
     \/ /\ ~Ready(case)
        /\ IF op[g].block
             THEN /\ ch' = Enqueued(g, op[g].cases, Examined({case}))
                  /\ Goto(g, "parked")
                  /\ UNCHANGED res
             ELSE /\ ch' = Examined({case})
                  /\ Finish(g, 0, "default")
        /\ NoWake
  /\ UNCHANGED <<chlock, op, commit>>

\* After the park: a nil param means that the channel was closed.
ChanWake(g) ==
  LET case == theCase(g) IN
  /\ pc[g] = "awake" /\ op[g].kind = "chan"
  /\ IF case.dir = "send" /\ param[g] = Nil /\ ~ch[case.c].closed
       THEN Goto(g, "throw") /\ UNCHANGED res
       ELSE Finish(g, 1, IF param[g] = Nil
                           THEN IF case.dir = "send" THEN "panic" ELSE "closed"
                           ELSE IF case.dir = "send" THEN "sent" ELSE elem[g])
  /\ param' = [param EXCEPT ![g] = Nil]
  /\ UNCHANGED <<ch, chlock, op, selectDone, elem, wakes, commit>>

\* closechan: everybody who waits on the channel is dequeued, with a nil param.
CloseChan(g) ==
  LET c       == theCase(g).c
      waiters == {s \in ToSet(ch[c].recvq) \cup ToSet(ch[c].sendq) : Live(s)}
      woken   == {s.g : s \in waiters}
  IN
  /\ pc[g] = "lock" /\ op[g].kind = "close" /\ c # Nil
  /\ chlock[c] = Nobody
  /\ IF ch[c].closed
       THEN /\ Finish(g, 1, "panic")
            /\ UNCHANGED <<ch, selectDone, wakes>>
       ELSE /\ ch' = [ch EXCEPT ![c].closed = TRUE,
                                ![c].recvq = <<>>, ![c].sendq = <<>>]
            /\ selectDone' = [h \in Goroutines |->
                                selectDone[h] \/ \E s \in waiters : s.g = h /\ s.isSelect]
            /\ wakes' = [wakes EXCEPT ![g] = woken]
            /\ Finish(g, 1, "closed")
  /\ UNCHANGED <<chlock, op, param, elem, commit>>

\* goready of one goroutine that g has dequeued.
Goready(g) ==
  /\ pc[g] = "done"
  /\ \E h \in wakes[g] :
       /\ wakes' = [wakes EXCEPT ![g] = @ \ {h}]
       /\ Goto(h, "awake")
  /\ UNCHANGED <<ch, chlock, op, selectDone, param, elem, commit, res>>

ChanReturn(g) ==
  /\ pc[g] = "done" /\ wakes[g] = {}
  /\ Goto(g, "idle")
  /\ op' = [op EXCEPT ![g] = NoOp]
  /\ elem' = [elem EXCEPT ![g] = Nobody]
  /\ res' = [res EXCEPT ![g] = NoResult]
  /\ UNCHANGED <<ch, chlock, selectDone, param, wakes, commit>>

ChanStep(g) ==
  \/ OnNil(g)
  \/ FastRead1(g)
  \/ FastRead2(g)
  \/ ChanOp(g)
  \/ ChanWake(g)
  \/ CloseChan(g)
  \/ Goready(g)
  \/ ChanReturn(g)
=============================================================================
