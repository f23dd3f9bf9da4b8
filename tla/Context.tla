------------------------------ MODULE Context ------------------------------
(***************************************************************************)
(* Contexts that can be cancelled (context/context.go): WithCancel,        *)
(* WithDeadline, WithTimeout, the cancel functions, Done and Err, over a   *)
(* tree of contexts that grows while parts of it are being cancelled.      *)
(*                                                                         *)
(* A cancel holds the lock of a context while it cancels its children, so  *)
(* that a thread has a stack of calls.  A critical section that calls      *)
(* nothing is one step.  A valueCtx only passes calls on, and is no        *)
(* context of its own here.  Whether a deadline has passed is open at      *)
(* every step; WithDeadline under an earlier deadline is WithCancel.       *)
(***************************************************************************)
EXTENDS Program, Integers, Sequences

CONSTANTS
  Contexts,
  Background,   \* the context that is never cancelled
  ClosedChan,   \* closedchan
  None,         \* a nil channel or error
  Nobody

VARIABLES
  tree,         \* what the program builds: parent, deadlines and foreign, see below
  owner,        \* owner[c]: the thread that holds c.mu, or Nobody
  err,          \* c.err
  done,         \* c.done: None, c for a channel of its own, or ClosedChan
  closed,       \* the contexts whose own channel is closed
  children,     \* c.children
  timer,        \* c.timer: "none", "armed", "fired" or "stopped"
  ready,        \* the contexts that With... has returned
  calls         \* the calls each thread is in, the innermost first

contextVars ==
  <<tree, owner, err, done, closed, children, timer, ready, calls>>

Watcher(c) == <<"watcher", c>>       \* the goroutine that propagateCancel starts
Timer(c) == <<"timer", c>>           \* the goroutine that a timer starts
Threads == Goroutines \cup {Watcher(c) : c \in Contexts} \cup {Timer(c) : c \in Contexts}

ASSUME ContextAssumption ==
  /\ Background \notin Contexts /\ ClosedChan \notin Contexts
  /\ None \notin Contexts \cup {ClosedChan, "Canceled", "DeadlineExceeded"}
  /\ Nobody \notin Threads
  /\ \A g \in Goroutines, c \in Contexts : g # Watcher(c) /\ g # Timer(c)

ContextInit ==
  /\ owner = [c \in Contexts |-> Nobody]
  /\ err = [c \in Contexts |-> None]
  /\ done = [c \in Contexts |-> None]
  /\ closed = {}
  /\ children = [c \in Contexts |-> {}]
  /\ timer = [c \in Contexts |-> "none"]
  /\ ready = {}
  /\ calls = [t \in Threads |-> <<>>]

parent(c) == tree.parent[c]
HasDeadline(c) == c \in tree.deadlines     \* c is a timerCtx
Foreign(c) == c \in tree.foreign           \* its parent is a type of another package

\* A call about c that is at some place.  remove and err are the arguments of
\* cancel, left the children that it has still to visit, chans the channels that
\* a wait has got.
Call(label, c) == [at |-> label, ctx |-> c, remove |-> FALSE, err |-> None, left |-> {}, chans |-> <<>>]
Cancelling(c, remove, e) ==
  [at |-> "cancel", ctx |-> c, remove |-> remove, err |-> e, left |-> {}, chans |-> <<>>]

Top(t) == Head(calls[t])
At(t, label) == calls[t] # <<>> /\ Top(t).at = label
Free(c) == owner[c] = Nobody

\* The innermost call of t becomes the calls in cs; none of them is a return.
Becomes(t, cs) == calls' = [calls EXCEPT ![t] = cs \o Tail(@)]
Goes(t, label) == Becomes(t, <<[Top(t) EXCEPT !.at = label]>>)
Lock(t, c) == owner' = [owner EXCEPT ![c] = t]
Unlock(c) == owner' = [owner EXCEPT ![c] = Nobody]

IsClosed(ch) == ch = ClosedChan \/ ch \in closed

\* c.Done(), which returns channel done'[c].
Done(c) == Free(c) /\ done' = [done EXCEPT ![c] = IF @ = None THEN c ELSE @]

-----------------------------------------------------------------------------
(* WithCancel and WithDeadline: propagateCancel and the timer.             *)

With(t, c) ==
  /\ calls[t] = <<>>
  /\ parent(c) \in ready \cup {Background}
  /\ calls' = [calls EXCEPT ![t] = <<Call(IF parent(c) = Background THEN "arm" ELSE "propagate", c)>>]
  /\ UNCHANGED <<tree, owner, err, done, closed, children, timer, ready>>

\* parent.Done(), and the goroutine that watches a foreign parent.
Propagate(t) ==
  /\ At(t, "propagate")
  /\ LET c == Top(t).ctx
         next == [Top(t) EXCEPT !.at = IF Foreign(c) THEN "arm" ELSE "register"]
     IN  /\ Done(parent(c))
         /\ calls' = [w \in Threads |->
                        IF w = t THEN <<next>> \o Tail(calls[t])
                        ELSE IF w = Watcher(c) /\ Foreign(c) THEN <<Call("watch", c)>>
                        ELSE calls[w]]
  /\ UNCHANGED <<tree, owner, err, closed, children, timer, ready>>

\* Mutant: whether the parent has been cancelled is not looked at under its lock.
RegisterAlways(t) ==
  /\ At(t, "register")
  /\ LET c == Top(t).ctx
     IN  /\ Free(parent(c))
         /\ children' = [children EXCEPT ![parent(c)] = @ \cup {c}]
  /\ Goes(t, "arm")
  /\ UNCHANGED <<tree, owner, err, done, closed, timer, ready>>

Register(t) ==
  /\ At(t, "register")
  /\ LET c == Top(t).ctx
         p == parent(c)
     IN  /\ Free(p)
         /\ IF err[p] = None
              THEN /\ children' = [children EXCEPT ![p] = @ \cup {c}]
                   /\ Goes(t, "arm")
                   /\ UNCHANGED owner
              ELSE /\ Lock(t, p)
                   /\ Becomes(t, <<Cancelling(c, FALSE, err[p]), [Top(t) EXCEPT !.at = "registered"]>>)
                   /\ UNCHANGED children
  /\ UNCHANGED <<tree, err, done, closed, timer, ready>>

\* The child of a cancelled parent has been cancelled.
Registered(t) ==
  /\ At(t, "registered")
  /\ Unlock(parent(Top(t).ctx))
  /\ Goes(t, "arm")
  /\ UNCHANGED <<tree, err, done, closed, children, timer, ready>>

Return(t) ==
  /\ Becomes(t, <<>>)
  /\ ready' = ready \cup {Top(t).ctx}

\* WithCancel returns; WithDeadline starts the timer of a context that has not
\* been cancelled yet.
Arm(t) ==
  /\ At(t, "arm")
  /\ LET c == Top(t).ctx
     IN  IF HasDeadline(c)
           THEN /\ Free(c)
                /\ timer' = [timer EXCEPT ![c] = IF err[c] = None THEN "armed" ELSE @]
           ELSE UNCHANGED timer
  /\ Return(t)
  /\ UNCHANGED <<tree, owner, err, done, closed, children>>

\* The deadline has already passed.
ArmLate(t) ==
  /\ At(t, "arm")
  /\ HasDeadline(Top(t).ctx)
  /\ Becomes(t, <<Cancelling(Top(t).ctx, TRUE, "DeadlineExceeded"), [Top(t) EXCEPT !.at = "armed"]>>)
  /\ UNCHANGED <<tree, owner, err, done, closed, children, timer, ready>>

Armed(t) ==
  /\ At(t, "armed")
  /\ Return(t)
  /\ UNCHANGED <<tree, owner, err, done, closed, children, timer>>

-----------------------------------------------------------------------------
(* cancel, of cancelCtx and of timerCtx.                                   *)

\* The cancel function that With... has returned.
CancelFunc(t, c) ==
  /\ calls[t] = <<>> /\ c \in ready
  /\ calls' = [calls EXCEPT ![t] = <<Cancelling(c, TRUE, "Canceled")>>]
  /\ UNCHANGED <<tree, owner, err, done, closed, children, timer, ready>>

\* The deadline passes.
Fire(c) ==
  /\ timer[c] = "armed"
  /\ timer' = [timer EXCEPT ![c] = "fired"]
  /\ calls' = [calls EXCEPT ![Timer(c)] = <<Cancelling(c, TRUE, "DeadlineExceeded")>>]
  /\ UNCHANGED <<tree, owner, err, done, closed, children, ready>>

\* The calls that follow once timerCtx.cancel has removed the context.
Stopping(f) == IF HasDeadline(f.ctx) THEN <<[f EXCEPT !.at = "stop"]>> ELSE <<>>

\* Those that follow cancelCtx.cancel without and with its removeChild.
Cancelled(f) == IF f.remove THEN <<[f EXCEPT !.at = "remove"]>> ELSE Stopping(f)

\* Mutant: the channel that waiters may have is replaced and not closed.
CloseNil(c) ==
  /\ done' = [done EXCEPT ![c] = ClosedChan]
  /\ UNCHANGED closed

Close(c) ==
  IF done[c] = None
    THEN done' = [done EXCEPT ![c] = ClosedChan] /\ UNCHANGED closed
    ELSE closed' = closed \cup {c} /\ UNCHANGED done

Cancel(t) ==
  /\ At(t, "cancel")
  /\ LET f == Top(t)
         c == f.ctx
     IN  /\ Free(c)
         /\ err[c] = None
         /\ err' = [err EXCEPT ![c] = f.err]
         /\ Close(c)
         /\ Lock(t, c)
         /\ Becomes(t, <<[f EXCEPT !.at = "children", !.left = children[c]]>>)
  /\ UNCHANGED <<tree, children, timer, ready>>

\* Already cancelled: only a timerCtx goes on.
CancelAgain(t) ==
  /\ At(t, "cancel")
  /\ LET f == Top(t)
     IN  /\ Free(f.ctx)
         /\ err[f.ctx] # None
         /\ Becomes(t, IF HasDeadline(f.ctx) THEN Cancelled(f) ELSE <<>>)
  /\ UNCHANGED <<tree, owner, err, done, closed, children, timer, ready>>

CancelChild(t) ==
  /\ At(t, "children")
  /\ \E child \in Top(t).left :
       Becomes(t, <<Cancelling(child, FALSE, Top(t).err), [Top(t) EXCEPT !.left = @ \ {child}]>>)
  /\ UNCHANGED <<tree, owner, err, done, closed, children, timer, ready>>

CancelEnd(t) ==
  /\ At(t, "children")
  /\ LET f == Top(t)
     IN  /\ f.left = {}
         /\ children' = [children EXCEPT ![f.ctx] = {}]
         /\ Unlock(f.ctx)
         /\ Becomes(t, Cancelled(f))
  /\ UNCHANGED <<tree, err, done, closed, timer, ready>>

\* Mutant: timerCtx.cancel leaves the context with its parent.
RemoveChildNever(t) ==
  /\ At(t, "remove")
  /\ Becomes(t, Stopping(Top(t)))
  /\ UNCHANGED <<tree, owner, err, done, closed, children, timer, ready>>

\* removeChild, which does nothing under a foreign parent or Background.
RemoveChild(t) ==
  /\ At(t, "remove")
  /\ LET c == Top(t).ctx
     IN  IF Foreign(c) \/ parent(c) = Background THEN UNCHANGED children
         ELSE /\ Free(parent(c))
              /\ children' = [children EXCEPT ![parent(c)] = @ \ {c}]
  /\ Becomes(t, Stopping(Top(t)))
  /\ UNCHANGED <<tree, owner, err, done, closed, timer, ready>>

StopTimer(t) ==
  /\ At(t, "stop")
  /\ LET c == Top(t).ctx
     IN  /\ Free(c)
         /\ timer' = [timer EXCEPT ![c] = IF @ = "armed" THEN "stopped" ELSE @]
  /\ Becomes(t, <<>>)
  /\ UNCHANGED <<tree, owner, err, done, closed, children, ready>>

-----------------------------------------------------------------------------
(* Waiting for contexts.                                                   *)

\* <-c.Done() of a goroutine that has the context.
Wait(t, c) ==
  /\ calls[t] = <<>> /\ c \in ready
  /\ Done(c)
  /\ calls' = [calls EXCEPT ![t] = <<[Call("wait", c) EXCEPT !.chans = <<done'[c]>>]>>]
  /\ UNCHANGED <<tree, owner, err, closed, children, timer, ready>>

Waited(t) ==
  /\ At(t, "wait")
  /\ IsClosed(Top(t).chans[1])
  /\ Becomes(t, <<>>)
  /\ UNCHANGED <<tree, owner, err, done, closed, children, timer, ready>>

\* The operands of the select in the goroutine of propagateCancel.
WatchDone(t) ==
  /\ At(t, "watch")
  /\ LET c == Top(t).ctx
         x == IF Top(t).chans = <<>> THEN parent(c) ELSE c
     IN  /\ Done(x)
         /\ Becomes(t, <<[Top(t) EXCEPT !.chans = Append(@, done'[x]),
                                        !.at = IF x = c THEN "select" ELSE @]>>)
  /\ UNCHANGED <<tree, owner, err, closed, children, timer, ready>>

\* The parent is done: parent.Err() is evaluated for the call of cancel.
WatchParent(t) ==
  /\ At(t, "select")
  /\ IsClosed(Top(t).chans[1])
  /\ LET c == Top(t).ctx
     IN  /\ Free(parent(c))
         /\ Becomes(t, <<Cancelling(c, FALSE, err[parent(c)])>>)
  /\ UNCHANGED <<tree, owner, err, done, closed, children, timer, ready>>

WatchChild(t) ==
  /\ At(t, "select")
  /\ IsClosed(Top(t).chans[2])
  /\ Becomes(t, <<>>)
  /\ UNCHANGED <<tree, owner, err, done, closed, children, timer, ready>>

-----------------------------------------------------------------------------

ContextStep(t) ==
  \/ Propagate(t) \/ Register(t) \/ Registered(t) \/ Arm(t) \/ ArmLate(t) \/ Armed(t)
  \/ Cancel(t) \/ CancelAgain(t) \/ CancelChild(t) \/ CancelEnd(t) \/ RemoveChild(t) \/ StopTimer(t)
  \/ Waited(t) \/ WatchDone(t) \/ WatchParent(t) \/ WatchChild(t)

-----------------------------------------------------------------------------
(* Programs that build a tree of contexts, cancel parts of it and wait for     *)
(* others.                                                                     *)

CONSTANT ContextPrograms    \* records of parent, deadlines, foreign and todo

\* Every With makes a context of its own.
ASSUME ContextProgramsAssumption ==
  \A p \in ContextPrograms :
    /\ p.parent \in [Contexts -> Contexts \cup {Background}]
    /\ p.deadlines \subseteq Contexts /\ p.foreign \subseteq Contexts
    /\ p.todo \in [Goroutines -> Seq({"with", "cancel", "wait"} \X Contexts)]
    /\ \A g, h \in Goroutines : \A i \in DOMAIN p.todo[g], j \in DOMAIN p.todo[h] :
         p.todo[g][i][1] = "with" /\ p.todo[g][i] = p.todo[h][j] => g = h /\ i = j

VARIABLE todo               \* the calls that each goroutine has still to make

contextClientVars == <<contextVars, todo>>

ContextClientsInit(programs) ==
  /\ \E p \in programs :
       /\ tree = [parent |-> p.parent, deadlines |-> p.deadlines, foreign |-> p.foreign]
       /\ todo = p.todo
  /\ ContextInit

\* The next call of g, on a context that it or another goroutine has made.
ContextCall(g) ==
  /\ todo[g] # <<>>
  /\ LET op == Head(todo[g])[1]  c == Head(todo[g])[2]
     IN  \/ op = "with" /\ With(g, c)
         \/ op = "cancel" /\ CancelFunc(g, c)
         \/ op = "wait" /\ Wait(g, c)
  /\ todo' = [todo EXCEPT ![g] = Tail(@)]

ContextClientsStep(t) ==
  \/ ContextStep(t) /\ UNCHANGED todo
  \/ t \in Goroutines /\ ContextCall(t)

\* The deadline of c passes.
Passes(c) == Fire(c) /\ UNCHANGED todo

ContextClientsNext ==
  \/ \E t \in Threads : ContextClientsStep(t)
  \/ \E c \in Contexts : Passes(c)

-----------------------------------------------------------------------------

ContextBehavior == ContextClientsInit(ContextPrograms) /\ [][ContextClientsNext]_contextClientVars

-----------------------------------------------------------------------------

\* The parent with which c is registered, and all above it up to a foreign parent.
Link(c) == IF Foreign(c) \/ parent(c) = Background THEN {} ELSE {parent(c)}
Above(c) ==
  {p \in Contexts : \A S \in SUBSET Contexts :
     Link(c) \subseteq S /\ (\A x \in S : Link(x) \subseteq S) => p \in S}

\* Some thread is in a call about c, at one of these places.
Within(c, places) ==
  \E t \in Threads : \E i \in DOMAIN calls[t] : calls[t][i].ctx = c /\ calls[t][i].at \in places

\* propagateCancel has ended for c.
Linked(c) == c \in ready \/ Within(c, {"arm", "armed"})

\* Once a cancel has let go of a context, everything below it is cancelled, also
\* what was derived from it, or cancelled by others, at the same time
\* (context.go:241-266, 339-366).
CancelReachesAll ==
  \A p, c \in Contexts :
    err[p] # None /\ Free(p) /\ err[c] = None /\ Linked(c) /\ p \in Above(c) =>
      \E x \in Above(c) : ~Linked(x)

\* "Canceling this context releases resources associated with it"
\* (context.go:227-228): a live context keeps no child that has been cancelled,
\* and no timer runs for one, but for the calls that are still at it.
ReleasesResources ==
  \A c \in Contexts :
    err[c] # None =>
      /\ \A p \in Contexts :
           err[p] = None /\ c \in children[p] => Within(c, {"children", "remove"})
      /\ timer[c] = "armed" => Within(c, {"children", "remove", "stop"})

\* No thread is left but those that wait for contexts that nobody has cancelled:
\* the locks of the tree do not block each other, whoever waits for a cancelled
\* context is released, the watcher of a cancelled one is gone; and cancellation
\* has crossed foreign parents.
CancellationSettled ==
  /\ \A t \in Threads :
       calls[t] # <<>> =>
         /\ Top(t).at \in {"wait", "select"}
         /\ err[Top(t).ctx] = None
  /\ \A c \in ready :
       parent(c) # Background => (err[parent(c)] # None => err[c] # None)
  /\ \A g \in Goroutines : todo[g] = <<>> \/ calls[g] # <<>>

-----------------------------------------------------------------------------
(* The inductive invariant behind these properties.                        *)

Cancels == {"cancel", "children", "remove", "stop"}    \* places in cancel
Makes == {"propagate", "register", "registered", "arm", "armed"}    \* places in With...

CallType ==
  [at : Cancels \cup Makes \cup {"wait", "watch", "select"}, ctx : Contexts, remove : BOOLEAN,
   err : {None, "Canceled", "DeadlineExceeded"}, left : SUBSET Contexts,
   chans : Seq(Contexts \cup {ClosedChan})]

ContextTypeOK ==
  /\ tree \in [parent : [Contexts -> Contexts \cup {Background}],
               deadlines : SUBSET Contexts, foreign : SUBSET Contexts]
  /\ owner \in [Contexts -> Threads \cup {Nobody}]
  /\ err \in [Contexts -> {None, "Canceled", "DeadlineExceeded"}]
  /\ done \in [Contexts -> Contexts \cup {None, ClosedChan}]
  /\ closed \subseteq Contexts
  /\ children \in [Contexts -> SUBSET Contexts]
  /\ timer \in [Contexts -> {"none", "armed", "fired", "stopped"}]
  /\ ready \subseteq Contexts
  /\ calls \in [Threads -> Seq(CallType)]
  /\ todo \in [Goroutines -> Seq({"with", "cancel", "wait"} \X Contexts)]

\* The calls of t, the outermost first, whose places do not move as others come and go.
Depth(t) == Len(calls[t])
Frame(t, j) == calls[t][Depth(t) + 1 - j]

\* Every cancel of c has let go of it.
Finished(c) == err[c] # None /\ ~Within(c, {"children"})

\* A channel that is closed belongs to a context that is cancelled.
DoneInv ==
  \A c \in Contexts :
    /\ done[c] \in {None, c, ClosedChan}
    /\ done[c] = ClosedChan \/ c \in closed => err[c] # None

\* What a call says about the contexts.
CallOK(f) ==
  /\ f.at \in Cancels =>
       /\ f.err # None
       /\ f.remove \/ Foreign(f.ctx) \/ (parent(f.ctx) \in Contexts /\ err[parent(f.ctx)] # None)
  /\ f.at = "children" => err[f.ctx] # None
  /\ f.at \in {"remove", "stop"} => Finished(f.ctx)
  /\ f.at \in {"propagate", "register", "registered"} => parent(f.ctx) \in Contexts
  /\ f.at \in {"register", "registered"} => ~Foreign(f.ctx)
  /\ f.at = "registered" => err[parent(f.ctx)] # None
  /\ f.at \in {"watch", "select"} =>
       /\ Foreign(f.ctx) /\ parent(f.ctx) \in Contexts
       /\ f.at = "select" => f.chans # <<>>
       /\ f.chans # <<>> => /\ f.chans[1] \in {parent(f.ctx), ClosedChan}
                            /\ f.chans[1] = ClosedChan => err[parent(f.ctx)] # None

CallsInv == \A t \in Threads : \A j \in 1 .. Depth(t) : CallOK(Frame(t, j))

\* The context that a call has locked.
Locks(f, c) == \/ f.at = "children" /\ f.ctx = c
               \/ f.at = "registered" /\ parent(f.ctx) = c

LockInv ==
  \A t \in Threads : \A j \in 1 .. Depth(t) : \A c \in Contexts :
    Locks(Frame(t, j), c) =>
      /\ owner[c] = t
      /\ \A h \in Threads : \A k \in 1 .. Depth(h) : Locks(Frame(h, k), c) => h = t /\ k = j

\* The contexts that a call waits for, having called their cancel.
Awaits(f) == IF f.at = "children" THEN children[f.ctx] \ f.left
             ELSE IF f.at = "registered" THEN {f.ctx} ELSE {}

\* Only cancel is called by the others, about the context that they wait for.
ChainInv ==
  \A t \in Threads : \A j \in 1 .. Depth(t) :
    /\ j < Depth(t) => /\ Frame(t, j).at \in {"children", "registered", "armed"}
                       /\ Frame(t, j + 1).at \in Cancels
    /\ Frame(t, j).at = "children" => Frame(t, j).left \subseteq children[Frame(t, j).ctx]
    /\ \A c \in Awaits(Frame(t, j)) : Finished(c) \/ (j < Depth(t) /\ Frame(t, j + 1).ctx = c)

\* A context that is linked is a child of its parent until either has been cancelled.
LinkInv ==
  /\ \A p, c \in Contexts : c \in children[p] => parent(c) = p /\ ~Foreign(c)
  /\ \A c \in Contexts :
       Linked(c) /\ ~Foreign(c) /\ parent(c) \in Contexts =>
         Finished(c) \/ (c \in children[parent(c)] /\ ~Finished(parent(c)))
  /\ \A c \in Contexts : timer[c] = "armed" => HasDeadline(c)

\* Nobody knows of c.
Untouched(c) ==
  /\ c \notin ready /\ err[c] = None /\ timer[c] = "none"
  /\ \A p \in Contexts : c \notin children[p]
  /\ Depth(Watcher(c)) = 0 /\ Depth(Timer(c)) = 0

\* A goroutine has still to make c.
Unmade(c) == \E g \in Goroutines : \E i \in DOMAIN todo[g] : todo[g][i] = <<"with", c>>

MadeOnce ==
  \A g, h \in Goroutines : \A i \in DOMAIN todo[g], k \in DOMAIN todo[h] :
    todo[g][i][1] = "with" /\ todo[g][i] = todo[h][k] => g = h /\ i = k

\* Nobody knows of a context before it is linked, and one thread makes it.
MakeInv ==
  /\ \A c \in Contexts : Unmade(c) =>
       /\ Untouched(c)
       /\ \A t \in Threads : \A j \in 1 .. Depth(t) : Frame(t, j).ctx # c
  /\ \A t, h \in Threads : \A j \in 1 .. Depth(t), k \in 1 .. Depth(h) :
       Frame(t, j).ctx = Frame(h, k).ctx =>
         /\ Frame(t, j).at \in {"propagate", "register"} => h = t /\ k = j
         /\ Frame(t, j).at \in Makes /\ Frame(h, k).at \in Makes => h = t /\ k = j
  /\ \A t \in Threads : \A j \in 1 .. Depth(t) :
       /\ Frame(t, j).at \in {"propagate", "register"} => Untouched(Frame(t, j).ctx)
       /\ Frame(t, j).at \in {"registered", "arm"} => timer[Frame(t, j).ctx] = "none"
  /\ \A c \in Contexts : timer[c] \in {"none", "armed"} => Depth(Timer(c)) = 0

ContextInv ==
  /\ ContextTypeOK /\ DoneInv /\ CallsInv /\ LockInv /\ ChainInv /\ LinkInv
  /\ MadeOnce /\ MakeInv /\ ReleasesResources
=============================================================================
