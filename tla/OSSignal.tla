------------------------------ MODULE OSSignal ------------------------------
(***************************************************************************)
(* Package os/signal (os/signal/signal.go and signal_unix.go): Notify,     *)
(* Stop, Reset, Ignore, and the goroutine that hands the signals of the    *)
(* runtime's queue to the channels that want them.  Notify, Reset and      *)
(* Ignore of several signals are as many calls here.                       *)
(***************************************************************************)
EXTENDS SigQueue, Program, FiniteSets, SequencesExt

CONSTANTS
  Chans,        \* the channels that programs pass to Notify
  NoChan,
  NoOne

VARIABLES
  handlers,     \* handlers.m: the signals that each channel is registered for
  stopping,     \* handlers.stopping: channels being stopped, with the same
  hlock,        \* the goroutine that holds handlers.Mutex over several steps, or NoOne
  spc,          \* where each goroutine is in Stop
  schan,        \* the channel that it is stopping
  disabling     \* the signals of it that are still to be released

osSignalVars == <<sigQueueVars, handlers, stopping, hlock, spc, schan, disabling>>
stopVars == <<spc, schan, disabling>>
queueVars == <<mask, state, delivering, note, receiverVars, handlerVars>>

OSSignalInit ==
  /\ SigQueueInit
  /\ handlers = [c \in Chans |-> {}]
  /\ stopping = <<>>
  /\ hlock = NoOne
  /\ spc = [g \in Goroutines |-> "idle"]
  /\ schan = [g \in Goroutines |-> NoChan]
  /\ disabling = [g \in Goroutines |-> {}]

Unlocked == hlock = NoOne

\* handlers.ref[s]: the channels that are registered for s.
ref(s) == Cardinality({c \in Chans : s \in handlers[c]})

Notify(c, s) ==
  /\ Unlocked
  /\ handlers' = [handlers EXCEPT ![c] = @ \cup {s}]
  /\ IF ref(s) = 0 THEN signal_enable(s) ELSE UNCHANGED wantVars
  /\ UNCHANGED <<stopping, hlock, stopVars, queueVars>>

\* What Reset and Ignore (cancel) take from the channels.
Deregister(s) ==
  /\ Unlocked
  /\ handlers' = [c \in Chans |-> handlers[c] \ {s}]

Reset(s) ==
  /\ Deregister(s)
  /\ signal_disable({s})
  /\ UNCHANGED <<stopping, hlock, stopVars, queueVars>>

Ignore(s) ==
  /\ Deregister(s)
  /\ signal_ignore(s)
  /\ UNCHANGED <<stopping, hlock, stopVars, queueVars>>

\* Stop of a channel that is not registered, or no longer, returns at once.
StopNothing(c) ==
  /\ Unlocked
  /\ handlers[c] = {}
  /\ UNCHANGED <<handlers, stopping, hlock, stopVars, wantVars, queueVars>>

\* Stop up to the first call of disableSignal.
Stop(g, c) ==
  /\ spc[g] = "idle" /\ Unlocked
  /\ handlers[c] # {}
  /\ handlers' = [handlers EXCEPT ![c] = {}]
  /\ disabling' = [disabling EXCEPT ![g] = handlers[c]]
  /\ stopping' = Append(stopping, [c |-> c, h |-> handlers[c]])
  /\ schan' = [schan EXCEPT ![g] = c]
  /\ spc' = [spc EXCEPT ![g] = "disable"]
  /\ hlock' = g
  /\ UNCHANGED <<wantVars, queueVars>>

SGoto(g, label) == spc' = [spc EXCEPT ![g] = label] /\ UNCHANGED schan

\* disableSignal of those that no other channel wants.
StopDisable(g) ==
  /\ spc[g] = "disable"
  /\ \E s \in disabling[g] :
       /\ disabling' = [disabling EXCEPT ![g] = @ \ {s}]
       /\ signal_disable(IF ref(s) = 0 THEN {s} ELSE {})
  /\ UNCHANGED <<handlers, stopping, hlock, spc, schan, queueVars>>

StopUnlock(g) ==
  /\ spc[g] = "disable" /\ disabling[g] = {}
  /\ hlock' = NoOne
  /\ SGoto(g, "delivering")
  /\ UNCHANGED <<handlers, stopping, disabling, wantVars, queueVars>>

\* Mutant: signalWaitUntilIdle does not wait for the handlers.
StopAwaitsReceiver(g) ==
  /\ spc[g] = "delivering"
  /\ SGoto(g, "receiving")
  /\ UNCHANGED <<handlers, stopping, hlock, disabling, wantVars, queueVars>>

\* The two loops of signalWaitUntilIdle.
StopDelivering(g) ==
  /\ spc[g] = "delivering"
  /\ NothingDelivered
  /\ SGoto(g, "receiving")
  /\ UNCHANGED <<handlers, stopping, hlock, disabling, wantVars, queueVars>>

StopReceiving(g) ==
  /\ spc[g] = "receiving"
  /\ Receiving
  /\ SGoto(g, "remove")
  /\ UNCHANGED <<handlers, stopping, hlock, disabling, wantVars, queueVars>>

StopRemove(g) ==
  /\ spc[g] = "remove" /\ Unlocked
  /\ stopping' = RemoveFirstMatch(stopping, LAMBDA d : d.c = schan[g])
  /\ spc' = [spc EXCEPT ![g] = "idle"]
  /\ schan' = [schan EXCEPT ![g] = NoChan]
  /\ UNCHANGED <<handlers, hlock, disabling, wantVars, queueVars>>

\* The channels that process sends a signal to.
Recipients(s) ==
  {c \in Chans : s \in handlers[c]} \cup {d.c : d \in {x \in ToSet(stopping) : s \in x.h}}

\* process, in the goroutine of loop; the sends do not block.
Process ==
  /\ Unlocked
  /\ ReceiveAgain
  /\ UNCHANGED <<handlers, stopping, hlock, stopVars>>

StopStep(g) ==
  StopDisable(g) \/ StopUnlock(g) \/ StopDelivering(g) \/ StopReceiving(g) \/ StopRemove(g)

-----------------------------------------------------------------------------
(* Goroutines that register, stop and reset channels while signals arrive.     *)

CONSTANTS
  SignalPrograms,   \* the calls that each goroutine makes
  MaxArrivals       \* bound: the signals that arrive

SignalCalls ==
  ({"notify"} \X Chans \X Signals) \cup ({"stop"} \X Chans) \cup ({"reset", "ignore"} \X Signals)

ASSUME SignalAssumption ==
  /\ NoOne \notin Goroutines
  /\ SignalPrograms \subseteq [Goroutines -> Seq(SignalCalls)]

VARIABLES
  pending,          \* the calls that each goroutine has still to make
  arrivals,         \* the number of signals that have arrived
  owed,             \* history: the signals that each channel is owed, see Wanting
  quiet             \* history: the channels that a Stop has returned for, and that
                    \* have not been registered since

signalClientVars == <<osSignalVars, pending, arrivals, owed, quiet>>

SignalClientsInit(programs) ==
  /\ OSSignalInit
  /\ pending \in programs
  /\ arrivals = 0
  /\ owed = [c \in Chans |-> {}]
  /\ quiet = {}

\* The channels that must get a signal that is going to be queued: those that are
\* registered for it and, if there are none, one that was when it was still wanted.
Wanting(s) ==
  {c \in Chans : s \in handlers[c]}
  \cup {schan[g] : g \in {x \in Goroutines : s \in disabling[x] /\ ref(s) = 0}}

Arrive(h) ==
  /\ arrivals < MaxArrivals
  /\ \E s \in Signals : Sigsend(h, s)
  /\ arrivals' = arrivals + 1
  /\ UNCHANGED <<handlers, stopping, hlock, stopVars, pending, owed, quiet>>

HandlerSends(h) ==
  /\ HandlerStep(h)
  /\ owed' = [c \in Chans |->
                IF hpc'[h] = "queue" /\ c \in Wanting(sending[h]) THEN owed[c] \cup {sending[h]}
                ELSE owed[c]]
  /\ UNCHANGED <<handlers, stopping, hlock, stopVars, pending, arrivals, quiet>>

ReceiverReceives ==
  /\ ReceiverStep
  /\ UNCHANGED <<handlers, stopping, hlock, stopVars, pending, arrivals, owed, quiet>>

Relay ==
  /\ Process
  /\ owed' = [c \in Chans |-> IF c \in Recipients(received) THEN owed[c] \ {received} ELSE owed[c]]
  /\ UNCHANGED <<pending, arrivals, quiet>>

\* Reset and Ignore give up what is on its way to the channels they deregister.
GiveUp(s) == owed' = [c \in Chans |-> IF s \in handlers[c] THEN owed[c] \ {s} ELSE owed[c]]

SignalCall(g) ==
  /\ pending[g] # <<>> /\ spc[g] = "idle"
  /\ LET call == Head(pending[g])  op == call[1]  x == call[2]
     IN  \/ op = "notify" /\ Notify(x, call[3]) /\ quiet' = quiet \ {x} /\ UNCHANGED owed
         \/ op = "stop" /\ Stop(g, x) /\ UNCHANGED <<owed, quiet>>
         \/ op = "stop" /\ StopNothing(x) /\ quiet' = quiet \cup {x} /\ UNCHANGED owed
         \/ op = "reset" /\ Reset(x) /\ GiveUp(x) /\ UNCHANGED quiet
         \/ op = "ignore" /\ Ignore(x) /\ GiveUp(x) /\ UNCHANGED quiet
  /\ pending' = [pending EXCEPT ![g] = Tail(@)]
  /\ UNCHANGED arrivals

StopGoesOn(g) ==
  /\ StopStep(g)
  /\ quiet' = IF spc[g] = "remove" /\ handlers[schan[g]] = {} THEN quiet \cup {schan[g]} ELSE quiet
  /\ UNCHANGED <<pending, arrivals, owed>>

SignalClientsNext ==
  \/ \E h \in Handlers : Arrive(h) \/ HandlerSends(h)
  \/ ReceiverReceives \/ Relay
  \/ \E g \in Goroutines : SignalCall(g) \/ StopGoesOn(g)

SignalBehavior == SignalClientsInit(SignalPrograms) /\ [][SignalClientsNext]_signalClientVars

-----------------------------------------------------------------------------

\* A signal for which the handler did not take the default action gets to every
\* channel that wanted it then, also if the channel is stopped in the meantime:
\* Stop does not return before (signal.go:188-204, sigqueue.go:157-176).
StopLosesNothing ==
  \A c \in Chans :
    owed[c] \subseteq handlers[c] \cup UNION {d.h : d \in {x \in ToSet(stopping) : x.c = c}}

\* "When Stop returns, it is guaranteed that c will receive no more signals"
\* (signal.go:164): process is not about to send to such a channel.
StoppedIsQuiet == rpc = "return" => Recipients(received) \cap quiet = {}

\* Every queued signal has been relayed, the receiver sleeps, no handler is stuck
\* in a throw, and every Stop has returned: no announcement was lost between the
\* receiver's decision to sleep and its sleep (sigqueue.go:88-107, 128-147).
SignalsSettled ==
  /\ \A h \in Handlers : hpc[h] = "idle"
  /\ mask = {} /\ recv = {} /\ rpc = "sleep" /\ note = 0
  /\ \A g \in Goroutines : spc[g] = "idle"
  /\ \A c \in Chans : owed[c] = {}
=============================================================================
