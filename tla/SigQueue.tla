------------------------------ MODULE SigQueue ------------------------------
(***************************************************************************)
(* The queue of signals between the signal handlers and the goroutine of   *)
(* os/signal that receives them (runtime/sigqueue.go), and the note on     *)
(* which the receiver sleeps (runtime/lock_futex.go).                      *)
(*                                                                         *)
(* A handler takes no lock; each of its atomic operations is a step.  A    *)
(* load whose compare-and-swap fails only starts again, so a load and its  *)
(* swap are one step.  Every signal has a word of the masks to itself.     *)
(* os/signal calls signal_enable(0) when it is initialized, so inuse is    *)
(* always set.                                                             *)
(***************************************************************************)
EXTENDS Naturals

CONSTANTS
  Signals,
  Handlers,     \* the threads on which signals arrive
  NoSignal

VARIABLES
  mask,         \* sig.mask: the signals in the queue
  wanted,       \* sig.wanted
  ignored,      \* sig.ignored
  recv,         \* sig.recv: the receiver's copy
  state,        \* sig.state
  delivering,   \* sig.delivering
  note,         \* sig.note.key
  sending,      \* the signal that each handler has been called for, or NoSignal
  hpc,          \* where each handler is in sigsend
  rpc,          \* where the receiver is in signal_recv
  exchange,     \* the words of mask that it has still to take over
  received      \* the signal it has returned, or NoSignal

sigQueueVars ==
  <<mask, wanted, ignored, recv, state, delivering, note, sending, hpc, rpc, exchange, received>>

receiverVars == <<recv, rpc, exchange, received>>
handlerVars == <<sending, hpc>>
wantVars == <<wanted, ignored>>

SigQueueInit ==
  /\ mask = {} /\ wanted = {} /\ ignored = {} /\ recv = {}
  /\ state = "idle"
  /\ delivering = 0
  /\ note = 0
  /\ sending = [h \in Handlers |-> NoSignal]
  /\ hpc = [h \in Handlers |-> "idle"]
  /\ rpc = "serve"
  /\ exchange = {}
  /\ received = NoSignal

-----------------------------------------------------------------------------
(* sigsend.                                                                *)

HGoto(h, label) == hpc' = [hpc EXCEPT ![h] = label] /\ UNCHANGED sending

\* The signal arrives and the handler counts itself.
Sigsend(h, s) ==
  /\ hpc[h] = "idle" /\ s \notin ignored
  /\ sending' = [sending EXCEPT ![h] = s]
  /\ hpc' = [hpc EXCEPT ![h] = "wanted"]
  /\ delivering' = delivering + 1
  /\ UNCHANGED <<mask, state, note, wantVars, receiverVars>>

\* Nobody wants the signal: the handler will take the default action.
SendWanted(h) ==
  /\ hpc[h] = "wanted"
  /\ HGoto(h, IF sending[h] \in wanted THEN "queue" ELSE "end")
  /\ UNCHANGED <<mask, state, delivering, note, wantVars, receiverVars>>

\* A signal that is in the queue already has a sender that announces it.
SendQueue(h) ==
  /\ hpc[h] = "queue"
  /\ mask' = mask \cup {sending[h]}
  /\ HGoto(h, IF sending[h] \in mask THEN "end" ELSE "send")
  /\ UNCHANGED <<state, delivering, note, wantVars, receiverVars>>

SendState(h) ==
  /\ hpc[h] = "send"
  /\ state' = IF state = "receiving" THEN "idle" ELSE "sending"
  /\ HGoto(h, IF state = "receiving" THEN "wake" ELSE "end")
  /\ UNCHANGED <<mask, delivering, note, wantVars, receiverVars>>

\* notewakeup, which throws if the note is set.
SendWake(h) ==
  /\ hpc[h] = "wake"
  /\ IF note = 0 THEN note' = 1 /\ HGoto(h, "end")
     ELSE HGoto(h, "throw") /\ UNCHANGED note
  /\ UNCHANGED <<mask, state, delivering, wantVars, receiverVars>>

SendEnd(h) ==
  /\ hpc[h] = "end"
  /\ delivering' = delivering - 1
  /\ sending' = [sending EXCEPT ![h] = NoSignal]
  /\ hpc' = [hpc EXCEPT ![h] = "idle"]
  /\ UNCHANGED <<mask, state, note, wantVars, receiverVars>>

HandlerStep(h) == SendWanted(h) \/ SendQueue(h) \/ SendState(h) \/ SendWake(h) \/ SendEnd(h)

-----------------------------------------------------------------------------
(* signal_recv.                                                            *)

Serve ==
  /\ rpc = "serve"
  /\ \E s \in recv :
       /\ recv' = recv \ {s}
       /\ received' = s
  /\ rpc' = "return"
  /\ UNCHANGED <<mask, state, delivering, note, exchange, wantVars, handlerVars>>

Receive ==
  /\ rpc = "serve" /\ recv = {}
  /\ IF state = "idle"
       THEN state' = "receiving" /\ rpc' = "sleep" /\ UNCHANGED exchange
       ELSE state' = "idle" /\ rpc' = "update" /\ exchange' = Signals
  /\ state \in {"idle", "sending"}
  /\ UNCHANGED <<mask, recv, delivering, note, received, wantVars, handlerVars>>

\* notetsleepg
ReceiveSleep ==
  /\ rpc = "sleep"
  /\ note = 1
  /\ rpc' = "clear"
  /\ UNCHANGED <<mask, recv, state, delivering, note, exchange, received, wantVars, handlerVars>>

ReceiveClear ==
  /\ rpc = "clear"
  /\ note' = 0
  /\ rpc' = "update"
  /\ exchange' = Signals
  /\ UNCHANGED <<mask, recv, state, delivering, received, wantVars, handlerVars>>

ReceiveUpdate ==
  /\ rpc = "update"
  /\ \E s \in exchange :
       /\ recv' = recv \cup (mask \cap {s})
       /\ mask' = mask \ {s}
       /\ exchange' = exchange \ {s}
  /\ rpc' = IF exchange' = {} THEN "serve" ELSE "update"
  /\ UNCHANGED <<state, delivering, note, received, wantVars, handlerVars>>

\* The caller has dealt with the signal and calls again.
ReceiveAgain ==
  /\ rpc = "return"
  /\ rpc' = "serve"
  /\ received' = NoSignal
  /\ UNCHANGED <<mask, recv, state, delivering, note, exchange, wantVars, handlerVars>>

ReceiverStep == Serve \/ Receive \/ ReceiveSleep \/ ReceiveClear \/ ReceiveUpdate

-----------------------------------------------------------------------------
(* signal_enable, signal_disable and signal_ignore, under the lock of      *)
(* os/signal; the two conditions of signalWaitUntilIdle.                   *)

signal_enable(s) ==
  wanted' = wanted \cup {s} /\ ignored' = ignored \ {s}

signal_disable(S) ==
  wanted' = wanted \ S /\ UNCHANGED ignored

signal_ignore(s) ==
  wanted' = wanted \ {s} /\ ignored' = ignored \cup {s}

NothingDelivered == delivering = 0
Receiving == state = "receiving"
=============================================================================
