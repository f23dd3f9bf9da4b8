---------------------------- MODULE MCLibraries ----------------------------
(***************************************************************************)
(* For TLC: packages above the primitives, sync.Map, contexts, signals and *)
(* duplicate call suppression.  They share no state, so that one of them   *)
(* at a time is enough.  Programs over them.                               *)
(***************************************************************************)
EXTENDS SyncMap, Context, OSSignal, SingleFlight, TLC

CONSTANT Packages    \* those to choose from: "map", "context", "signal", "singleflight"

VARIABLE package     \* the one in use

vars == <<mapClientVars, contextClientVars, signalClientVars, flightClientVars, package>>

\* Who uses no contexts, and no signals.
NoContexts ==
  [parent |-> [c \in Contexts |-> Background], deadlines |-> {}, foreign |-> {},
   todo |-> [g \in Goroutines |-> <<>>]]
NoSignals == [g \in Goroutines |-> <<>>]

Init ==
  /\ package \in Packages
  /\ MapClientsInit
  /\ ContextClientsInit(IF package = "context" THEN ContextPrograms ELSE {NoContexts})
  /\ SignalClientsInit(IF package = "signal" THEN SignalPrograms ELSE {NoSignals})
  /\ FlightClientsInit

OfMap == package = "map" /\ UNCHANGED <<contextClientVars, signalClientVars, flightClientVars, package>>
OfContext == package = "context" /\ UNCHANGED <<mapClientVars, signalClientVars, flightClientVars, package>>
OfSignal == package = "signal" /\ UNCHANGED <<mapClientVars, contextClientVars, flightClientVars, package>>
OfFlight == package = "singleflight" /\ UNCHANGED <<mapClientVars, contextClientVars, signalClientVars, package>>

Next ==
  \/ OfMap /\ MapClientsNext
  \/ OfContext /\ ContextClientsNext
  \/ OfSignal /\ SignalClientsNext
  \/ OfFlight /\ FlightClientsNext

Run(g) ==
  \/ OfContext /\ ContextClientsStep(g)
  \/ OfSignal /\ (SignalCall(g) \/ StopGoesOn(g))
  \/ OfFlight /\ FlightRun(g)

\* Goroutines and threads go on when they can, deadlines pass, and the functions
\* that Do calls return.  Nothing says that signals arrive.
Fairness ==
  /\ \A g \in Goroutines : WF_vars(Run(g))
  /\ \A c \in Contexts :
       /\ WF_vars(OfContext /\ ContextClientsStep(Watcher(c)))
       /\ WF_vars(OfContext /\ (Passes(c) \/ ContextClientsStep(Timer(c))))
  /\ \A h \in Handlers : WF_vars(OfSignal /\ HandlerSends(h))
  /\ WF_vars(OfSignal /\ (ReceiverReceives \/ Relay))
  /\ \A c \in Flights : WF_vars(OfFlight /\ Fly(c))

Spec == Init /\ [][Next]_vars /\ Fairness

-----------------------------------------------------------------------------

\* In the end every cancellation has reached everything below it and nobody waits
\* for a lock of the tree or for a cancelled context; every signal that was queued
\* has been relayed and every Stop has returned; every caller of Do and DoChan has
\* its result.
CallsSettle ==
  <>[](/\ package = "context" => CancellationSettled
       /\ package = "signal" => SignalsSettled
       /\ package = "singleflight" => CallersAnswered)

-----------------------------------------------------------------------------
CONSTANTS g1, g2, g3, root, mid, leaf, s1, s2, c1, c2, k1, k2

Goroutine3(a, b, c) == (g1 :> a) @@ (g2 :> b) @@ (g3 :> c)

-----------------------------------------------------------------------------
(* sync.Map: one goroutine promotes the dirty map and makes new ones, the other *)
(* keeps to one key.                                                             *)

TheMapCalls ==
  Goroutine3({<<"store", {k1}>>, <<"load", {k1}>>, <<"store", {k2}>>, <<"delete", {k2}>>,
              <<"loadorstore", {k2}>>, <<"range", {k1, k2}>>},
             {"store", "delete", "loadorstore", "load"} \X {{k1}},
             {})

-----------------------------------------------------------------------------
(* Contexts. *)

ToMake(c) == <<"with", c>>
ToCancel(c) == <<"cancel", c>>
ToWait(c) == <<"wait", c>>

Chain == (root :> Background) @@ (mid :> root) @@ (leaf :> mid)
Fork == (root :> Background) @@ (mid :> root) @@ (leaf :> root)

\* The chain is cancelled in the middle and at the top while its last context is made.
ChainCancelled(deadlines, foreign) ==
  [parent |-> Chain, deadlines |-> deadlines, foreign |-> foreign,
   todo |-> Goroutine3(<<ToMake(root), ToMake(mid), ToCancel(root)>>,
                       <<ToMake(leaf), ToCancel(mid)>>,
                       <<ToWait(leaf), ToCancel(leaf)>>)]

\* Two contexts below one, cancelled by themselves; the root is left alone or not.
ForkCancelled(deadlines, foreign, last) ==
  [parent |-> Fork, deadlines |-> deadlines, foreign |-> foreign,
   todo |-> Goroutine3(<<ToMake(root), ToMake(mid)>> \o last,
                       <<ToMake(leaf), ToCancel(leaf)>>,
                       <<ToWait(mid), ToCancel(mid)>>)]

TheContextPrograms ==
  {ChainCancelled({}, {leaf}), ChainCancelled({mid}, {}), ChainCancelled({root}, {mid}),
   ForkCancelled({mid}, {}, <<ToCancel(mid)>>), ForkCancelled({leaf}, {mid}, <<ToCancel(root)>>)}

-----------------------------------------------------------------------------
(* Signals. *)

ToNotify(c, s) == <<"notify", c, s>>
ToStop(c) == <<"stop", c>>

TheSignalPrograms ==
  { \* two channels for one signal, one of them stopped, and registered again
    Goroutine3(<<ToNotify(c1, s1), ToStop(c1)>>, <<ToNotify(c2, s1), ToStop(c1), ToNotify(c1, s1)>>, <<>>),
    \* one channel for two signals, stopped by two goroutines
    Goroutine3(<<ToNotify(c1, s1), ToStop(c1)>>, <<ToNotify(c1, s2), ToStop(c1)>>, <<>>),
    \* Reset and Ignore
    Goroutine3(<<ToNotify(c1, s1), ToNotify(c1, s2), <<"reset", s1>>, ToStop(c1)>>,
               <<ToNotify(c2, s2), <<"ignore", s2>>, ToNotify(c2, s2)>>, <<>>) }
=============================================================================
