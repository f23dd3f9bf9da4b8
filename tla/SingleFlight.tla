---------------------------- MODULE SingleFlight ----------------------------
(***************************************************************************)
(* Duplicate call suppression (internal/singleflight/singleflight.go): Do, *)
(* DoChan, doCall and ForgetUnshared of one group, for one key; the keys   *)
(* of a group have nothing to do with each other but its mutex.            *)
(*                                                                         *)
(* A critical section of g.mu is one step: it calls nothing that could     *)
(* block, since every channel in c.chans has room for its one result.      *)
(***************************************************************************)
EXTENDS Program, FiniteSets, Naturals

CONSTANTS
  Flights,      \* bound: the memory for calls
  NoFlight

ASSUME FlightAssumption == NoFlight \notin Flights

VARIABLES
  inflight,     \* g.m[key], or NoFlight
  stage,        \* where doCall of c is: "unused", "fn", "finish" or "over"
  dups,         \* c.dups: the goroutines counted in it
  chans,        \* c.chans: the goroutines whose channels are in it
  fpc,          \* where each goroutine is, "idle" outside the calls
  joined,       \* the flight whose result the goroutine is to get
  shared,       \* what it has been told of the sharing: "yes", "no" or "unknown"
  forgotten     \* history: the flights that ForgetUnshared has forgotten

flightVars == <<inflight, stage, dups, chans, fpc, joined, shared, forgotten>>

FlightInit ==
  /\ inflight = NoFlight
  /\ stage = [c \in Flights |-> "unused"]
  /\ dups = [c \in Flights |-> {}]
  /\ chans = [c \in Flights |-> {}]
  /\ fpc = [g \in Goroutines |-> "idle"]
  /\ joined = [g \in Goroutines |-> NoFlight]
  /\ shared = [g \in Goroutines |-> "unknown"]
  /\ forgotten = {}

\* new(call)
HasMemory == \E c \in Flights : stage[c] = "unused"
NewFlight == CHOOSE c \in Flights : stage[c] = "unused"

Told(c) == IF dups[c] = {} THEN "no" ELSE "yes"

\* Do or, with onChan, DoChan, up to the unlock: a duplicate waits for the flight
\* under way, any other caller starts one.  DoChan runs doCall in a goroutine of
\* its own and the caller receives from its channel.
Do(g, onChan) ==
  /\ fpc[g] = "idle"
  /\ inflight # NoFlight \/ HasMemory
  /\ LET c == IF inflight = NoFlight THEN NewFlight ELSE inflight
     IN  /\ joined' = [joined EXCEPT ![g] = c]
         /\ chans' = IF onChan THEN [chans EXCEPT ![c] = @ \cup {g}] ELSE chans
         /\ IF inflight = NoFlight
              THEN /\ inflight' = c
                   /\ stage' = [stage EXCEPT ![c] = "fn"]
                   /\ fpc' = [fpc EXCEPT ![g] = IF onChan THEN "receive" ELSE "lead"]
                   /\ UNCHANGED dups
              ELSE /\ dups' = [dups EXCEPT ![c] = @ \cup {g}]
                   /\ fpc' = [fpc EXCEPT ![g] = IF onChan THEN "receive" ELSE "wait"]
                   /\ UNCHANGED <<inflight, stage>>
  /\ UNCHANGED <<shared, forgotten>>

\* fn returns and c.wg.Done releases the waiters.
Finish(c) ==
  /\ stage[c] = "fn"
  /\ stage' = [stage EXCEPT ![c] = "finish"]
  /\ UNCHANGED <<inflight, dups, chans, fpc, joined, shared, forgotten>>

\* The results are sent to those who wait on the channels of c.
Answer(c) ==
  /\ fpc' = [g \in Goroutines |-> IF g \in chans[c] THEN "return" ELSE fpc[g]]
  /\ shared' = [g \in Goroutines |-> IF g \in chans[c] THEN Told(c) ELSE shared[g]]

\* Mutant: sends the results before it deletes the key.
LandEarly(c) ==
  /\ \/ stage[c] = "finish" /\ Answer(c) /\ stage' = [stage EXCEPT ![c] = "landing"] /\ UNCHANGED inflight
     \/ stage[c] = "landing" /\ inflight' = NoFlight /\ stage' = [stage EXCEPT ![c] = "over"]
          /\ UNCHANGED <<fpc, shared>>
  /\ UNCHANGED <<dups, chans, joined, forgotten>>

\* The end of doCall, under the lock: the key is deleted, whatever it maps to.
Land(c) ==
  /\ stage[c] = "finish"
  /\ inflight' = NoFlight
  /\ Answer(c)
  /\ stage' = [stage EXCEPT ![c] = "over"]
  /\ UNCHANGED <<dups, chans, joined, forgotten>>

\* The duplicate's c.wg.Wait returns.
FlightWaited(g) ==
  /\ fpc[g] = "wait"
  /\ stage[joined[g]] \in {"finish", "over"}
  /\ fpc' = [fpc EXCEPT ![g] = "return"]
  /\ shared' = [shared EXCEPT ![g] = "yes"]
  /\ UNCHANGED <<inflight, stage, dups, chans, joined, forgotten>>

\* doCall has returned to Do, which looks at c.dups without the lock.
Led(g) ==
  /\ fpc[g] = "lead"
  /\ stage[joined[g]] = "over"
  /\ fpc' = [fpc EXCEPT ![g] = "return"]
  /\ shared' = [shared EXCEPT ![g] = Told(joined[g])]
  /\ UNCHANGED <<inflight, stage, dups, chans, joined, forgotten>>

\* ForgetUnshared
ForgetUnshared(g) ==
  /\ fpc[g] = "idle"
  /\ IF inflight # NoFlight /\ dups[inflight] = {}
       THEN inflight' = NoFlight /\ forgotten' = forgotten \cup {inflight}
       ELSE UNCHANGED <<inflight, forgotten>>
  /\ UNCHANGED <<stage, dups, chans, fpc, joined, shared>>

\* The caller has its result.  A flight that is over and that nobody refers to is
\* collected.
FlightReturn(g) ==
  /\ fpc[g] = "return"
  /\ fpc' = [fpc EXCEPT ![g] = "idle"]
  /\ joined' = [joined EXCEPT ![g] = NoFlight]
  /\ shared' = [shared EXCEPT ![g] = "unknown"]
  /\ LET free == {c \in Flights : stage[c] = "over" /\ \A h \in Goroutines : joined'[h] # c}
     IN  /\ stage' = [c \in Flights |-> IF c \in free THEN "unused" ELSE stage[c]]
         /\ dups' = [c \in Flights |-> IF c \in free THEN {} ELSE dups[c]]
         /\ chans' = [c \in Flights |-> IF c \in free THEN {} ELSE chans[c]]
         /\ forgotten' = forgotten \ free
  /\ UNCHANGED inflight

-----------------------------------------------------------------------------
(* Goroutines that call Do, DoChan and ForgetUnshared in any order.            *)

CONSTANT MaxAsked    \* bound: the calls of Do and DoChan

VARIABLE asked       \* the number of those that were made

flightClientVars == <<flightVars, asked>>

FlightClientsInit == FlightInit /\ asked = 0

Ask(g) ==
  /\ asked < MaxAsked
  /\ \E onChan \in BOOLEAN : Do(g, onChan)
  /\ asked' = asked + 1

Forget(g) == ForgetUnshared(g) /\ UNCHANGED asked

FlightRun(g) == (FlightWaited(g) \/ Led(g) \/ FlightReturn(g)) /\ UNCHANGED asked

Fly(c) == (Finish(c) \/ Land(c)) /\ UNCHANGED asked

FlightClientsNext ==
  \/ \E g \in Goroutines : Ask(g) \/ Forget(g) \/ FlightRun(g)
  \/ \E c \in Flights : Fly(c)

FlightSpec == FlightClientsInit /\ [][FlightClientsNext]_flightClientVars

-----------------------------------------------------------------------------

\* "making sure that only one execution is in-flight for a given key at a time"
\* (singleflight.go:42-44), but for those that were forgotten on request.
OneInFlight == Cardinality({c \in Flights : stage[c] = "fn" /\ c \notin forgotten}) <= 1

\* "The return value shared indicates whether v was given to multiple callers"
\* (singleflight.go:47): who is told that the result is not shared is and stays
\* the only one, although the number of duplicates is read after the flight and,
\* in Do, without the lock.
SharedTellsTruth ==
  \A g \in Goroutines :
    /\ shared[g] = "no" => \A h \in Goroutines \ {g} : joined[h] # joined[g]
    /\ shared[g] = "yes" => dups[joined[g]] # {}

\* Who is in a flight: its members have joined it, and all but the one that started
\* it are counted; nobody joins one that has lost its key; and what is told
\* is told at the end.  From this SharedTellsTruth follows.
FlightTypeOK ==
  /\ inflight \in Flights \cup {NoFlight}
  /\ stage \in [Flights -> {"unused", "fn", "finish", "over"}]
  /\ dups \in [Flights -> SUBSET Goroutines]
  /\ chans \in [Flights -> SUBSET Goroutines]
  /\ fpc \in [Goroutines -> {"idle", "lead", "receive", "wait", "return"}]
  /\ joined \in [Goroutines -> Flights \cup {NoFlight}]
  /\ shared \in [Goroutines -> {"yes", "no", "unknown"}]

InFlight == inflight # NoFlight => stage[inflight] \in {"fn", "finish"}

Membership ==
  \A g \in Goroutines :
    /\ fpc[g] = "idle" <=> joined[g] = NoFlight
    /\ joined[g] # NoFlight => stage[joined[g]] # "unused"
    /\ fpc[g] = "wait" => g \in dups[joined[g]]
    /\ \A c \in Flights : g \in chans[c] /\ stage[c] # "over" => fpc[g] = "receive" /\ joined[g] = c

OneUncounted ==
  \A g, h \in Goroutines :
    joined[g] # NoFlight /\ joined[g] = joined[h] /\ g # h => {g, h} \cap dups[joined[g]] # {}

FreshUncounted ==
  \A c \in Flights : stage[c] = "unused" => dups[c] = {} /\ chans[c] = {}

ToldAtEnd ==
  \A g \in Goroutines :
    /\ fpc[g] # "return" => shared[g] = "unknown"
    /\ shared[g] = "no" => stage[joined[g]] = "over" /\ dups[joined[g]] = {}
    /\ shared[g] = "yes" => dups[joined[g]] # {}

FlightInv ==
  FlightTypeOK /\ InFlight /\ Membership /\ OneUncounted /\ FreshUncounted /\ ToldAtEnd

\* Every caller has got a result, also one whose flight was forgotten or lost its
\* key to another (singleflight.go:103-113).
CallersAnswered == \A g \in Goroutines : joined[g] = NoFlight
=============================================================================
