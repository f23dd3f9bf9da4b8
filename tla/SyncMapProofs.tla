--------------------------- MODULE SyncMapProofs ---------------------------
(***************************************************************************)
(* The proofs that the two maps of a sync.Map agree, and that it is a map, *)
(* for any number of goroutines, keys and calls.                           *)
(***************************************************************************)
EXTENDS SyncMap, TLAPS

\* A step that is slow on one machine is given time on every one.
USE SMTT(40), ZenonT(40)

USE MapAssumption, MapCallsAssumption

LEMMA KeyFact ==
  ASSUME MapInv, NEW g \in Goroutines, mpc[g] # "idle", kind(g) # "range"
  PROVE  /\ key(g) \in Keys /\ mcall[g][2] = {key(g)}
         /\ kind(g) \in {"load", "store", "loadorstore", "delete"}
<1>1. mcall[g] \in Abstract!Calls /\ mcall[g][1] # "range"
  BY DEF MapInv, MapTypeOK, CallShape, kind
<1>2. PICK k \in Keys : mcall[g] \in {"load", "store", "loadorstore", "delete"} \X {{k}}
  BY <1>1 DEF Abstract!Calls
<1>3. mcall[g][2] = {k} /\ mcall[g][1] \in {"load", "store", "loadorstore", "delete"}
  BY <1>2
<1> QED BY <1>3 DEF key, kind

LEMMA BlankFact ==
  ASSUME NEW v
  PROVE  \A k \in Keys : BlankMap(v)[k] = v
BY DEF BlankMap

LEMMA BlankTable == BlankMap(NoEntry) \in Tables /\ BlankMap(NoEntry) # NoEntry
BY DEF BlankMap, Tables

LEMMA TableFact ==
  ASSUME MapInv
  PROVE  /\ read.m \in Tables /\ read.amended \in BOOLEAN /\ read.m # NoEntry
         /\ \A k \in Keys : In(k, read.m) => read.m[k] \in Entries
         /\ \A k \in Keys : In(k, dirty) => dirty[k] \in Entries
         /\ \A g \in Goroutines, k \in Keys : held[g][k] # NoEntry => held[g][k] \in Entries
BY DEF MapInv, MapTypeOK, Tables, In

\* A step of g does nothing to the calls of the others.
Alone(g) ==
  \A h \in Goroutines \ {g} :
    /\ mpc'[h] = mpc[h] /\ mcall'[h] = mcall[h] /\ held'[h] = held[h] /\ left'[h] = left[h]
    /\ mu' = h <=> mu = h

\* What g itself must see to.
Shape(g) ==
  /\ CallShape(g)' /\ UnderMu(g)' /\ HoldsLiveEntries(g)'
  /\ \A k \in Keys : held'[g][k] # NoEntry => Refers(held'[g][k], k)

LEMMA OthersInv ==
  ASSUME MapInv, NEW g \in Goroutines, Alone(g), NEW h \in Goroutines, h # g
  PROVE  CallShape(h)'
BY DEF Alone, MapInv, CallShape, kind, key, entry

\* A step that leaves the two maps alone, and writes to no entry that is expunged
\* and expunges none.
LEMMA QuietStep ==
  ASSUME MapInv, MapTypeOK', NEW g \in Goroutines, Alone(g), Shape(g), mpc[g] # "add",
         read' = read, dirty' = dirty,
         \A e \in Entries, k \in Keys :
           Refers(e, k) => (pointer'[e] = Expunged <=> pointer[e] = Expunged)
  PROVE  MapInv'
<1>1. OneKeyEach'
  <2>1. ASSUME NEW e \in Entries, NEW k \in Keys, Refers(e, k)'
        PROVE  Refers(e, k)
    BY <2>1 DEF Alone, Shape, Refers, In
  <2> QED BY <2>1 DEF MapInv, OneKeyEach
<1>2. DirtyLive'
  BY TableFact DEF MapInv, DirtyLive, Refers, In
<1>3. DirtyComplete'
  <2> SUFFICES ASSUME dirty # NoEntry, NEW k \in Keys, In(k, read.m)
               PROVE  \/ \E h \in Goroutines : k \in left'[h] /\ mpc'[h] = "add"
                      \/ dirty[k] = IF pointer'[read.m[k]] = Expunged THEN NoEntry ELSE read.m[k]
    BY DEF DirtyComplete, In
  <2>1. pointer'[read.m[k]] = Expunged <=> pointer[read.m[k]] = Expunged
    BY TableFact DEF Refers
  <2> QED BY <2>1 DEF MapInv, EntriesAlive, DirtyComplete, Alone
<1>4. ASSUME NEW h \in Goroutines, h # g
      PROVE  UnderMu(h)' /\ HoldsLiveEntries(h)'
  <2>1. \A k \in Keys : held[h][k] # NoEntry =>
          (pointer'[held[h][k]] = Expunged <=> pointer[held[h][k]] = Expunged)
    BY TableFact DEF Refers
  <2>2. HoldsLiveEntries(h)'
    BY <1>4, <2>1 DEF Alone, MapInv, EntriesAlive, HoldsLiveEntries, kind
  <2>3. mpc[h] = "put" => entry(h) # NoEntry /\ pointer'[entry(h)] # Expunged
    BY <2>1, KeyFact DEF MapInv, CallShape, UnderMu, entry
  <2>4. UnderMu(h)'
    <3>1. /\ key(h)' = key(h) /\ entry(h)' = entry(h)
          /\ mpc'[h] = mpc[h] /\ left'[h] = left[h]
      BY <1>4 DEF Alone, key, entry
    <3>2. \A k : In(k, read.m)' = In(k, read.m) /\ In(k, dirty)' = In(k, dirty)
      BY DEF In
    <3>3. UnderMu(h)
      BY DEF MapInv
    <3> QED BY <2>3, <3>1, <3>2, <3>3 DEF UnderMu, In
  <2> QED BY <2>2, <2>4
<1> QED BY <1>1, <1>2, <1>3, <1>4, OthersInv DEF MapInv, EntriesAlive, Shape

\* The dirty map takes the place of the read map.
LEMMA PromoteStep ==
  ASSUME MapInv, MapTypeOK', NEW g \in Goroutines, Alone(g), mpc[g] \notin {"add", "put"},
         mu \in {NoHolder, g}, mu' \in {NoHolder, g},
         CallShape(g)', UnderMu(g)', HoldsLiveEntries(g)',
         \A k \in Keys : held'[g][k] # NoEntry => Refers(held'[g][k], k),
         dirty # NoEntry, read' = Promoted, dirty' = NoEntry, pointer' = pointer
  PROVE  MapInv'
<1>1. \A h \in Goroutines : h # g => mpc[h] \notin {"add", "put", "miss"}
  BY DEF MapInv, CallShape
<1>2. read'.m = dirty /\ read'.amended = FALSE
  BY DEF Promoted
<1>3. OneKeyEach'
  <2>1. ASSUME NEW e \in Entries, NEW k \in Keys, Refers(e, k)'
        PROVE  Refers(e, k)
    BY <1>2, <2>1 DEF Alone, Refers, In
  <2> QED BY <2>1 DEF MapInv, OneKeyEach
<1>4. DirtyLive'
  BY <1>2 DEF MapInv, DirtyLive, In
<1>5. DirtyComplete'
  BY DEF DirtyComplete
<1>6. ASSUME NEW h \in Goroutines, h # g
      PROVE  UnderMu(h)' /\ HoldsLiveEntries(h)'
  <2>1. UnderMu(h)'
    BY <1>1, <1>6 DEF Alone, UnderMu
  <2>2. ASSUME NEW k \in Keys, held[h][k] # NoEntry, held[h][k] = read.m[k],
               pointer[held[h][k]] # Expunged
        PROVE  dirty[k] = held[h][k]
    BY <1>1, <2>2, TableFact DEF MapInv, EntriesAlive, DirtyComplete, In
  <2>3. HoldsLiveEntries(h)'
    BY <1>2, <1>6, <2>2 DEF Alone, MapInv, EntriesAlive, HoldsLiveEntries, kind
  <2> QED BY <2>1, <2>3
<1> QED BY <1>3, <1>4, <1>5, <1>6, OthersInv DEF MapInv, EntriesAlive

-----------------------------------------------------------------------------
(* The actions.                                                            *)

LabelSet == {"idle", "start", "entry", "lock", "put", "miss", "add", "iterate", "return"}

\* A call that has its result is in nobody's way.
LEMMA FoundFact ==
  ASSUME MapInv, NEW g \in Goroutines, NEW k \in Keys, NEW v \in Goroutines \cup {NoValue},
         Found(g, k, v), mpc[g] # "idle", left' = left, left[g] = {}, mu' # g
  PROVE  /\ mpc' \in [Goroutines -> LabelSet] /\ mcall' = mcall
         /\ held' \in [Goroutines -> Tables]
         /\ found' \in [Goroutines -> [Keys -> Goroutines \cup {NoValue, NoCall}]]
         /\ Shape(g)
         /\ \A h \in Goroutines \ {g} :
              mpc'[h] = mpc[h] /\ mcall'[h] = mcall[h] /\ held'[h] = held[h] /\ left'[h] = left[h]
<1>1. /\ mpc' = [mpc EXCEPT ![g] = "return"] /\ mcall' = mcall
      /\ held' = [held EXCEPT ![g] = BlankMap(NoEntry)]
      /\ found' = [found EXCEPT ![g][k] = v]
  BY DEF Found, MapGoto
<1>2. mpc' \in [Goroutines -> LabelSet] /\ held' \in [Goroutines -> Tables]
  BY <1>1, BlankTable DEF MapInv, MapTypeOK, LabelSet
<1>3. found' \in [Goroutines -> [Keys -> Goroutines \cup {NoValue, NoCall}]]
  BY <1>1 DEF MapInv, MapTypeOK
<1>4. mpc'[g] = "return" /\ \A j \in Keys : held'[g][j] = NoEntry
  BY <1>1, BlankFact DEF MapInv, MapTypeOK
<1>5. CallShape(g)'
  BY <1>1, <1>4 DEF MapInv, CallShape
<1>6. UnderMu(g)'
  BY <1>4 DEF UnderMu
<1>7. HoldsLiveEntries(g)'
  BY <1>4 DEF HoldsLiveEntries
<1>8. Shape(g)
  BY <1>4, <1>5, <1>6, <1>7 DEF Shape
<1> QED BY <1>1, <1>2, <1>3, <1>8 DEF MapInv, MapTypeOK

\* A call that has looked up the entry of its key.
LEMMA HoldFact ==
  ASSUME MapInv, NEW g \in Goroutines, kind(g) # "range", mpc[g] \in {"start", "lock"},
         NEW e \in Entries, NEW label \in {"entry", "put"},
         Hold(g, key(g), e), MapGoto(g, label),
         label = "put" => kind(g) \in {"store", "loadorstore"},
         label = "put" <=> mu' = g, left' = left
  PROVE  /\ key(g) \in Keys
         /\ mpc' \in [Goroutines -> LabelSet] /\ mcall' = mcall
         /\ held' \in [Goroutines -> Tables]
         /\ mpc'[g] = label /\ held'[g][key(g)] = e
         /\ \A k \in Keys : k # key(g) => held'[g][k] = NoEntry
         /\ \A h \in Goroutines \ {g} :
              mpc'[h] = mpc[h] /\ mcall'[h] = mcall[h] /\ held'[h] = held[h]
         /\ CallShape(g)'
<1>1. key(g) \in Keys /\ mpc[g] # "idle"
  BY KeyFact
<1>2. /\ mpc' = [mpc EXCEPT ![g] = label] /\ mcall' = mcall
      /\ held' = [held EXCEPT ![g][key(g)] = e]
  BY DEF Hold, MapGoto
<1>3. mpc' \in [Goroutines -> LabelSet] /\ held' \in [Goroutines -> Tables]
  BY <1>1, <1>2 DEF MapInv, MapTypeOK, LabelSet, Tables
<1>4. mpc'[g] = label /\ held'[g][key(g)] = e
  BY <1>1, <1>2 DEF MapInv, MapTypeOK, Tables
<1>5. \A k \in Keys : k # key(g) => held'[g][k] = held[g][k]
  BY <1>1, <1>2 DEF MapInv, MapTypeOK, Tables
<1>6. left'[g] = {} /\ \A k \in Keys : held[g][k] = NoEntry
  BY DEF MapInv, CallShape
<1>7. key(g)' = key(g) /\ kind(g)' = kind(g) /\ mcall[g] # NoCall
  BY <1>1, <1>2 DEF key, kind, MapInv, CallShape
<1>8. entry(g)' # NoEntry
  BY <1>4, <1>7 DEF entry
<1>9. CallShape(g)'
  BY <1>2, <1>4, <1>5, <1>6, <1>7, <1>8 DEF CallShape
<1> QED BY <1>1, <1>2, <1>3, <1>4, <1>5, <1>6, <1>9 DEF MapInv, MapTypeOK

LEMMA MapCallInv ==
  ASSUME MapInv, NEW g \in Goroutines, NEW c \in MapCalls[g], MapCall(g, c)
  PROVE  MapInv'
<1>1. c \in Abstract!Calls /\ c # NoCall
  OBVIOUS
<1>2. MapTypeOK'
  BY <1>1 DEF MapCall, MapInv, MapTypeOK
<1>3. mpc[g] = "idle" /\ mpc'[g] = "start" /\ mcall'[g] = c
  BY DEF MapCall, MapInv, MapTypeOK
<1>4. Alone(g)
  BY DEF MapCall, MapInv, MapTypeOK, Alone
<1>5. \A k \in Keys : held'[g][k] = NoEntry
  BY <1>3 DEF MapCall, MapInv, CallShape
<1>6. Shape(g)
  BY <1>1, <1>3, <1>5 DEF MapCall, Shape, CallShape, UnderMu, HoldsLiveEntries, MapInv
<1> QED BY <1>2, <1>3, <1>4, <1>6, QuietStep DEF MapCall

LEMMA MapLookupInv ==
  ASSUME MapInv, NEW g \in Goroutines, MapLookup(g)
  PROVE  MapInv'
<1> DEFINE k == key(g)
<1>1. /\ mpc[g] = "start" /\ kind(g) # "range" /\ k \in Keys /\ mu # g /\ left[g] = {}
      /\ UNCHANGED <<pointer, read, dirty, misses, mu, left>>
  BY KeyFact DEF MapLookup, MapInv, CallShape
<1>2. CASE In(k, read.m)
  <2>1. Hold(g, k, read.m[k]) /\ MapGoto(g, "entry") /\ found' = found /\ read.m[k] \in Entries
    BY <1>1, <1>2, TableFact DEF MapLookup
  <2>2. MapTypeOK'
    BY <1>1, <2>1, HoldFact DEF MapInv, MapTypeOK, LabelSet
  <2>3. Alone(g)
    BY <1>1, <2>1, HoldFact DEF Alone
  <2>4. Shape(g)
    BY <1>1, <1>2, <2>1, HoldFact DEF Shape, UnderMu, HoldsLiveEntries, Refers
  <2> QED BY <1>1, <2>2, <2>3, <2>4, QuietStep
<1>3. CASE MapGoto(g, "lock") /\ UNCHANGED <<held, found>>
  <2>1. mpc' = [mpc EXCEPT ![g] = "lock"] /\ mcall' = mcall
    BY <1>3 DEF MapGoto
  <2>2. MapTypeOK' /\ mpc'[g] = "lock"
    BY <1>1, <1>3, <2>1 DEF MapInv, MapTypeOK
  <2>3. Alone(g)
    BY <1>1, <1>3, <2>1 DEF Alone, MapInv, MapTypeOK
  <2>4. \A j \in Keys : held[g][j] = NoEntry
    BY <1>1 DEF MapInv, CallShape
  <2>5. Shape(g)
    BY <1>1, <1>3, <2>1, <2>2, <2>4 DEF Shape, CallShape, UnderMu, HoldsLiveEntries, MapInv
  <2> QED BY <1>1, <2>2, <2>3, <2>5, QuietStep
<1>4. CASE Found(g, k, NoValue)
  <2>1. MapTypeOK'
    BY <1>1, <1>4, FoundFact DEF MapInv, MapTypeOK, LabelSet
  <2>2. Alone(g) /\ Shape(g)
    BY <1>1, <1>4, FoundFact DEF Alone
  <2> QED BY <1>1, <2>1, <2>2, QuietStep
<1> QED BY <1>1, <1>2, <1>3, <1>4 DEF MapLookup

LEMMA LoadEntryInv ==
  ASSUME MapInv, NEW g \in Goroutines, LoadEntry(g)
  PROVE  MapInv'
<1> DEFINE v == ValueOf(pointer[entry(g)])
<1>1. /\ mpc[g] = "entry" /\ key(g) \in Keys /\ mu # g /\ left[g] = {}
      /\ UNCHANGED <<pointer, read, dirty, misses, mu, left>>
  BY KeyFact DEF LoadEntry, MapInv, CallShape
<1>2. entry(g) \in Entries
  BY <1>1, TableFact DEF MapInv, CallShape, entry
<1>3. v \in Goroutines \cup {NoValue}
  BY <1>2 DEF ValueOf, Valid, MapInv, MapTypeOK
<1>4. Found(g, key(g), v)
  BY DEF LoadEntry
<1>5. MapTypeOK' /\ Alone(g) /\ Shape(g)
  BY <1>1, <1>3, <1>4, FoundFact DEF MapInv, MapTypeOK, LabelSet, Alone
<1> QED BY <1>1, <1>5, QuietStep

LEMMA DeleteEntryInv ==
  ASSUME MapInv, NEW g \in Goroutines, DeleteEntry(g)
  PROVE  MapInv'
<1> DEFINE e == entry(g)
<1>1. /\ mpc[g] = "entry" /\ key(g) \in Keys /\ mu # g /\ left[g] = {}
      /\ UNCHANGED <<read, dirty, misses, mu, left>>
  BY KeyFact DEF DeleteEntry, MapInv, CallShape
<1>2. e \in Entries
  BY <1>1, TableFact DEF MapInv, CallShape, entry
<1>3. pointer' = [pointer EXCEPT ![e] = IF @ = Expunged THEN @ ELSE NoValue]
  BY DEF DeleteEntry
<1>4. \A d \in Entries : pointer'[d] = Expunged <=> pointer[d] = Expunged
  BY <1>2, <1>3 DEF MapInv, MapTypeOK
<1>5. Found(g, key(g), NoValue)
  BY DEF DeleteEntry
<1>6. pointer' \in [Entries -> Goroutines \cup {NoValue, Expunged}]
  BY <1>2, <1>3 DEF MapInv, MapTypeOK
<1>7. Alone(g) /\ Shape(g)
  BY <1>1, <1>5, FoundFact DEF Alone
<1>8. MapTypeOK'
  BY <1>1, <1>5, <1>6, FoundFact DEF MapInv, MapTypeOK, LabelSet
<1> QED BY <1>1, <1>4, <1>7, <1>8, QuietStep

\* What a store leaves in an entry.
LEMMA PutFact ==
  ASSUME MapInv, NEW g \in Goroutines, NEW e \in Entries, pointer[e] # Expunged
  PROVE  Put(g, pointer[e]) \in Goroutines \cup {NoValue} /\ Put(g, pointer[e]) # Expunged
BY DEF Put, MapInv, MapTypeOK

\* A store to an entry that is not expunged.
LEMMA PutPointer ==
  ASSUME MapInv, NEW g \in Goroutines, NEW e \in Entries, pointer[e] # Expunged,
         pointer' = [pointer EXCEPT ![e] = Put(g, @)]
  PROVE  /\ pointer' \in [Entries -> Goroutines \cup {NoValue, Expunged}]
         /\ \A d \in Entries : pointer'[d] = Expunged <=> pointer[d] = Expunged
BY PutFact DEF MapInv, MapTypeOK

\* The step from one position to another of a call that holds no entry.
LEMMA GotoFact ==
  ASSUME MapInv, NEW g \in Goroutines, NEW label \in LabelSet, MapGoto(g, label), held' = held
  PROVE  /\ mpc' \in [Goroutines -> LabelSet] /\ mcall' = mcall
         /\ mpc'[g] = label /\ kind(g)' = kind(g) /\ key(g)' = key(g) /\ entry(g)' = entry(g)
         /\ \A h \in Goroutines \ {g} :
              mpc'[h] = mpc[h] /\ mcall'[h] = mcall[h] /\ held'[h] = held[h]
BY DEF MapGoto, MapInv, MapTypeOK, LabelSet, kind, key, entry

LEMMA StoreEntryInv ==
  ASSUME MapInv, NEW g \in Goroutines, StoreEntry(g)
  PROVE  MapInv'
<1> DEFINE e == entry(g)
<1>1. /\ mpc[g] = "entry" /\ key(g) \in Keys /\ mu # g /\ left[g] = {}
      /\ UNCHANGED <<read, dirty, misses, mu, left>>
  BY KeyFact DEF StoreEntry, MapInv, CallShape
<1>2. e \in Entries
  BY <1>1, TableFact DEF MapInv, CallShape, entry
<1>3. CASE pointer[e] # Expunged
  <2>1. Found(g, key(g), Put(g, pointer[e])) /\ pointer' = [pointer EXCEPT ![e] = Put(g, @)]
    BY <1>3 DEF StoreEntry
  <2>2. Alone(g) /\ Shape(g)
    BY <1>1, <1>2, <1>3, <2>1, PutFact, FoundFact DEF Alone
  <2>3. MapTypeOK'
    BY <1>1, <1>2, <1>3, <2>1, PutFact, PutPointer, FoundFact DEF MapInv, MapTypeOK, LabelSet
  <2> QED BY <1>1, <1>2, <1>3, <2>1, <2>2, <2>3, PutPointer, QuietStep
<1>4. CASE pointer[e] = Expunged
  <2>1. /\ mpc' = [mpc EXCEPT ![g] = "lock"] /\ mcall' = mcall
        /\ held' = [held EXCEPT ![g] = BlankMap(NoEntry)]
        /\ UNCHANGED <<pointer, found>>
    BY <1>4 DEF StoreEntry, MapGoto
  <2>2. MapTypeOK'
    BY <1>1, <2>1, BlankTable DEF MapInv, MapTypeOK
  <2>3. mpc'[g] = "lock" /\ \A j \in Keys : held'[g][j] = NoEntry
    BY <2>1, BlankFact DEF MapInv, MapTypeOK
  <2>4. Alone(g)
    BY <1>1, <2>1 DEF Alone, MapInv, MapTypeOK
  <2>5. Shape(g)
    BY <1>1, <2>1, <2>3 DEF Shape, CallShape, UnderMu, HoldsLiveEntries, MapInv
  <2> QED BY <1>1, <2>1, <2>2, <2>4, <2>5, QuietStep
<1> QED BY <1>3, <1>4

LEMMA PutLockedInv ==
  ASSUME MapInv, NEW g \in Goroutines, PutLocked(g)
  PROVE  MapInv'
<1> DEFINE e == entry(g)
<1>1. /\ mpc[g] = "put" /\ key(g) \in Keys /\ mu = g /\ mu' = NoHolder /\ left[g] = {}
      /\ UNCHANGED <<read, dirty, misses, left>>
  BY KeyFact DEF PutLocked, MapInv, CallShape
<1>2. e \in Entries /\ pointer[e] # Expunged
  BY <1>1, TableFact DEF MapInv, CallShape, UnderMu, entry
<1>3. Found(g, key(g), Put(g, pointer[e])) /\ pointer' = [pointer EXCEPT ![e] = Put(g, @)]
  BY DEF PutLocked
<1>4. Alone(g) /\ Shape(g)
  BY <1>1, <1>2, <1>3, PutFact, FoundFact DEF Alone
<1>5. MapTypeOK'
  BY <1>1, <1>2, <1>3, PutFact, PutPointer, FoundFact DEF MapInv, MapTypeOK, LabelSet
<1> QED BY <1>1, <1>2, <1>3, <1>4, <1>5, PutPointer, QuietStep

LEMMA PutDirtyInv ==
  ASSUME MapInv, NEW g \in Goroutines, PutDirty(g)
  PROVE  MapInv'
<1> DEFINE k == key(g)
           e == dirty[k]
<1>1. /\ mpc[g] = "lock" /\ k \in Keys /\ mu = NoHolder /\ In(k, dirty)
      /\ kind(g) \in {"store", "loadorstore"}
      /\ UNCHANGED <<read, dirty, misses, held, left>>
  BY KeyFact DEF PutDirty, Enter
<1>2. e \in Entries /\ pointer[e] # Expunged /\ dirty # NoEntry
  BY <1>1, TableFact DEF MapInv, DirtyLive, In
<1>3. /\ pointer' = [pointer EXCEPT ![e] = Put(g, @)]
      /\ found' = [found EXCEPT ![g][k] = Put(g, pointer[e])]
  BY DEF PutDirty
<1>4. PICK label \in {"return", "miss"} :
        MapGoto(g, label) /\ mu' = (IF label = "miss" THEN g ELSE mu) /\ (label = "miss" => kind(g) # "range")
  BY <1>1 DEF PutDirty
<1>5. found' \in [Goroutines -> [Keys -> Goroutines \cup {NoValue, NoCall}]]
  BY <1>1, <1>2, <1>3, PutFact DEF MapInv, MapTypeOK
<1>6. label \in LabelSet
  BY <1>4 DEF LabelSet
<1>7. MapTypeOK'
  <2>1. pointer' \in [Entries -> Goroutines \cup {NoValue, Expunged}]
    BY <1>2, <1>3, PutPointer
  <2>2. mu' \in Goroutines \cup {NoHolder}
    BY <1>1, <1>4
  <2> QED BY <1>1, <1>4, <1>5, <1>6, <2>1, <2>2, GotoFact DEF MapInv, MapTypeOK, LabelSet
<1>8. Alone(g)
  BY <1>1, <1>4, <1>6, GotoFact DEF Alone
<1>9. \A j \in Keys : held'[g][j] = NoEntry
  BY <1>1 DEF MapInv, CallShape
<1>10. Shape(g)
  BY <1>1, <1>2, <1>4, <1>6, <1>9, GotoFact DEF Shape, CallShape, UnderMu, HoldsLiveEntries, MapInv
<1> QED BY <1>1, <1>2, <1>3, <1>7, <1>8, <1>10, PutPointer, QuietStep

LEMMA MissLockedInv ==
  ASSUME MapInv, NEW g \in Goroutines, MissLocked(g)
  PROVE  MapInv'
<1>1. /\ mpc[g] = "miss" /\ mu = g /\ mu' = NoHolder /\ MapGoto(g, "return")
      /\ UNCHANGED <<pointer, held, left, found>>
      /\ dirty # NoEntry
  BY DEF MissLocked, MapInv, CallShape, UnderMu
<1>2. "return" \in LabelSet
  BY DEF LabelSet
<1>3. Alone(g)
  BY <1>1, <1>2, GotoFact DEF Alone
<1>4. \A j \in Keys : held'[g][j] = NoEntry
  BY <1>1 DEF MapInv, CallShape
<1>5. Shape(g)
  BY <1>1, <1>2, <1>4, GotoFact DEF Shape, CallShape, UnderMu, HoldsLiveEntries, MapInv
<1>6. CASE UNCHANGED <<read, dirty>>
  <2>1. MapTypeOK'
    BY <1>1, <1>2, <1>6, GotoFact DEF MapInv, MapTypeOK, LabelSet
  <2> QED BY <1>1, <1>3, <1>5, <1>6, <2>1, QuietStep
<1>7. CASE read' = Promoted /\ dirty' = NoEntry
  <2>1. MapTypeOK'
    BY <1>1, <1>2, <1>7, GotoFact DEF MapInv, MapTypeOK, LabelSet, Promoted
  <2> QED BY <1>1, <1>3, <1>4, <1>5, <1>7, <2>1, PromoteStep DEF Shape
<1> QED BY <1>6, <1>7 DEF MissLocked, Miss

\* Who can enter a critical section sees nobody in one.
LEMMA EnterFact ==
  ASSUME MapInv, NEW g \in Goroutines, Enter(g)
  PROVE  /\ mpc[g] = "lock" /\ mu = NoHolder /\ mcall[g] # NoCall /\ left[g] = {}
         /\ \A h \in Goroutines : mpc[h] \notin {"put", "add", "miss"}
         /\ \A k \in Keys : held[g][k] = NoEntry
         /\ kind(g) # "range" => key(g) \in Keys
BY KeyFact DEF Enter, MapInv, CallShape

LEMMA LoadLockedInv ==
  ASSUME MapInv, NEW g \in Goroutines, LoadLocked(g)
  PROVE  MapInv'
<1> DEFINE k == key(g)
           inDirty == ~In(k, read.m) /\ read.amended
           m == IF inDirty THEN dirty ELSE read.m
<1>1. /\ mpc[g] = "lock" /\ mu = NoHolder /\ k \in Keys /\ kind(g) = "load" /\ left[g] = {}
      /\ UNCHANGED <<pointer, mu, left>>
  BY EnterFact DEF LoadLocked
<1>2. MapTypeOK' /\ Alone(g) /\ Shape(g)
  <2>1. read' \in [m : Tables, amended : BOOLEAN] /\ dirty' \in Tables \cup {NoEntry}
    <3>1. inDirty => dirty # NoEntry
      BY DEF MapInv, DirtyLive
    <3>2. CASE UNCHANGED <<read, dirty>>
      BY <3>2 DEF MapInv, MapTypeOK
    <3>3. CASE inDirty /\ read' = Promoted /\ dirty' = NoEntry
      BY <3>1, <3>3 DEF Promoted, MapInv, MapTypeOK
    <3> QED BY <3>2, <3>3 DEF LoadLocked, Miss
  <2>2. CASE In(k, m)
    <3>1. Hold(g, k, m[k]) /\ MapGoto(g, "entry") /\ found' = found /\ m[k] \in Entries
      BY <1>1, <2>2, TableFact DEF LoadLocked
    <3>2. MapTypeOK'
      BY <1>1, <2>1, <3>1, HoldFact DEF MapInv, MapTypeOK, LabelSet
    <3>3. Alone(g)
      BY <1>1, <3>1, HoldFact DEF Alone
    <3>4. Shape(g)
      <4>1. CallShape(g)' /\ UnderMu(g)' /\ kind(g)' = "load"
        BY <1>1, <3>1, HoldFact DEF UnderMu, kind
      <4>2. HoldsLiveEntries(g)'
        BY <4>1 DEF HoldsLiveEntries
      <4>3. Refers(m[k], k)
        BY <2>2 DEF Refers
      <4> QED BY <1>1, <3>1, <4>1, <4>2, <4>3, HoldFact DEF Shape
    <3> QED BY <3>2, <3>3, <3>4
  <2>3. CASE ~In(k, m)
    <3>1. Found(g, k, NoValue)
      BY <2>3 DEF LoadLocked
    <3> QED BY <1>1, <2>1, <3>1, FoundFact DEF Alone, MapInv, MapTypeOK, LabelSet
  <2> QED BY <2>2, <2>3
<1>3. CASE UNCHANGED <<read, dirty>>
  BY <1>1, <1>2, <1>3, QuietStep
<1>4. CASE inDirty /\ read' = Promoted /\ dirty' = NoEntry
  <2>1. dirty # NoEntry
    BY <1>4 DEF MapInv, DirtyLive
  <2> QED BY <1>1, <1>2, <1>4, <2>1, PromoteStep DEF Shape
<1> QED BY <1>3, <1>4 DEF LoadLocked, Miss

LEMMA RangeStartInv ==
  ASSUME MapInv, NEW g \in Goroutines, RangeStart(g)
  PROVE  MapInv'
<1>1. /\ mpc[g] = "start" /\ kind(g) = "range" /\ mcall[g] # NoCall /\ mu # g
      /\ \A k \in Keys : held[g][k] = NoEntry
      /\ UNCHANGED <<pointer, read, dirty, misses, mu, found>>
  BY DEF RangeStart, MapInv, CallShape
<1>2. CASE read.amended
  <2>1. MapGoto(g, "lock") /\ UNCHANGED <<held, left>> /\ "lock" \in LabelSet
    BY <1>2 DEF RangeStart, LabelSet
  <2>2. MapTypeOK'
    BY <1>1, <2>1, GotoFact DEF MapInv, MapTypeOK, LabelSet
  <2>3. Alone(g)
    BY <1>1, <2>1, GotoFact DEF Alone
  <2>4. Shape(g)
    BY <1>1, <2>1, GotoFact DEF Shape, CallShape, UnderMu, HoldsLiveEntries, MapInv
  <2> QED BY <1>1, <2>2, <2>3, <2>4, QuietStep
<1>3. CASE ~read.amended
  <2>1. /\ held' = [held EXCEPT ![g] = read.m] /\ left' = [left EXCEPT ![g] = Keys]
        /\ mpc' = [mpc EXCEPT ![g] = "iterate"] /\ mcall' = mcall
    BY <1>3 DEF RangeStart, MapGoto
  <2>2. MapTypeOK'
    BY <1>1, <2>1, TableFact DEF MapInv, MapTypeOK
  <2>3. Alone(g) /\ mpc'[g] = "iterate" /\ held'[g] = read.m
    BY <1>1, <2>1 DEF Alone, MapInv, MapTypeOK
  <2>4. kind(g)' = "range"
    BY <1>1, <2>1 DEF kind
  <2>5. left'[g] = Keys
    BY <2>1 DEF MapInv, MapTypeOK
  <2>6. CallShape(g)'
    BY <1>1, <2>1, <2>3, <2>4, <2>5 DEF CallShape
  <2>7. UnderMu(g)' /\ HoldsLiveEntries(g)'
    BY <2>3, <2>4 DEF UnderMu, HoldsLiveEntries
  <2>8. \A k \in Keys : held'[g][k] # NoEntry => Refers(held'[g][k], k)
    BY <2>3, TableFact DEF Refers, In
  <2>9. Shape(g)
    BY <2>6, <2>7, <2>8 DEF Shape
  <2> QED BY <1>1, <2>2, <2>3, <2>9, QuietStep
<1> QED BY <1>2, <1>3

LEMMA RangePromoteInv ==
  ASSUME MapInv, NEW g \in Goroutines, RangePromote(g)
  PROVE  MapInv'
<1>1. /\ mpc[g] = "lock" /\ mu = NoHolder /\ kind(g) = "range" /\ mcall[g] # NoCall
      /\ \A k \in Keys : held[g][k] = NoEntry
      /\ held' = [held EXCEPT ![g] = read'.m] /\ left' = [left EXCEPT ![g] = Keys]
      /\ mpc' = [mpc EXCEPT ![g] = "iterate"] /\ mcall' = mcall
      /\ UNCHANGED <<pointer, mu, found>>
  BY EnterFact DEF RangePromote, MapGoto
<1>2. read.amended => dirty # NoEntry
  BY DEF MapInv, DirtyLive
<1>3. \/ read' = read /\ dirty' = dirty
      \/ read.amended /\ read' = Promoted /\ dirty' = NoEntry
  BY DEF RangePromote
<1>4. read' \in [m : Tables, amended : BOOLEAN] /\ dirty' \in Tables \cup {NoEntry}
  <2>1. CASE read' = read /\ dirty' = dirty
    BY <2>1 DEF MapInv, MapTypeOK
  <2>2. CASE read.amended /\ read' = Promoted /\ dirty' = NoEntry
    BY <1>2, <2>2 DEF Promoted, MapInv, MapTypeOK
  <2> QED BY <1>3, <2>1, <2>2
<1>5. MapTypeOK'
  BY <1>1, <1>4 DEF MapInv, MapTypeOK
<1>6. Alone(g) /\ mpc'[g] = "iterate" /\ held'[g] = read'.m
  BY <1>1, <1>4 DEF Alone, MapInv, MapTypeOK
<1>7. kind(g)' = "range"
  BY <1>1 DEF kind
<1>8. \A k \in Keys : held'[g][k] # NoEntry => Refers(held'[g][k], k)
  BY <1>2, <1>3, <1>6, TableFact DEF Promoted, Refers, In
<1>9. Shape(g)
  <2>1. left'[g] = Keys
    BY <1>1 DEF MapInv, MapTypeOK
  <2>2. CallShape(g)'
    BY <1>1, <1>6, <1>7, <2>1 DEF CallShape
  <2>3. UnderMu(g)' /\ HoldsLiveEntries(g)'
    BY <1>6, <1>7 DEF UnderMu, HoldsLiveEntries
  <2> QED BY <1>8, <2>2, <2>3 DEF Shape
<1>10. CASE read' = read /\ dirty' = dirty
  BY <1>1, <1>5, <1>6, <1>9, <1>10, QuietStep
<1>11. CASE read.amended /\ read' = Promoted /\ dirty' = NoEntry
  BY <1>1, <1>2, <1>5, <1>6, <1>9, <1>11, PromoteStep DEF Shape
<1> QED BY <1>3, <1>10, <1>11

LEMMA RangeNextInv ==
  ASSUME MapInv, NEW g \in Goroutines, RangeNext(g)
  PROVE  MapInv'
<1>1. PICK k \in left[g] :
        /\ left' = [left EXCEPT ![g] = @ \ {k}]
        /\ held' = [held EXCEPT ![g][k] = NoEntry]
        /\ found' = [found EXCEPT ![g][k] =
                       IF held[g][k] = NoEntry THEN NoValue ELSE ValueOf(pointer[held[g][k]])]
  BY DEF RangeNext, Hold
<1>2. /\ k \in Keys /\ mpc[g] = "iterate" /\ kind(g) = "range" /\ mcall[g] # NoCall /\ mu # g
      /\ UNCHANGED <<pointer, read, dirty, misses, mu, mcall>>
  BY DEF RangeNext, MapGoto, MapInv, MapTypeOK, CallShape
<1>3. PICK label \in {"return", "iterate"} :
        mpc' = [mpc EXCEPT ![g] = label] /\ (label = "return" <=> left'[g] = {})
  BY DEF RangeNext, MapGoto
<1>4. held' \in [Goroutines -> Tables]
  BY <1>1, <1>2 DEF MapInv, MapTypeOK, Tables
<1>5. found' \in [Goroutines -> [Keys -> Goroutines \cup {NoValue, NoCall}]]
  <2>1. held[g][k] # NoEntry => ValueOf(pointer[held[g][k]]) \in Goroutines \cup {NoValue}
    BY <1>2, TableFact DEF ValueOf, Valid, MapInv, MapTypeOK
  <2> QED BY <1>1, <1>2, <2>1 DEF MapInv, MapTypeOK
<1>6. MapTypeOK'
  BY <1>1, <1>2, <1>3, <1>4, <1>5 DEF MapInv, MapTypeOK
<1>7. Alone(g) /\ mpc'[g] = label
  BY <1>1, <1>2, <1>3 DEF Alone, MapInv, MapTypeOK
<1>8. /\ \A j \in Keys : held'[g][j] = IF j = k THEN NoEntry ELSE held[g][j]
      /\ left'[g] = left[g] \ {k}
  BY <1>1, <1>2 DEF MapInv, MapTypeOK, Tables
<1>9. Shape(g)
  <2>1. \A j \in Keys : held'[g][j] # NoEntry => j \in left'[g] /\ held'[g][j] = held[g][j]
    BY <1>2, <1>8 DEF MapInv, CallShape
  <2>2. \A j \in Keys : held'[g][j] # NoEntry => label = "iterate"
    BY <1>3, <2>1
  <2>3. kind(g)' = "range"
    BY <1>2 DEF kind
  <2>4. CallShape(g)'
    BY <1>2, <1>3, <1>7, <2>1, <2>2, <2>3 DEF CallShape
  <2>5. UnderMu(g)' /\ HoldsLiveEntries(g)'
    BY <1>7, <2>3 DEF UnderMu, HoldsLiveEntries
  <2> QED BY <2>1, <2>4, <2>5 DEF Shape, Refers
<1> QED BY <1>2, <1>6, <1>7, <1>9, QuietStep

LEMMA UsedFact ==
  ASSUME MapInv, NEW e \in Entries, NEW k \in Keys, Refers(e, k)
  PROVE  e \in Used
<1>1. CASE In(k, read.m) /\ e = read.m[k]
  <2>1. e \in EntriesOf(read.m)
    BY <1>1 DEF In, EntriesOf
  <2> QED BY <2>1 DEF Used
<1>2. CASE In(k, dirty) /\ e = dirty[k]
  <2>1. e \in EntriesOf(dirty)
    BY <1>2 DEF In, EntriesOf
  <2> QED BY <2>1 DEF Used
<1>3. CASE \E g \in Goroutines : e = held[g][k]
  <2>1. PICK g \in Goroutines : e = held[g][k]
    BY <1>3
  <2>2. held[g] # NoEntry
    BY DEF MapInv, MapTypeOK
  <2>3. e \in EntriesOf(held[g])
    BY <2>1, <2>2 DEF EntriesOf
  <2> QED BY <2>3 DEF Used
<1> QED BY <1>1, <1>2, <1>3 DEF Refers

LEMMA MapReturnInv ==
  ASSUME MapInv, NEW g \in Goroutines, MapReturn(g)
  PROVE  MapInv'
<1>1. /\ mpc[g] = "return" /\ mpc' = [mpc EXCEPT ![g] = "idle"]
      /\ mcall' = [mcall EXCEPT ![g] = NoCall] /\ found' = [found EXCEPT ![g] = BlankMap(NoCall)]
      /\ mu # g /\ \A k \in Keys : held[g][k] = NoEntry
      /\ UNCHANGED <<read, dirty, misses, mu, held, left>>
  BY DEF MapReturn, MapInv, CallShape
<1>2. pointer' = [e \in Entries |-> IF e \in Used THEN pointer[e] ELSE NoValue]
  BY DEF MapReturn
<1>3. \A e \in Entries, k \in Keys : Refers(e, k) => e \in Used
  BY UsedFact
<1>4. MapTypeOK'
  BY <1>1, <1>2 DEF MapInv, MapTypeOK, BlankMap
<1>5. Alone(g) /\ mpc'[g] = "idle" /\ mcall'[g] = NoCall
  BY <1>1 DEF Alone, MapInv, MapTypeOK
<1>6. Shape(g)
  BY <1>1, <1>5 DEF Shape, CallShape, UnderMu, HoldsLiveEntries, MapInv
<1> HIDE <1>2
<1>7. \A e \in Entries, k \in Keys : Refers(e, k) => pointer'[e] = pointer[e]
  BY <1>2, <1>3
<1> QED BY <1>1, <1>4, <1>5, <1>6, <1>7, QuietStep

\* A critical section that changes the dirty map: the others are not in one, and the
\* entries that they hold stay what they are.
LEMMA CriticalStep ==
  ASSUME MapInv, MapTypeOK', NEW g \in Goroutines, Alone(g), mu \in {NoHolder, g},
         CallShape(g)', UnderMu(g)', HoldsLiveEntries(g)',
         read'.m = read.m, OneKeyEach', DirtyLive', DirtyComplete',
         \A h \in Goroutines \ {g}, k \in Keys :
           held[h][k] # NoEntry /\ pointer[held[h][k]] = Expunged =>
             held[h][k] = read.m[k] \/ pointer'[held[h][k]] = Expunged
  PROVE  MapInv'
<1>1. ASSUME NEW h \in Goroutines, h # g
      PROVE  UnderMu(h)' /\ HoldsLiveEntries(h)'
  <2>1. mpc'[h] \notin {"add", "put", "miss"}
    BY <1>1 DEF MapInv, CallShape, Alone
  <2>2. UnderMu(h)'
    BY <2>1 DEF UnderMu
  <2>3. HoldsLiveEntries(h)'
    BY <1>1 DEF Alone, MapInv, EntriesAlive, HoldsLiveEntries, kind
  <2> QED BY <2>2, <2>3
<1> QED BY <1>1, OthersInv DEF MapInv, EntriesAlive

LEMMA DeleteLockedInv ==
  ASSUME MapInv, NEW g \in Goroutines, DeleteLocked(g)
  PROVE  MapInv'
<1> DEFINE k == key(g)
<1>1. /\ mpc[g] = "lock" /\ mu = NoHolder /\ k \in Keys /\ kind(g) = "delete" /\ left[g] = {}
      /\ \A h \in Goroutines : mpc[h] # "add"
      /\ UNCHANGED <<pointer, read, misses, mu, left>>
  BY EnterFact DEF DeleteLocked
<1>2. CASE In(k, read.m)
  <2>1. /\ Hold(g, k, read.m[k]) /\ MapGoto(g, "entry") /\ UNCHANGED <<dirty, found>>
        /\ read.m[k] \in Entries
    BY <1>1, <1>2, TableFact DEF DeleteLocked
  <2>2. MapTypeOK'
    BY <1>1, <2>1, HoldFact DEF MapInv, MapTypeOK, LabelSet
  <2>3. Alone(g)
    BY <1>1, <2>1, HoldFact DEF Alone
  <2>4. Shape(g)
    BY <1>1, <1>2, <2>1, HoldFact DEF Shape, UnderMu, HoldsLiveEntries, Refers
  <2> QED BY <1>1, <2>1, <2>2, <2>3, <2>4, QuietStep
<1>3. CASE ~In(k, read.m)
  <2>1. /\ dirty' = IF read.amended THEN [dirty EXCEPT ![k] = NoEntry] ELSE dirty
        /\ Found(g, k, NoValue)
    BY <1>3 DEF DeleteLocked
  <2>2. read.amended => dirty \in Tables /\ dirty # NoEntry
    BY DEF MapInv, DirtyLive, MapTypeOK
  <2>3. dirty' \in Tables \cup {NoEntry}
    BY <1>1, <2>1, <2>2 DEF MapInv, MapTypeOK, Tables
  <2>4. MapTypeOK' /\ Alone(g) /\ Shape(g) /\ \A j \in Keys : held'[g][j] = NoEntry
    <3>1. MapTypeOK' /\ Alone(g) /\ Shape(g)
      BY <1>1, <2>1, <2>3, FoundFact DEF MapInv, MapTypeOK, LabelSet, Alone
    <3> QED BY <2>1, <3>1, BlankFact DEF Found, MapInv, MapTypeOK
  <2>5. CASE ~read.amended
    BY <1>1, <2>1, <2>4, <2>5, QuietStep
  <2>6. CASE read.amended
    <3>1. dirty' \in Tables /\ dirty' # NoEntry
      BY <1>1, <2>1, <2>2, <2>6 DEF Tables
    <3>2. \A j \in Keys : dirty'[j] = IF j = k THEN NoEntry ELSE dirty[j]
      BY <1>1, <2>1, <2>2, <2>6 DEF Tables
    <3>3. \A j \in Keys : In(j, dirty') => In(j, dirty) /\ dirty'[j] = dirty[j] /\ j # k
      BY <2>2, <2>6, <3>2 DEF In
    <3>4. OneKeyEach'
      <4>1. ASSUME NEW e \in Entries, NEW j \in Keys, Refers(e, j)'
            PROVE  Refers(e, j)
        BY <1>1, <2>4, <3>3, <4>1 DEF Alone, Refers, In
      <4> QED BY <4>1 DEF MapInv, OneKeyEach
    <3>5. DirtyLive'
      BY <1>1, <3>1, <3>3 DEF MapInv, DirtyLive, In
    <3>6. DirtyComplete'
      BY <1>1, <1>3, <2>2, <2>6, <3>2 DEF MapInv, EntriesAlive, DirtyComplete, In
    <3> QED BY <1>1, <2>4, <3>4, <3>5, <3>6, CriticalStep DEF Shape
  <2> QED BY <2>5, <2>6
<1> QED BY <1>2, <1>3

LEMMA UnexpungeInv ==
  ASSUME MapInv, NEW g \in Goroutines, Unexpunge(g)
  PROVE  MapInv'
<1> DEFINE k == key(g)
           e == read.m[k]
<1>1. /\ mpc[g] = "lock" /\ mu = NoHolder /\ mu' = g /\ k \in Keys /\ left[g] = {}
      /\ kind(g) \in {"store", "loadorstore"}
      /\ \A h \in Goroutines : mpc[h] # "add"
      /\ In(k, read.m) /\ e \in Entries
      /\ Hold(g, k, e) /\ MapGoto(g, "put")
      /\ UNCHANGED <<read, misses, left, found>>
  BY EnterFact, TableFact DEF Unexpunge
<1>2. /\ mpc' \in [Goroutines -> LabelSet] /\ mcall' = mcall
      /\ held' \in [Goroutines -> Tables]
      /\ mpc'[g] = "put" /\ held'[g][k] = e
      /\ \A j \in Keys : j # k => held'[g][j] = NoEntry
      /\ \A h \in Goroutines \ {g} :
           mpc'[h] = mpc[h] /\ mcall'[h] = mcall[h] /\ held'[h] = held[h]
      /\ CallShape(g)'
  BY <1>1, HoldFact
<1>3. Alone(g)
  BY <1>1, <1>2 DEF Alone
<1>4. k' = k /\ entry(g)' = e
  BY <1>2 DEF key, entry
<1>5. HoldsLiveEntries(g)' /\ \A j \in Keys : held'[g][j] # NoEntry => Refers(held'[g][j], j)
  BY <1>1, <1>2 DEF HoldsLiveEntries, Refers
<1>6. CASE pointer[e] # Expunged
  <2>1. pointer' = pointer /\ dirty' = dirty
    BY <1>1, <1>6 DEF Unexpunge, MapInv, MapTypeOK
  <2>2. MapTypeOK'
    BY <1>1, <1>2, <2>1 DEF MapInv, MapTypeOK, LabelSet
  <2>3. Shape(g)
    BY <1>1, <1>2, <1>4, <1>5, <1>6, <2>1 DEF Shape, UnderMu
  <2> QED BY <1>1, <1>3, <2>1, <2>2, <2>3, QuietStep
<1>7. CASE pointer[e] = Expunged
  <2>1. dirty # NoEntry /\ dirty \in Tables
    BY <1>1, <1>7 DEF MapInv, DirtyLive, MapTypeOK
  <2>2. pointer' = [pointer EXCEPT ![e] = NoValue] /\ dirty' = [dirty EXCEPT ![k] = e]
    BY <1>7 DEF Unexpunge
  <2>3. dirty' \in Tables /\ dirty' # NoEntry /\ \A j \in Keys : dirty'[j] = IF j = k THEN e ELSE dirty[j]
    BY <1>1, <2>1, <2>2 DEF Tables
  <2>4. /\ pointer' \in [Entries -> Goroutines \cup {NoValue, Expunged}]
        /\ \A d \in Entries : pointer'[d] = IF d = e THEN NoValue ELSE pointer[d]
    BY <1>1, <2>2 DEF MapInv, MapTypeOK
  <2>5. MapTypeOK'
    BY <1>1, <1>2, <2>3, <2>4 DEF MapInv, MapTypeOK, LabelSet
  <2>6. \A d \in Entries, j \in Keys : Refers(d, j) /\ d = e => j = k
    BY <1>1 DEF MapInv, OneKeyEach, Refers
  <2>7. UnderMu(g)'
    BY <1>1, <1>2, <1>4, <2>4 DEF UnderMu
  <2>8. OneKeyEach'
    <3>1. ASSUME NEW d \in Entries, NEW j \in Keys, Refers(d, j)'
          PROVE  Refers(d, j)
      BY <1>1, <1>2, <2>1, <2>3, <3>1 DEF Refers, In
    <3> QED BY <3>1 DEF MapInv, OneKeyEach
  <2>9. DirtyLive'
    <3>1. \A j \in Keys : In(j, dirty') => pointer'[dirty'[j]] # Expunged
      BY <1>1, <2>1, <2>3, <2>4, TableFact DEF MapInv, DirtyLive, In
    <3>2. \A j \in Keys : In(j, dirty') /\ ~read.amended => In(j, read.m)
      BY <1>1, <2>1, <2>3 DEF MapInv, DirtyLive, In
    <3> QED BY <1>1, <2>3, <3>1, <3>2 DEF DirtyLive, In
  <2>10. DirtyComplete'
    <3>1. ASSUME NEW j \in Keys, In(j, read.m), j # k
          PROVE  dirty[j] = IF pointer'[read.m[j]] = Expunged THEN NoEntry ELSE read.m[j]
      <4>1. read.m[j] \in Entries /\ Refers(read.m[j], j)
        BY <3>1, TableFact DEF Refers
      <4>2. pointer'[read.m[j]] = pointer[read.m[j]]
        BY <2>4, <2>6, <3>1, <4>1
      <4> QED BY <1>1, <2>1, <3>1, <4>2 DEF MapInv, EntriesAlive, DirtyComplete
    <3>2. pointer'[e] = NoValue
      BY <1>1, <2>4
    <3> QED BY <1>1, <2>3, <3>1, <3>2 DEF DirtyComplete, In
  <2>11. ASSUME NEW h \in Goroutines \ {g}, NEW j \in Keys, held[h][j] # NoEntry,
                pointer[held[h][j]] = Expunged
         PROVE  held[h][j] = read.m[j] \/ pointer'[held[h][j]] = Expunged
    <3>1. held[h][j] \in Entries /\ Refers(held[h][j], j)
      BY <2>11, TableFact DEF Refers
    <3> QED BY <2>4, <2>6, <2>11, <3>1
  <2> QED BY <1>1, <1>2, <1>3, <1>5, <2>5, <2>7, <2>8, <2>9, <2>10, <2>11, CriticalStep
<1> QED BY <1>6, <1>7

LEMMA NewKeyInv ==
  ASSUME MapInv, NEW g \in Goroutines, NewKey(g)
  PROVE  MapInv'
<1> DEFINE k == key(g)
<1>1. /\ mpc[g] = "lock" /\ mu = NoHolder /\ mu' = g /\ k \in Keys /\ left[g] = {}
      /\ kind(g) \in {"store", "loadorstore"}
      /\ \A h \in Goroutines : mpc[h] # "add"
      /\ \A j \in Keys : held[g][j] = NoEntry
      /\ ~In(k, read.m) /\ ~In(k, dirty)
      /\ MapGoto(g, "add") /\ "add" \in LabelSet
      /\ UNCHANGED <<pointer, read, misses, held, found>>
  BY EnterFact DEF NewKey, LabelSet
<1>2. /\ mpc' \in [Goroutines -> LabelSet] /\ mcall' = mcall
      /\ mpc'[g] = "add" /\ kind(g)' = kind(g) /\ k' = k /\ entry(g)' = entry(g)
      /\ \A h \in Goroutines \ {g} :
           mpc'[h] = mpc[h] /\ mcall'[h] = mcall[h] /\ held'[h] = held[h]
  BY <1>1, GotoFact
<1>3. CallShape(g)' /\ HoldsLiveEntries(g)'
  BY <1>1, <1>2 DEF CallShape, HoldsLiveEntries, MapInv
<1>4. CASE ~(~read.amended /\ dirty = NoEntry)
  <2>1. UNCHANGED <<dirty, left>> /\ dirty # NoEntry
    BY <1>4 DEF NewKey, MapInv, DirtyLive
  <2>2. MapTypeOK' /\ Alone(g)
    BY <1>1, <1>2, <2>1 DEF MapInv, MapTypeOK, LabelSet, Alone
  <2>3. UnderMu(g)'
    BY <1>1, <1>2, <2>1 DEF UnderMu, In
  <2>4. Shape(g)
    BY <1>1, <1>3, <2>3 DEF Shape
  <2> QED BY <1>1, <2>1, <2>2, <2>4, QuietStep
<1>5. CASE ~read.amended /\ dirty = NoEntry
  <2>1. /\ dirty' = BlankMap(NoEntry)
        /\ left' = [left EXCEPT ![g] = {j \in Keys : In(j, read.m)}]
    BY <1>5 DEF NewKey
  <2>2. dirty' \in Tables /\ dirty' # NoEntry /\ \A j \in Keys : ~In(j, dirty')
    BY <2>1, BlankTable, BlankFact DEF In
  <2>3. left' \in [Goroutines -> SUBSET Keys] /\ left'[g] = {j \in Keys : In(j, read.m)}
    BY <2>1 DEF MapInv, MapTypeOK
  <2>4. MapTypeOK'
    BY <1>1, <1>2, <2>2, <2>3 DEF MapInv, MapTypeOK, LabelSet
  <2>5. Alone(g)
    BY <1>1, <1>2, <2>1 DEF Alone, MapInv, MapTypeOK
  <2>6. UnderMu(g)'
    BY <1>1, <1>2, <2>2, <2>3 DEF UnderMu, In
  <2>7. OneKeyEach'
    <3>1. ASSUME NEW d \in Entries, NEW j \in Keys, Refers(d, j)'
          PROVE  Refers(d, j)
      BY <1>1, <2>2, <3>1 DEF Refers, In
    <3> QED BY <3>1 DEF MapInv, OneKeyEach
  <2>8. DirtyLive'
    BY <1>1, <1>5, <2>2 DEF DirtyLive, In
  <2>9. DirtyComplete'
    BY <1>1, <1>2, <2>3 DEF DirtyComplete, In
  <2> QED BY <1>1, <1>3, <2>4, <2>5, <2>6, <2>7, <2>8, <2>9, CriticalStep
<1> QED BY <1>4, <1>5

LEMMA ExpungeLockedInv ==
  ASSUME MapInv, NEW g \in Goroutines, ExpungeLocked(g)
  PROVE  MapInv'
<1>1. PICK k \in left[g] :
        /\ left' = [left EXCEPT ![g] = @ \ {k}]
        /\ IF Valid(pointer[read.m[k]])
             THEN dirty' = [dirty EXCEPT ![k] = read.m[k]] /\ UNCHANGED pointer
             ELSE pointer' = [pointer EXCEPT ![read.m[k]] = Expunged] /\ UNCHANGED dirty
  BY DEF ExpungeLocked
<1> DEFINE e == read.m[k]
<1>2. /\ mpc[g] = "add" /\ mu = g /\ k \in Keys
      /\ \A h \in Goroutines : mpc[h] = "add" => h = g
      /\ dirty # NoEntry /\ dirty \in Tables
      /\ In(k, read.m) /\ ~In(k, dirty) /\ e \in Entries /\ k # key(g)
      /\ \A j \in Keys : held[g][j] = NoEntry
      /\ UNCHANGED <<read, misses, mu, mpc, mcall, held, found>>
  BY TableFact DEF ExpungeLocked, MapInv, MapTypeOK, CallShape, UnderMu
<1>3. left' \in [Goroutines -> SUBSET Keys] /\ left'[g] = left[g] \ {k}
  BY <1>1 DEF MapInv, MapTypeOK
<1>4. Alone(g)
  BY <1>1, <1>2 DEF Alone, MapInv, MapTypeOK
<1>5. CallShape(g)' /\ HoldsLiveEntries(g)' /\ k' = k /\ key(g)' = key(g)
  BY <1>2 DEF CallShape, HoldsLiveEntries, MapInv, kind, key
<1>6. \A d \in Entries, j \in Keys : Refers(d, j) /\ d = e => j = k
  BY <1>2 DEF MapInv, OneKeyEach, Refers
<1>7. UnderMu(g)
  BY DEF MapInv
<1>8. CASE Valid(pointer[e])
  <2>1. dirty' = [dirty EXCEPT ![k] = e] /\ pointer' = pointer
    BY <1>1, <1>8
  <2>2. dirty' \in Tables /\ dirty' # NoEntry /\ \A j \in Keys : dirty'[j] = IF j = k THEN e ELSE dirty[j]
    BY <1>2, <2>1 DEF Tables
  <2>3. MapTypeOK'
    BY <1>2, <1>3, <2>1, <2>2 DEF MapInv, MapTypeOK
  <2>4. UnderMu(g)'
    <3>1. ~In(key(g), read.m) /\ ~In(key(g), dirty)
          /\ \A j \in left[g] : In(j, read.m) /\ ~In(j, dirty)
      BY <1>2, <1>7 DEF UnderMu
    <3>2. key(g) \in Keys /\ left[g] \subseteq Keys
      BY <1>2, KeyFact DEF MapInv, MapTypeOK, CallShape
    <3>3. ~In(key(g), read.m)' /\ ~In(key(g), dirty)'
      BY <1>2, <1>5, <2>2, <3>1, <3>2 DEF In
    <3>4. \A j \in left[g]' : In(j, read.m)' /\ ~In(j, dirty)'
      BY <1>2, <1>3, <2>2, <3>1, <3>2 DEF In
    <3> QED BY <1>2, <2>2, <3>3, <3>4 DEF UnderMu
  <2>5. OneKeyEach'
    <3>1. ASSUME NEW d \in Entries, NEW j \in Keys, Refers(d, j)'
          PROVE  Refers(d, j)
      BY <1>2, <2>2, <3>1 DEF Refers, In
    <3> QED BY <3>1 DEF MapInv, OneKeyEach
  <2>6. DirtyLive'
    BY <1>2, <1>8, <2>1, <2>2 DEF MapInv, DirtyLive, In, Valid
  <2>7. DirtyComplete'
    BY <1>2, <1>3, <1>8, <2>1, <2>2 DEF MapInv, EntriesAlive, DirtyComplete, In, Valid
  <2> QED BY <1>2, <1>4, <1>5, <2>1, <2>3, <2>4, <2>5, <2>6, <2>7, CriticalStep
<1>9. CASE ~Valid(pointer[e])
  <2>1. pointer' = [pointer EXCEPT ![e] = Expunged] /\ dirty' = dirty
    BY <1>1, <1>9
  <2>2. /\ pointer' \in [Entries -> Goroutines \cup {NoValue, Expunged}]
        /\ \A d \in Entries : pointer'[d] = IF d = e THEN Expunged ELSE pointer[d]
    BY <1>2, <2>1 DEF MapInv, MapTypeOK
  <2>3. MapTypeOK'
    BY <1>2, <1>3, <2>1, <2>2 DEF MapInv, MapTypeOK
  <2>4. UnderMu(g)'
    BY <1>2, <1>3, <1>5, <1>7, <2>1 DEF UnderMu, In
  <2>5. OneKeyEach'
    BY <1>2, <2>1 DEF MapInv, OneKeyEach, Refers, In
  <2>6. DirtyLive'
    <3>1. ASSUME NEW j \in Keys, In(j, dirty)
          PROVE  pointer'[dirty[j]] # Expunged
      <4>1. dirty[j] \in Entries /\ Refers(dirty[j], j)
        BY <3>1, TableFact DEF Refers
      <4>2. dirty[j] # e
        BY <1>2, <1>6, <3>1, <4>1
      <4> QED BY <2>2, <3>1, <4>1, <4>2 DEF MapInv, DirtyLive
    <3> QED BY <1>2, <2>1, <3>1 DEF MapInv, DirtyLive, In
  <2>7. DirtyComplete'
    <3>1. dirty[k] = NoEntry /\ pointer'[e] = Expunged
      BY <1>2, <2>2 DEF In
    <3>2. ASSUME NEW j \in Keys, In(j, read.m), j # k, j \notin left[g]
          PROVE  dirty[j] = IF pointer'[read.m[j]] = Expunged THEN NoEntry ELSE read.m[j]
      <4>1. read.m[j] \in Entries /\ Refers(read.m[j], j)
        BY <3>2, TableFact DEF Refers
      <4>2. pointer'[read.m[j]] = pointer[read.m[j]]
        BY <1>6, <2>2, <3>2, <4>1
      <4> QED BY <1>2, <3>2, <4>2 DEF MapInv, EntriesAlive, DirtyComplete
    <3> QED BY <1>2, <1>3, <2>1, <3>1, <3>2 DEF DirtyComplete, In
  <2>8. \A h \in Goroutines \ {g}, j \in Keys :
          held[h][j] # NoEntry /\ pointer[held[h][j]] = Expunged => pointer'[held[h][j]] = Expunged
    BY <2>2, TableFact
  <2> QED BY <1>2, <1>4, <1>5, <2>1, <2>3, <2>4, <2>5, <2>6, <2>7, <2>8, CriticalStep
<1> QED BY <1>8, <1>9

LEMMA AddKeyInv ==
  ASSUME MapInv, NEW g \in Goroutines, AddKey(g)
  PROVE  MapInv'
<1> DEFINE k == key(g)
           e == Fresh
<1>1. /\ mpc[g] = "add" /\ mu = g /\ mu' = NoHolder /\ left[g] = {} /\ k \in Keys
      /\ \A h \in Goroutines : mpc[h] = "add" => h = g
      /\ dirty # NoEntry /\ dirty \in Tables
      /\ ~In(k, read.m) /\ ~In(k, dirty)
      /\ Found(g, k, g) /\ UNCHANGED <<misses, left>>
  BY KeyFact DEF AddKey, MapInv, MapTypeOK, CallShape, UnderMu
<1>2. /\ read' = [read EXCEPT !.amended = TRUE]
      /\ dirty' = [dirty EXCEPT ![k] = e]
      /\ pointer' = [pointer EXCEPT ![e] = g]
      /\ e \in Entries \ Used
  BY DEF AddKey, Fresh
<1> HIDE DEF e
<1>3. \A d \in Entries, j \in Keys : Refers(d, j) => d # e
  BY <1>2, UsedFact
<1>4. /\ read' \in [m : Tables, amended : BOOLEAN] /\ read'.m = read.m /\ read'.amended = TRUE
      /\ dirty' \in Tables /\ dirty' # NoEntry
      /\ \A j \in Keys : dirty'[j] = IF j = k THEN e ELSE dirty[j]
  BY <1>1, <1>2 DEF MapInv, MapTypeOK, Tables
<1>5. /\ pointer' \in [Entries -> Goroutines \cup {NoValue, Expunged}]
      /\ \A d \in Entries : pointer'[d] = IF d = e THEN g ELSE pointer[d]
  BY <1>2 DEF MapInv, MapTypeOK
<1>6. MapTypeOK' /\ Alone(g) /\ Shape(g)
  BY <1>1, <1>4, <1>5, FoundFact DEF MapInv, MapTypeOK, LabelSet, Alone
<1>7. \A j \in Keys : held'[g][j] = NoEntry
  BY <1>1, BlankFact DEF Found, MapInv, MapTypeOK
<1>8. OneKeyEach'
  <2>1. ASSUME NEW d \in Entries, NEW j \in Keys, Refers(d, j)'
        PROVE  Refers(d, j) \/ (d = e /\ j = k)
    BY <1>1, <1>4, <1>6, <1>7, <2>1 DEF Refers, In, Alone
  <2> QED BY <1>3, <2>1 DEF MapInv, OneKeyEach
<1>9. \A j \in Keys : In(j, dirty') => (In(j, dirty) /\ dirty'[j] = dirty[j]) \/ j = k
  BY <1>1, <1>4 DEF In
<1>10. DirtyLive'
  <2>1. ASSUME NEW j \in Keys, In(j, dirty')
        PROVE  pointer'[dirty'[j]] # Expunged
    <3>1. CASE j = k
      BY <1>2, <1>4, <1>5, <3>1
    <3>2. CASE In(j, dirty) /\ dirty'[j] = dirty[j]
      BY <1>5, <3>2, TableFact DEF MapInv, DirtyLive
    <3> QED BY <1>9, <2>1, <3>1, <3>2
  <2> QED BY <1>4, <2>1 DEF DirtyLive, In
<1>11. DirtyComplete'
  <2>1. ASSUME NEW j \in Keys, In(j, read.m)
        PROVE  dirty'[j] = IF pointer'[read.m[j]] = Expunged THEN NoEntry ELSE read.m[j]
    <3>1. read.m[j] \in Entries /\ Refers(read.m[j], j)
      BY <2>1, TableFact DEF Refers
    <3>2. pointer'[read.m[j]] = pointer[read.m[j]]
      BY <1>3, <1>5, <3>1
    <3>3. dirty'[j] = dirty[j]
      BY <1>1, <1>4, <2>1
    <3> QED BY <1>1, <2>1, <3>2, <3>3 DEF MapInv, EntriesAlive, DirtyComplete
  <2> QED BY <1>4, <2>1 DEF DirtyComplete, In
<1>12. \A h \in Goroutines \ {g}, j \in Keys :
         held[h][j] # NoEntry => pointer'[held[h][j]] = pointer[held[h][j]]
  <2>1. \A h \in Goroutines \ {g}, j \in Keys :
          held[h][j] # NoEntry => held[h][j] \in Entries /\ Refers(held[h][j], j)
    BY TableFact DEF Refers
  <2> QED BY <1>3, <1>5, <2>1
<1> QED BY <1>1, <1>4, <1>6, <1>8, <1>10, <1>11, <1>12, CriticalStep DEF Shape

LEMMA MapInitInv == MapInit => MapInv
<1> SUFFICES ASSUME MapInit
             PROVE  MapInv
  OBVIOUS
<1>1. MapTypeOK
  BY DEF MapInit, MapTypeOK, BlankMap, Tables
<1>2. \A k \in Keys : ~In(k, read.m) /\ ~In(k, dirty) /\ \A g \in Goroutines : held[g][k] = NoEntry
  BY DEF MapInit, In, BlankMap
<1>3. OneKeyEach /\ DirtyLive
  BY <1>2 DEF MapInit, OneKeyEach, Refers, DirtyLive
<1>4. EntriesAlive
  BY <1>2 DEF EntriesAlive, DirtyComplete, HoldsLiveEntries
<1>5. \A g \in Goroutines : CallShape(g) /\ UnderMu(g)
  BY <1>2 DEF MapInit, CallShape, UnderMu
<1> QED BY <1>1, <1>3, <1>4, <1>5 DEF MapInv

LEMMA SyncMapStepInv ==
  ASSUME MapInv, NEW g \in Goroutines, SyncMapStep(g)
  PROVE  MapInv'
BY MapLookupInv, LoadEntryInv, DeleteEntryInv, StoreEntryInv, LoadLockedInv, DeleteLockedInv,
   UnexpungeInv, PutLockedInv, PutDirtyInv, MissLockedInv, NewKeyInv, ExpungeLockedInv,
   AddKeyInv, RangeStartInv, RangePromoteInv, RangeNextInv, MapReturnInv
   DEF SyncMapStep

LEMMA MapNextInv == MapInv /\ [MapClientsNext]_mapClientVars => MapInv'
<1> SUFFICES ASSUME MapInv, [MapClientsNext]_mapClientVars
             PROVE  MapInv'
  OBVIOUS
<1>1. CASE MapClientsNext
  BY <1>1, SyncMapStepInv, MapCallInv DEF MapClientsNext
<1>2. CASE UNCHANGED mapClientVars
  BY <1>2 DEF mapClientVars, syncMapVars, MapInv, MapTypeOK, OneKeyEach, DirtyLive, EntriesAlive,
              DirtyComplete, HoldsLiveEntries, CallShape, UnderMu, Refers, In, kind, key, entry
<1> QED BY <1>1, <1>2

\* The dirty map is complete, and nobody is about to store into an entry that is
\* in neither map, for any number of goroutines, keys and calls.
THEOREM MapEntriesAlive == SyncMapSpec => []EntriesAlive
<1>1. MapInv => EntriesAlive
  BY DEF MapInv
<1> QED BY <1>1, MapInitInv, MapNextInv, PTL DEF SyncMapSpec, MapClientsInit

-----------------------------------------------------------------------------
(* The refinement of MapSpec: what a step does to the map that the callers *)
(* see, and to what they have seen.                                        *)

\* The keys of a call.
LEMMA CallFact ==
  ASSUME MapInv, NEW g \in Goroutines
  PROVE  /\ mcall[g] # NoCall => mcall[g][2] \subseteq Keys
         /\ mcall[g] # NoCall /\ kind(g) = "range" => mcall[g][2] = Keys
         /\ \A k \in Keys : held[g][k] # NoEntry =>
              InProgress(g) /\ mcall[g] # NoCall /\ k \in mcall[g][2]
<1>1. mcall[g] # NoCall => mcall[g] \in Abstract!Calls
  BY DEF MapInv, MapTypeOK
<1>2. mcall[g] # NoCall => mcall[g][2] \subseteq Keys
  BY <1>1 DEF Abstract!Calls
<1>3. mcall[g] # NoCall /\ kind(g) = "range" => mcall[g][2] = Keys
  BY <1>1 DEF Abstract!Calls, kind
<1>4. ASSUME NEW k \in Keys, held[g][k] # NoEntry
      PROVE  InProgress(g) /\ mcall[g] # NoCall /\ k \in mcall[g][2]
  <2>1. mpc[g] \in {"iterate", "entry", "put"} /\ mcall[g] # NoCall
    BY <1>4 DEF MapInv, CallShape
  <2>2. CASE mpc[g] = "iterate"
    BY <1>3, <2>1, <2>2 DEF MapInv, CallShape, InProgress
  <2>3. CASE mpc[g] \in {"entry", "put"}
    BY <1>4, <2>1, <2>3, KeyFact DEF MapInv, CallShape, InProgress
  <2> QED BY <2>1, <2>2, <2>3
<1> QED BY <1>2, <1>3, <1>4

LEMMA CurrentFact ==
  ASSUME MapInv, NEW k \in Keys
  PROVE  /\ Current(k) # NoEntry => Current(k) \in Entries /\ Refers(Current(k), k)
         /\ Content[k] = IF Current(k) = NoEntry THEN NoValue ELSE ValueOf(pointer[Current(k)])
         /\ Content[k] \in Goroutines \cup {NoValue}
<1>1. Current(k) # NoEntry => Current(k) \in Entries /\ Refers(Current(k), k)
  BY TableFact DEF Current, Refers
<1>2. Content[k] = IF Current(k) = NoEntry THEN NoValue ELSE ValueOf(pointer[Current(k)])
  BY DEF Content
<1> QED BY <1>1, <1>2 DEF ValueOf, Valid, MapInv, MapTypeOK

\* An entry that somebody refers to keeps its value unless its key gets another.
KeepsValues ==
  \A e \in Entries, k \in Keys :
    Refers(e, k) => ValueOf(pointer'[e]) = ValueOf(pointer[e]) \/ e = Current(k)'

\* A step that changes no value.
LEMMA SameValues ==
  ASSUME MapInv,
         \A k \in Keys :
           \/ Current(k)' = Current(k)
           \/ Current(k)' = NoEntry /\ ValueOf(pointer[Current(k)]) = NoValue,
         \A e \in Entries, k \in Keys : Refers(e, k) => ValueOf(pointer'[e]) = ValueOf(pointer[e])
  PROVE  KeepsValues /\ Content' = Content
<1>1. ASSUME NEW k \in Keys
      PROVE  (IF Current(k)' = NoEntry THEN NoValue ELSE ValueOf(pointer'[Current(k)']))
               = IF Current(k) = NoEntry THEN NoValue ELSE ValueOf(pointer[Current(k)])
  BY CurrentFact
<1>2. Content' = Content
  BY <1>1 DEF Content, ValueOf, Valid
<1> QED BY <1>2 DEF KeepsValues

\* A step that gives the key k the value of the entry e.
LEMMA NewValue ==
  ASSUME MapInv, NEW k \in Keys, NEW e \in Entries,
         \A j \in Keys : Current(j)' = IF j = k THEN e ELSE Current(j),
         \A j \in Keys : Refers(e, j) => j = k,
         \A d \in Entries : d # e => pointer'[d] = pointer[d]
  PROVE  KeepsValues /\ Content' = [Content EXCEPT ![k] = ValueOf(pointer'[e])]
<1>1. KeepsValues
  <2>1. ASSUME NEW d \in Entries, NEW j \in Keys, Refers(d, j), d = e
        PROVE  d = Current(j)'
    BY <2>1
  <2> QED BY <2>1 DEF KeepsValues
<1>2. ASSUME NEW j \in Keys
      PROVE  (IF Current(j)' = NoEntry THEN NoValue ELSE ValueOf(pointer'[Current(j)']))
               = IF j = k THEN ValueOf(pointer'[e]) ELSE Content[j]
  <2>1. CASE j = k
    <3>1. Current(j)' = e
      BY <2>1
    <3>2. e # NoEntry
      OBVIOUS
    <3>3. ValueOf(pointer'[Current(j)']) = ValueOf(pointer'[e])
      BY <3>1
    <3>4. (IF Current(j)' = NoEntry THEN NoValue ELSE ValueOf(pointer'[Current(j)']))
            = ValueOf(pointer'[e])
      BY <3>1, <3>2, <3>3
    <3> QED BY <2>1, <3>4
  <2>2. CASE j # k
    <3>1. Current(j) # NoEntry => Current(j) \in Entries /\ Current(j) # e
      BY <2>2, CurrentFact
    <3>2. Current(j)' = Current(j)
      BY <2>2
    <3>3. CASE Current(j) = NoEntry
      BY <2>2, <3>2, <3>3, CurrentFact
    <3>4. CASE Current(j) # NoEntry
      <4>1. pointer'[Current(j)'] = pointer[Current(j)]
        BY <3>1, <3>2, <3>4
      <4>2. Content[j] = ValueOf(pointer[Current(j)])
        BY <3>4, CurrentFact
      <4> QED BY <2>2, <3>2, <3>4, <4>1, <4>2
    <3> QED BY <3>3, <3>4
  <2> QED BY <2>1, <2>2
<1>3. Content' = [j \in Keys |-> IF j = k THEN ValueOf(pointer'[e]) ELSE Content[j]]
  BY <1>2 DEF Content
<1>4. Content = [j \in Keys |-> Content[j]]
  BY DEF Content
<1> QED BY <1>1, <1>3, <1>4

\* What a step of g must leave of the other calls, and of its own.
Apart(g) ==
  \A h \in Goroutines \ {g} :
    mpc'[h] = mpc[h] /\ held'[h] = held[h] /\ left'[h] = left[h] /\ found'[h] = found[h]

Sees(g) ==
  /\ Apart(g) /\ FoundShape(g)' /\ KeepsValues
  /\ \A k \in Keys : held'[g][k] # NoEntry => held'[g][k] \in {held[g][k], Current(k)'}
  /\ mpc'[g] = "iterate" =>
       \A k \in Keys :
         IF k \in left'[g] THEN held'[g][k] = NoEntry => NoValue \in seen[g][k] \cup {Content'[k]}
         ELSE found'[g][k] \in seen[g][k] \cup {Content'[k]}

Effect(g) ==
  \/ Content' = Content /\ mcall' = mcall /\ Result' = Result
  \/ Abstract!Start(g) \/ Abstract!Write(g) \/ Abstract!Read(g) \/ Abstract!Return(g)

LEMMA FoundShapes ==
  ASSUME SeenInv, NEW g \in Goroutines, Apart(g), FoundShape(g)'
  PROVE  \A h \in Goroutines : FoundShape(h)'
BY DEF SeenInv, FoundShape, Apart

LEMMA PendingFact ==
  ASSUME MapInv, NEW g \in Goroutines, FoundShape(g)
  PROVE  InProgress(g) <=> mcall[g] # NoCall /\ Result[g] = BlankMap(NoCall)
BY DEF InProgress, Result, FoundShape, MapInv, CallShape

LEMMA WatchFact ==
  ASSUME MapInv', SeenInv, NEW g \in Goroutines, Apart(g), FoundShape(g)',
         seen' = Abstract!Watch(mcall', seen, Result', Content')
  PROVE  /\ \A h \in Goroutines, k \in Keys :
              seen'[h][k] = IF InProgress(h)' /\ k \in mcall'[h][2] THEN seen[h][k] \cup {Content'[k]}
                            ELSE {}
         /\ seen' \in [Goroutines -> [Keys -> SUBSET (Goroutines \cup {NoValue})]]
<1>1. ASSUME NEW h \in Goroutines
      PROVE  InProgress(h)' <=> mcall'[h] # NoCall /\ Result'[h] = BlankMap(NoCall)
  BY <1>1, FoundShapes DEF InProgress, Result, FoundShape, MapInv, CallShape
<1>2. \A h \in Goroutines, k \in Keys :
        seen'[h][k] = IF mcall'[h] # NoCall /\ Result'[h] = BlankMap(NoCall) /\ k \in mcall'[h][2]
                        THEN seen[h][k] \cup {Content'[k]} ELSE {}
  BY DEF Abstract!Watch, Abstract!Blank, BlankMap
<1>3. \A k \in Keys : Content'[k] \in Goroutines \cup {NoValue}
  <2>1. ASSUME NEW k \in Keys
        PROVE  Content'[k] \in Goroutines \cup {NoValue}
    <3>1. Current(k)' # NoEntry => Current(k)' \in Entries
      BY DEF Current, In, MapInv, MapTypeOK, Tables
    <3>2. Content'[k] = IF Current(k)' = NoEntry THEN NoValue ELSE ValueOf(pointer'[Current(k)'])
      BY DEF Content, ValueOf, Valid
    <3> QED BY <3>1, <3>2 DEF ValueOf, Valid, MapInv, MapTypeOK
  <2> QED BY <2>1
<1>4. ASSUME NEW h \in Goroutines, NEW k \in Keys
      PROVE  seen'[h][k] \subseteq Goroutines \cup {NoValue}
  <2>1. seen[h][k] \subseteq Goroutines \cup {NoValue}
    BY DEF SeenInv
  <2>2. seen'[h][k] \in {seen[h][k] \cup {Content'[k]}, {}}
    BY <1>2
  <2> QED BY <1>3, <2>1, <2>2
<1>5. seen' \in [Goroutines -> [Keys -> SUBSET (Goroutines \cup {NoValue})]]
  <2>1. seen' = [h \in Goroutines |-> [k \in Keys |-> seen'[h][k]]]
    BY DEF Abstract!Watch
  <2> QED BY <1>4, <2>1
<1> QED BY <1>1, <1>2, <1>5

\* What calls have seen stays what the invariant says.
LEMMA SeenStep ==
  ASSUME MapInv, MapInv', SeenInv, NEW g \in Goroutines, Sees(g),
         seen' = Abstract!Watch(mcall', seen, Result', Content')
  PROVE  SeenInv'
<1>1. /\ \A h \in Goroutines : FoundShape(h)'
      /\ seen' \in [Goroutines -> [Keys -> SUBSET (Goroutines \cup {NoValue})]]
      /\ \A h \in Goroutines, k \in Keys :
           seen'[h][k] = IF InProgress(h)' /\ k \in mcall'[h][2] THEN seen[h][k] \cup {Content'[k]}
                         ELSE {}
  BY FoundShapes, WatchFact DEF Sees
<1>2. ASSUME NEW h \in Goroutines
      PROVE  SeenNow(h)'
  <2>1. ASSUME NEW k \in Keys
        PROVE  IF InProgress(h)' /\ k \in mcall'[h][2] THEN Content'[k] \in seen'[h][k]
               ELSE seen'[h][k] = {}
    <3>1. CASE InProgress(h)' /\ k \in mcall'[h][2]
      <4>1. seen'[h][k] = seen[h][k] \cup {Content'[k]}
        BY <1>1, <3>1
      <4> QED BY <3>1, <4>1
    <3>2. CASE ~(InProgress(h)' /\ k \in mcall'[h][2])
      BY <1>1, <3>2
    <3> QED BY <3>1, <3>2
  <2> QED BY <2>1 DEF SeenNow
<1>3. ASSUME NEW h \in Goroutines, NEW k \in Keys, InProgress(h)', mcall'[h] # NoCall,
             k \in mcall'[h][2]
      PROVE  seen'[h][k] = seen[h][k] \cup {Content'[k]}
  BY <1>1, <1>3
<1>4. ASSUME NEW h \in Goroutines, NEW k \in Keys, held'[h][k] # NoEntry
      PROVE  InProgress(h)' /\ mcall'[h] # NoCall /\ k \in mcall'[h][2]
  <2>1. mcall'[h] # NoCall => mcall'[h] \in Abstract!Calls
    BY DEF MapInv, MapTypeOK
  <2>2. mpc'[h] \in {"iterate", "entry", "put"} /\ mcall'[h] # NoCall /\ CallShape(h)'
    BY <1>4 DEF MapInv, CallShape
  <2>3. CASE mpc'[h] = "iterate"
    BY <2>1, <2>2, <2>3 DEF CallShape, InProgress, kind, Abstract!Calls
  <2>4. CASE mpc'[h] \in {"entry", "put"}
    <3>1. k = key(h)' /\ mcall'[h][1] # "range"
      BY <1>4, <2>2, <2>4 DEF CallShape, kind
    <3>2. PICK j \in Keys : mcall'[h][2] = {j}
      BY <2>1, <2>2, <3>1 DEF Abstract!Calls
    <3> QED BY <2>2, <2>4, <3>1, <3>2 DEF key, InProgress
  <2> QED BY <2>2, <2>3, <2>4
<1>5. ASSUME NEW h \in Goroutines, NEW k \in Keys, held'[h][k] # NoEntry
      PROVE  ValueOf(pointer'[held'[h][k]]) \in seen'[h][k]
  <2>1. seen'[h][k] = seen[h][k] \cup {Content'[k]}
    BY <1>3, <1>4, <1>5
  <2>2. CASE held'[h][k] = Current(k)'
    BY <1>5, <2>1, <2>2 DEF Content, ValueOf, Valid
  <2>3. CASE held'[h][k] = held[h][k]
    <3>1. held[h][k] \in Entries /\ Refers(held[h][k], k) /\ ValueOf(pointer[held[h][k]]) \in seen[h][k]
      BY <1>5, <2>3, TableFact DEF SeenInv, SeenHeld, Refers
    <3> QED BY <2>1, <2>2, <2>3, <3>1 DEF Sees, KeepsValues
  <2> QED BY <1>5, <2>2, <2>3 DEF Sees, Apart
<1>6. ASSUME NEW h \in Goroutines, mpc'[h] = "iterate", NEW k \in Keys
      PROVE  IF k \in left'[h] THEN held'[h][k] = NoEntry => NoValue \in seen'[h][k]
             ELSE found'[h][k] \in seen'[h][k]
  <2>1. mcall'[h][2] = Keys /\ InProgress(h)' /\ mcall'[h] # NoCall
    <3>1. mcall'[h] # NoCall /\ mcall'[h] \in Abstract!Calls /\ mcall'[h][1] = "range"
      BY <1>6 DEF MapInv, MapTypeOK, CallShape, kind
    <3> QED BY <1>6, <3>1 DEF Abstract!Calls, InProgress
  <2>2. seen'[h][k] = seen[h][k] \cup {Content'[k]}
    BY <1>3, <2>1
  <2>3. CASE h = g
    BY <1>6, <2>2, <2>3 DEF Sees
  <2>4. CASE h # g
    BY <1>6, <2>2, <2>4 DEF Sees, Apart, SeenInv, SeenHeld
  <2> QED BY <2>3, <2>4
<1>7. \A h \in Goroutines : SeenHeld(h)'
  BY <1>5, <1>6 DEF SeenHeld, ValueOf, Valid
<1> QED BY <1>1, <1>2, <1>7 DEF SeenInv

\* A step that shows nothing, or one step of the abstract map.
LEMMA EffectStep ==
  ASSUME MapInv, SeenInv, NEW g \in Goroutines, Effect(g),
         seen' = Abstract!Watch(mcall', seen, Result', Content')
  PROVE  [Abstract!MapSpecNext]_(Abstract!mapSpecVars)
<1>1. CASE Content' = Content /\ mcall' = mcall /\ Result' = Result
  <2>1. ASSUME NEW h \in Goroutines, NEW k \in Keys
        PROVE  (IF mcall[h] # NoCall /\ Result[h] = BlankMap(NoCall) /\ k \in mcall[h][2]
                  THEN seen[h][k] \cup {Content[k]} ELSE {}) = seen[h][k]
    <3>1. /\ InProgress(h) <=> mcall[h] # NoCall /\ Result[h] = BlankMap(NoCall)
          /\ IF InProgress(h) /\ k \in mcall[h][2] THEN Content[k] \in seen[h][k]
             ELSE seen[h][k] = {}
      BY PendingFact DEF SeenInv, SeenNow
    <3>2. CASE InProgress(h) /\ k \in mcall[h][2]
      <4>1. seen[h][k] \cup {Content[k]} = seen[h][k]
        BY <3>1, <3>2
      <4> QED BY <3>1, <3>2, <4>1
    <3>3. CASE ~(InProgress(h) /\ k \in mcall[h][2])
      BY <3>1, <3>3
    <3> QED BY <3>2, <3>3
  <2>2. seen' = [h \in Goroutines |-> [k \in Keys |-> seen[h][k]]]
    BY <1>1, <2>1 DEF Abstract!Watch, Abstract!Blank, BlankMap
  <2>3. seen = [h \in Goroutines |-> [k \in Keys |-> seen[h][k]]]
    BY DEF SeenInv
  <2> QED BY <1>1, <2>2, <2>3 DEF Abstract!mapSpecVars
<1>2. CASE Abstract!Start(g) \/ Abstract!Write(g) \/ Abstract!Read(g) \/ Abstract!Return(g)
  BY <1>2 DEF Abstract!MapSpecNext, Abstract!Observed
<1> QED BY <1>1, <1>2 DEF Effect
-----------------------------------------------------------------------------
(* The actions, once more.                                                 *)

\* A call that knows its result.
LEMMA Answered ==
  ASSUME MapInv, SeenInv, NEW g \in Goroutines, NEW k \in Keys,
         NEW v \in Goroutines \cup {NoValue}, NEW label \in {"miss", "return"},
         mpc[g] \in {"start", "entry", "lock", "put", "add"},
         found' = [found EXCEPT ![g][k] = v], MapGoto(g, label)
  PROVE  /\ mcall' = mcall /\ mpc'[g] = label /\ FoundShape(g)'
         /\ \A h \in Goroutines \ {g} : mpc'[h] = mpc[h] /\ found'[h] = found[h]
         /\ Result[g] = BlankMap(NoCall)
         /\ Result' = [Result EXCEPT ![g] = [BlankMap(NoCall) EXCEPT ![k] = v]]
<1>1. /\ mpc' = [mpc EXCEPT ![g] = label] /\ mcall' = mcall
      /\ found \in [Goroutines -> [Keys -> Goroutines \cup {NoValue, NoCall}]]
      /\ mpc \in [Goroutines -> LabelSet] /\ found[g] = BlankMap(NoCall)
  BY DEF MapGoto, MapInv, MapTypeOK, LabelSet, SeenInv, FoundShape
<1>2. /\ mpc'[g] = label /\ found'[g] = [BlankMap(NoCall) EXCEPT ![k] = v]
      /\ \A h \in Goroutines \ {g} : mpc'[h] = mpc[h] /\ found'[h] = found[h]
  BY <1>1
<1>3. found'[g] # BlankMap(NoCall)
  <2>1. found'[g][k] = v /\ BlankMap(NoCall)[k] = NoCall
    BY <1>2 DEF BlankMap
  <2>2. v # NoCall
    OBVIOUS
  <2> QED BY <2>1, <2>2
<1>4. Result[g] = BlankMap(NoCall)
  BY DEF Result
<1>5. Result' = [Result EXCEPT ![g] = [BlankMap(NoCall) EXCEPT ![k] = v]]
  BY <1>2 DEF Result
<1> QED BY <1>1, <1>2, <1>3, <1>4, <1>5 DEF FoundShape

\* Found answers, and lets go of the entries.
LEMMA FoundSees ==
  ASSUME MapInv, SeenInv, NEW g \in Goroutines, NEW k \in Keys,
         NEW v \in Goroutines \cup {NoValue},
         mpc[g] \in {"start", "entry", "lock", "put", "add"},
         Found(g, k, v), left' = left, KeepsValues
  PROVE  /\ Sees(g) /\ mcall' = mcall /\ Result[g] = BlankMap(NoCall)
         /\ Result' = [Result EXCEPT ![g] = [BlankMap(NoCall) EXCEPT ![k] = v]]
<1>1. /\ held' = [held EXCEPT ![g] = BlankMap(NoEntry)]
      /\ found' = [found EXCEPT ![g][k] = v] /\ MapGoto(g, "return")
  BY DEF Found
<1>2. (\A j \in Keys : held'[g][j] = NoEntry) /\ \A h \in Goroutines \ {g} : held'[h] = held[h]
  BY <1>1, BlankFact DEF MapInv, MapTypeOK
<1>3. Apart(g) /\ FoundShape(g)' /\ mpc'[g] = "return"
  BY <1>1, <1>2, Answered DEF Apart
<1> QED BY <1>1, <1>2, <1>3, Answered DEF Sees

\* The result of a call that writes.
LEMMA Writes ==
  ASSUME MapInv, NEW g \in Goroutines, mpc[g] # "idle",
         kind(g) \in {"store", "loadorstore", "delete"}, NEW v,
         Result[g] = BlankMap(NoCall), mcall' = mcall,
         Result' = [Result EXCEPT ![g] = [BlankMap(NoCall) EXCEPT ![key(g)] = v]],
         Content' = [Content EXCEPT ![key(g)] = v],
         v = Abstract!Written(g, Content[key(g)])
  PROVE  Abstract!Write(g)
<1>1. key(g) \in mcall[g][2] /\ key(g) \in Keys /\ mcall[g] # NoCall
  BY KeyFact DEF MapInv, CallShape
<1>2. Content'[key(g)] = v
  BY <1>1 DEF Content
<1>3. Result' = [Result EXCEPT ![g][key(g)] = Content'[key(g)]]
  BY <1>2
<1>4. Abstract!Pending(g)
  BY <1>1 DEF Abstract!Pending, Abstract!Blank, BlankMap
<1>5. Content' = [Content EXCEPT ![key(g)] = Abstract!Written(g, @)]
  OBVIOUS
<1> QED BY <1>1, <1>3, <1>4, <1>5 DEF Abstract!Write, kind

\* The result of a call that finds that it has nothing to write.
LEMMA Reads ==
  ASSUME MapInv, SeenInv, NEW g \in Goroutines, mpc[g] # "idle",
         NEW v \in Goroutines \cup {NoValue},
         kind(g) = "load" \/ (kind(g) = "delete" /\ v = NoValue),
         Result[g] = BlankMap(NoCall), mcall' = mcall,
         Result' = [Result EXCEPT ![g] = [BlankMap(NoCall) EXCEPT ![key(g)] = v]],
         Content' = Content, v \in seen[g][key(g)]
  PROVE  Abstract!Read(g)
<1>1. mcall[g][2] = {key(g)} /\ key(g) \in Keys /\ mcall[g] # NoCall
  BY KeyFact DEF MapInv, CallShape
<1>2. Abstract!Pending(g)
  BY <1>1 DEF Abstract!Pending, Abstract!Blank, BlankMap
<1> DEFINE r == [BlankMap(NoCall) EXCEPT ![key(g)] = v]
<1>3. r \in [Keys -> Goroutines \cup {NoValue, NoCall}]
  BY <1>1 DEF BlankMap
<1>4. r[key(g)] = v /\ \A k \in Keys : k # key(g) => r[k] = NoCall
  BY <1>1 DEF BlankMap
<1>5. mcall[g][1] = "load" \/ v = Abstract!Written(g, v)
  BY DEF Abstract!Written, kind
<1>6. \A k \in Keys :
        IF k \notin mcall[g][2] THEN r[k] = NoCall
        ELSE /\ r[k] \in seen[g][k]
             /\ mcall[g][1] \in {"load", "range"} \/ r[k] = Abstract!Written(g, r[k])
  BY <1>1, <1>4, <1>5
<1> HIDE DEF r
<1> QED BY <1>2, <1>3, <1>6 DEF Abstract!Read, r

\* A call that goes on without a result.
LEMMA Goes ==
  ASSUME MapInv, SeenInv, NEW g \in Goroutines,
         NEW label \in {"entry", "lock", "put", "add"},
         mpc[g] \in {"start", "entry", "lock"}, MapGoto(g, label), found' = found
  PROVE  /\ mcall' = mcall /\ mpc'[g] = label /\ FoundShape(g)' /\ Result' = Result
         /\ \A h \in Goroutines \ {g} : mpc'[h] = mpc[h] /\ found'[h] = found[h]
<1>1. /\ mpc' = [mpc EXCEPT ![g] = label] /\ mcall' = mcall /\ found[g] = BlankMap(NoCall)
      /\ mpc \in [Goroutines -> LabelSet]
  BY DEF MapGoto, MapInv, MapTypeOK, LabelSet, SeenInv, FoundShape
<1>2. mpc'[g] = label /\ \A h \in Goroutines \ {g} : mpc'[h] = mpc[h]
  BY <1>1
<1> QED BY <1>1, <1>2 DEF FoundShape, Result

\* A look-up that has found the entry of its key.
LEMMA HoldSees ==
  ASSUME MapInv, SeenInv, NEW g \in Goroutines, NEW label \in {"entry", "put"},
         mpc[g] \in {"start", "lock"}, kind(g) # "range", NEW e \in Entries,
         Hold(g, key(g), e), MapGoto(g, label), UNCHANGED <<found, left>>,
         KeepsValues, \A k \in Keys : k = key(g) => Current(k)' = e
  PROVE  Sees(g) /\ mcall' = mcall /\ Result' = Result
<1>1. /\ held' = [held EXCEPT ![g][key(g)] = e] /\ key(g) \in Keys
      /\ held \in [Goroutines -> Tables]
  BY KeyFact DEF Hold, MapInv, MapTypeOK
<1>2. \A h \in Goroutines \ {g} : held'[h] = held[h]
  BY <1>1
<1>3. \A k \in Keys : held'[g][k] # NoEntry =>
        held'[g][k] = held[g][k] \/ (k = key(g) /\ held'[g][k] = e)
  <2>1. held'[g] = [held[g] EXCEPT ![key(g)] = e] /\ held[g] \in [Keys -> Entries \cup {NoEntry}]
    BY <1>1 DEF Tables
  <2> QED BY <1>1, <2>1
<1>4. ASSUME NEW k \in Keys, held'[g][k] # NoEntry
      PROVE  held'[g][k] \in {held[g][k], Current(k)'}
  <2>1. CASE k = key(g)
    <3>1. Current(k)' = e
      BY <2>1
    <3>2. held'[g][k] = held[g][k] \/ held'[g][k] = e
      BY <1>3, <1>4
    <3> QED BY <3>1, <3>2
  <2>2. CASE k # key(g)
    BY <1>3, <1>4, <2>2
  <2> QED BY <2>1, <2>2
<1>5. Apart(g) /\ FoundShape(g)' /\ mpc'[g] = label /\ mcall' = mcall /\ Result' = Result
  BY <1>2, Goes DEF Apart
<1> QED BY <1>4, <1>5 DEF Sees

\* A call that goes on and holds nothing new.
LEMMA GoesSees ==
  ASSUME MapInv, SeenInv, NEW g \in Goroutines,
         NEW label \in {"entry", "lock", "put", "add"},
         mpc[g] \in {"start", "entry", "lock"}, MapGoto(g, label), UNCHANGED <<found, held>>,
         \A h \in Goroutines \ {g} : left'[h] = left[h], KeepsValues
  PROVE  Sees(g) /\ mcall' = mcall /\ Result' = Result
<1>1. Apart(g) /\ FoundShape(g)' /\ mpc'[g] = label /\ mcall' = mcall /\ Result' = Result
  BY Goes DEF Apart
<1> QED BY <1>1 DEF Sees

LEMMA NothingChanges ==
  ASSUME MapInv, UNCHANGED <<pointer, read, dirty>>
  PROVE  KeepsValues /\ Content' = Content /\ \A k \in Keys : Current(k)' = Current(k)
<1>1. \A k \in Keys : Current(k)' = Current(k)
  BY DEF Current, In
<1> QED BY <1>1, SameValues

\* A call has seen the value that its key has.
LEMMA SeesContent ==
  ASSUME MapInv, SeenInv, NEW g \in Goroutines, InProgress(g), kind(g) # "range"
  PROVE  Content[key(g)] \in seen[g][key(g)]
<1>1. key(g) \in Keys /\ key(g) \in mcall[g][2]
  BY KeyFact DEF InProgress
<1> QED BY <1>1 DEF SeenInv, SeenNow

LEMMA MapCallSim ==
  ASSUME MapInv, SeenInv, NEW g \in Goroutines, NEW c \in MapCalls[g], MapCall(g, c)
  PROVE  Sees(g) /\ Effect(g)
<1>1. /\ mpc[g] = "idle" /\ mcall[g] = NoCall /\ c \in Abstract!Calls
      /\ mpc' = [mpc EXCEPT ![g] = "start"] /\ mcall' = [mcall EXCEPT ![g] = c]
      /\ UNCHANGED <<pointer, read, dirty, held, left, found>>
  BY DEF MapCall, MapInv, CallShape
<1>2. KeepsValues /\ Content' = Content
  BY <1>1, NothingChanges
<1>3. mpc'[g] = "start" /\ \A h \in Goroutines \ {g} : mpc'[h] = mpc[h]
  BY <1>1 DEF MapInv, MapTypeOK
<1>4. found[g] = BlankMap(NoCall)
  BY <1>1 DEF SeenInv, FoundShape
<1>5. Sees(g)
  BY <1>1, <1>2, <1>3, <1>4 DEF Sees, Apart, FoundShape
<1>6. Result' = Result
  BY <1>1, <1>3 DEF Result
<1>7. Abstract!Start(g)
  BY <1>1, <1>2, <1>6 DEF Abstract!Start
<1> QED BY <1>5, <1>7 DEF Effect

LEMMA MapLookupSim ==
  ASSUME MapInv, SeenInv, NEW g \in Goroutines, MapLookup(g)
  PROVE  Sees(g) /\ Effect(g)
<1> DEFINE k == key(g)
<1>1. /\ mpc[g] = "start" /\ kind(g) # "range" /\ k \in Keys
      /\ UNCHANGED <<pointer, read, dirty, left>>
  BY KeyFact DEF MapLookup
<1>2. KeepsValues /\ Content' = Content /\ \A j \in Keys : Current(j)' = Current(j)
  BY <1>1, NothingChanges
<1>3. CASE In(k, read.m)
  <2>1. Hold(g, k, read.m[k]) /\ MapGoto(g, "entry") /\ found' = found /\ read.m[k] \in Entries
    BY <1>1, <1>3, TableFact DEF MapLookup
  <2>2. \A j \in Keys : j = k => Current(j)' = read.m[k]
    BY <1>1, <1>3 DEF Current, In
  <2> QED BY <1>1, <1>2, <2>1, <2>2, HoldSees DEF Effect
<1>4. CASE MapGoto(g, "lock") /\ UNCHANGED <<held, found>>
  BY <1>1, <1>2, <1>4, GoesSees DEF Effect
<1>5. CASE /\ ~In(k, read.m) /\ ~read.amended /\ kind(g) \notin {"store", "loadorstore"}
           /\ Found(g, k, NoValue)
  <2>1. Content[k] = NoValue
    BY <1>1, <1>5, CurrentFact DEF Current, MapInv, DirtyLive
  <2>2. NoValue \in seen[g][k]
    BY <1>1, <2>1, SeesContent DEF InProgress
  <2>3. kind(g) \in {"load", "delete"}
    BY <1>1, <1>5, KeyFact
  <2>4. Sees(g) /\ mcall' = mcall /\ Result[g] = BlankMap(NoCall)
        /\ Result' = [Result EXCEPT ![g] = [BlankMap(NoCall) EXCEPT ![k] = NoValue]]
    BY <1>1, <1>2, <1>5, FoundSees
  <2>5. Abstract!Read(g)
    BY <1>1, <1>2, <2>2, <2>3, <2>4, Reads
  <2> QED BY <2>4, <2>5 DEF Effect
<1> QED BY <1>1, <1>3, <1>4, <1>5 DEF MapLookup

\* What a call that is going to look at the entry of its key knows.
LEMMA EntryFact ==
  ASSUME MapInv, SeenInv, NEW g \in Goroutines, mpc[g] \in {"entry", "put"}
  PROVE  /\ key(g) \in Keys /\ kind(g) # "range" /\ entry(g) \in Entries
         /\ ValueOf(pointer[entry(g)]) \in seen[g][key(g)]
         /\ \A k \in Keys : Refers(entry(g), k) => k = key(g)
         /\ kind(g) # "load" /\ pointer[entry(g)] # Expunged => Current(key(g)) = entry(g)
<1>1. key(g) \in Keys /\ kind(g) # "range" /\ entry(g) # NoEntry
      /\ kind(g) \in {"load", "store", "loadorstore", "delete"}
  BY KeyFact DEF MapInv, CallShape
<1>2. entry(g) \in Entries /\ Refers(entry(g), key(g))
  BY <1>1, TableFact DEF entry, Refers
<1>3. ValueOf(pointer[entry(g)]) \in seen[g][key(g)]
  BY <1>1 DEF entry, SeenInv, SeenHeld
<1>4. kind(g) # "load" /\ pointer[entry(g)] # Expunged => entry(g) = read.m[key(g)]
  BY <1>1 DEF MapInv, EntriesAlive, HoldsLiveEntries, entry
<1> QED BY <1>1, <1>2, <1>3, <1>4, TableFact DEF MapInv, OneKeyEach, Current, In

LEMMA LoadEntrySim ==
  ASSUME MapInv, SeenInv, NEW g \in Goroutines, LoadEntry(g)
  PROVE  Sees(g) /\ Effect(g)
<1> DEFINE v == ValueOf(pointer[entry(g)])
<1>1. /\ mpc[g] = "entry" /\ kind(g) = "load" /\ Found(g, key(g), v)
      /\ UNCHANGED <<pointer, read, dirty, left>>
  BY DEF LoadEntry
<1>2. key(g) \in Keys /\ v \in seen[g][key(g)] /\ v \in Goroutines \cup {NoValue}
  BY <1>1, EntryFact DEF ValueOf, Valid, MapInv, MapTypeOK
<1>3. KeepsValues /\ Content' = Content
  BY <1>1, NothingChanges
<1> HIDE DEF v
<1>4. Sees(g) /\ mcall' = mcall /\ Result[g] = BlankMap(NoCall)
      /\ Result' = [Result EXCEPT ![g] = [BlankMap(NoCall) EXCEPT ![key(g)] = v]]
  BY <1>1, <1>2, <1>3, FoundSees
<1>5. Abstract!Read(g)
  BY <1>1, <1>2, <1>3, <1>4, Reads
<1> QED BY <1>4, <1>5 DEF Effect

LEMMA DeleteEntrySim ==
  ASSUME MapInv, SeenInv, NEW g \in Goroutines, DeleteEntry(g)
  PROVE  Sees(g) /\ Effect(g)
<1> DEFINE e == entry(g)
           k == key(g)
<1>1. /\ mpc[g] = "entry" /\ kind(g) = "delete" /\ Found(g, k, NoValue)
      /\ pointer' = [pointer EXCEPT ![e] = IF @ = Expunged THEN @ ELSE NoValue]
      /\ UNCHANGED <<read, dirty, left>>
  BY DEF DeleteEntry
<1>2. /\ k \in Keys /\ e \in Entries /\ \A j \in Keys : Refers(e, j) => j = k
      /\ pointer \in [Entries -> Goroutines \cup {NoValue, Expunged}]
  BY <1>1, EntryFact DEF MapInv, MapTypeOK
<1>3. CASE pointer[e] = Expunged
  <2>1. pointer' = pointer
    BY <1>1, <1>2, <1>3
  <2>2. KeepsValues /\ Content' = Content
    BY <1>1, <2>1, NothingChanges
  <2>3. NoValue \in seen[g][k]
    BY <1>1, <1>3, EntryFact DEF ValueOf, Valid
  <2>4. Sees(g) /\ mcall' = mcall /\ Result[g] = BlankMap(NoCall)
        /\ Result' = [Result EXCEPT ![g] = [BlankMap(NoCall) EXCEPT ![k] = NoValue]]
    BY <1>1, <1>2, <2>2, FoundSees
  <2>5. Abstract!Read(g)
    BY <1>1, <2>2, <2>3, <2>4, Reads
  <2> QED BY <2>4, <2>5 DEF Effect
<1>4. CASE pointer[e] # Expunged
  <2>1. Current(k) = e /\ \A j \in Keys : Current(j)' = IF j = k THEN e ELSE Current(j)
    <3>1. Current(k) = e
      BY <1>1, <1>4, EntryFact
    <3>2. \A j \in Keys : Current(j)' = Current(j)
      BY <1>1 DEF Current, In
    <3> QED BY <3>1, <3>2
  <2>2. pointer'[e] = NoValue /\ \A d \in Entries : d # e => pointer'[d] = pointer[d]
    BY <1>1, <1>2, <1>4
  <2>3. KeepsValues /\ Content' = [Content EXCEPT ![k] = ValueOf(pointer'[e])]
    BY <1>2, <2>1, <2>2, NewValue
  <2>4. Content' = [Content EXCEPT ![k] = NoValue]
    BY <2>2, <2>3 DEF ValueOf, Valid
  <2>5. Sees(g) /\ mcall' = mcall /\ Result[g] = BlankMap(NoCall)
        /\ Result' = [Result EXCEPT ![g] = [BlankMap(NoCall) EXCEPT ![k] = NoValue]]
    BY <1>1, <1>2, <2>3, FoundSees
  <2>6. NoValue = Abstract!Written(g, Content[k])
    BY <1>1 DEF Abstract!Written, kind
  <2>7. Abstract!Write(g)
    BY <1>1, <2>4, <2>5, <2>6, Writes
  <2> QED BY <2>5, <2>7 DEF Effect
<1> QED BY <1>3, <1>4

\* A store into the entry of a key is what the abstract store does to its value.
LEMMA PutSim ==
  ASSUME MapInv, NEW g \in Goroutines, mpc[g] # "idle", kind(g) \in {"store", "loadorstore"},
         NEW e \in Entries, Current(key(g)) = e, pointer[e] # Expunged,
         UNCHANGED <<read, dirty>>, pointer' = [pointer EXCEPT ![e] = Put(g, @)]
  PROVE  /\ key(g) \in Keys /\ Put(g, pointer[e]) \in Goroutines \cup {NoValue}
         /\ KeepsValues /\ Content' = [Content EXCEPT ![key(g)] = Put(g, pointer[e])]
         /\ Put(g, pointer[e]) = Abstract!Written(g, Content[key(g)])
<1> DEFINE k == key(g)
           v == Put(g, pointer[e])
<1>1. k \in Keys
  BY KeyFact
<1>2. v \in Goroutines \cup {NoValue} /\ v # Expunged
  BY PutFact
<1>3. pointer'[e] = v /\ \A d \in Entries : d # e => pointer'[d] = pointer[d]
  BY DEF MapInv, MapTypeOK
<1>4. \A j \in Keys : Current(j)' = IF j = k THEN e ELSE Current(j)
  <2>1. \A j \in Keys : Current(j)' = Current(j)
    BY DEF Current, In
  <2> QED BY <2>1
<1>5. \A j \in Keys : Refers(e, j) => j = k
  BY <1>1, CurrentFact DEF MapInv, OneKeyEach
<1>6. KeepsValues /\ Content' = [Content EXCEPT ![k] = ValueOf(pointer'[e])]
  BY <1>1, <1>3, <1>4, <1>5, NewValue
<1>7. ValueOf(pointer'[e]) = v
  BY <1>2, <1>3 DEF ValueOf, Valid
<1>8. Content[k] = pointer[e]
  BY <1>1, CurrentFact DEF ValueOf, Valid, MapInv, MapTypeOK
<1>9. v = Abstract!Written(g, Content[k])
  <2>1. CASE kind(g) = "store"
    BY <2>1 DEF Put, Abstract!Written, kind
  <2>2. CASE kind(g) = "loadorstore"
    BY <1>8, <2>2 DEF Put, Abstract!Written, kind
  <2> QED BY <2>1, <2>2
<1> QED BY <1>1, <1>2, <1>6, <1>7, <1>9

LEMMA StoreEntrySim ==
  ASSUME MapInv, SeenInv, NEW g \in Goroutines, StoreEntry(g)
  PROVE  Sees(g) /\ Effect(g)
<1> DEFINE e == entry(g)
           k == key(g)
           v == Put(g, pointer[e])
<1>1. /\ mpc[g] = "entry" /\ kind(g) \in {"store", "loadorstore"}
      /\ UNCHANGED <<read, dirty, left>>
  BY DEF StoreEntry
<1>2. k \in Keys /\ e \in Entries
  BY <1>1, EntryFact
<1>3. CASE pointer[e] = Expunged
  <2>1. /\ MapGoto(g, "lock") /\ held' = [held EXCEPT ![g] = BlankMap(NoEntry)]
        /\ UNCHANGED <<pointer, found>>
    BY <1>3 DEF StoreEntry
  <2>2. KeepsValues /\ Content' = Content
    BY <1>1, <2>1, NothingChanges
  <2>3. (\A j \in Keys : held'[g][j] = NoEntry) /\ \A h \in Goroutines \ {g} : held'[h] = held[h]
    BY <2>1, BlankFact DEF MapInv, MapTypeOK
  <2>4. Apart(g) /\ FoundShape(g)' /\ mpc'[g] = "lock" /\ mcall' = mcall /\ Result' = Result
    BY <1>1, <2>1, <2>3, Goes DEF Apart
  <2> QED BY <2>2, <2>3, <2>4 DEF Sees, Effect
<1>4. CASE pointer[e] # Expunged
  <2>1. pointer' = [pointer EXCEPT ![e] = Put(g, @)] /\ Found(g, k, v) /\ Current(k) = e
    BY <1>1, <1>4, EntryFact DEF StoreEntry
  <2>2. /\ v \in Goroutines \cup {NoValue} /\ KeepsValues
        /\ Content' = [Content EXCEPT ![k] = v] /\ v = Abstract!Written(g, Content[k])
    BY <1>1, <1>2, <1>4, <2>1, PutSim
  <2> HIDE DEF v
  <2>3. Sees(g) /\ mcall' = mcall /\ Result[g] = BlankMap(NoCall)
        /\ Result' = [Result EXCEPT ![g] = [BlankMap(NoCall) EXCEPT ![k] = v]]
    BY <1>1, <1>2, <2>1, <2>2, FoundSees
  <2>4. Abstract!Write(g)
    BY <1>1, <2>2, <2>3, Writes
  <2> QED BY <2>3, <2>4 DEF Effect
<1> QED BY <1>3, <1>4

LEMMA PutLockedSim ==
  ASSUME MapInv, SeenInv, NEW g \in Goroutines, PutLocked(g)
  PROVE  Sees(g) /\ Effect(g)
<1> DEFINE e == entry(g)
           k == key(g)
           v == Put(g, pointer[e])
<1>1. /\ mpc[g] = "put" /\ kind(g) \in {"store", "loadorstore"} /\ pointer[e] # Expunged
      /\ pointer' = [pointer EXCEPT ![e] = Put(g, @)] /\ Found(g, k, v)
      /\ UNCHANGED <<read, dirty, left>>
  BY DEF PutLocked, MapInv, CallShape, UnderMu
<1>2. k \in Keys /\ e \in Entries /\ Current(k) = e
  BY <1>1, EntryFact
<1>3. /\ v \in Goroutines \cup {NoValue} /\ KeepsValues
      /\ Content' = [Content EXCEPT ![k] = v] /\ v = Abstract!Written(g, Content[k])
  BY <1>1, <1>2, PutSim
<1> HIDE DEF v
<1>4. Sees(g) /\ mcall' = mcall /\ Result[g] = BlankMap(NoCall)
      /\ Result' = [Result EXCEPT ![g] = [BlankMap(NoCall) EXCEPT ![k] = v]]
  BY <1>1, <1>2, <1>3, FoundSees
<1>5. Abstract!Write(g)
  BY <1>1, <1>3, <1>4, Writes
<1> QED BY <1>4, <1>5 DEF Effect

LEMMA PutDirtySim ==
  ASSUME MapInv, SeenInv, NEW g \in Goroutines, PutDirty(g)
  PROVE  Sees(g) /\ Effect(g)
<1> DEFINE k == key(g)
           e == dirty[k]
           v == Put(g, pointer[e])
<1>1. /\ Enter(g) /\ kind(g) \in {"store", "loadorstore"} /\ ~In(k, read.m) /\ In(k, dirty)
      /\ pointer' = [pointer EXCEPT ![e] = Put(g, @)]
      /\ found' = [found EXCEPT ![g][k] = v]
      /\ UNCHANGED <<read, dirty, held, left>>
  BY DEF PutDirty
<1>2. PICK label \in {"miss", "return"} : MapGoto(g, label)
  BY DEF PutDirty
<1>3. /\ mpc[g] = "lock" /\ k \in Keys /\ e \in Entries /\ Current(k) = e
      /\ pointer[e] # Expunged /\ \A j \in Keys : held[g][j] = NoEntry
  BY <1>1, EnterFact, TableFact DEF Current, MapInv, DirtyLive
<1>4. /\ v \in Goroutines \cup {NoValue} /\ KeepsValues
      /\ Content' = [Content EXCEPT ![k] = v] /\ v = Abstract!Written(g, Content[k])
  BY <1>1, <1>3, PutSim
<1> HIDE DEF v
<1>5. /\ mcall' = mcall /\ mpc'[g] = label /\ FoundShape(g)'
      /\ \A h \in Goroutines \ {g} : mpc'[h] = mpc[h] /\ found'[h] = found[h]
      /\ Result[g] = BlankMap(NoCall)
      /\ Result' = [Result EXCEPT ![g] = [BlankMap(NoCall) EXCEPT ![k] = v]]
  <2>1. /\ k \in Keys /\ v \in Goroutines \cup {NoValue}
        /\ mpc[g] \in {"start", "entry", "lock", "put", "add"}
        /\ found' = [found EXCEPT ![g][k] = v] /\ MapGoto(g, label)
    BY <1>1, <1>2, <1>3, <1>4
  <2> HIDE DEF k
  <2> QED BY <2>1, Answered
<1>6. Sees(g)
  BY <1>1, <1>3, <1>4, <1>5 DEF Sees, Apart
<1>7. Abstract!Write(g)
  BY <1>1, <1>3, <1>4, <1>5, Writes
<1> QED BY <1>6, <1>7 DEF Effect

\* The promotion of the dirty map changes no value: it has the entries of the read
\* map but for those that are expunged.
LEMMA PromotedValues ==
  ASSUME MapInv, \A h \in Goroutines : mpc[h] # "add", dirty # NoEntry,
         read' = Promoted, dirty' = NoEntry, pointer' = pointer
  PROVE  /\ KeepsValues /\ Content' = Content
         /\ \A k \in Keys : In(k, dirty) => Current(k)' = dirty[k] /\ Current(k) = dirty[k]
<1>1. ASSUME NEW k \in Keys
      PROVE  Current(k)' = dirty[k]
  BY DEF Current, In, Promoted
<1>2. ASSUME NEW k \in Keys
      PROVE  \/ Current(k)' = Current(k)
             \/ Current(k)' = NoEntry /\ ValueOf(pointer[Current(k)]) = NoValue
  <2>1. CASE In(k, read.m)
    <3>1. dirty[k] = IF pointer[read.m[k]] = Expunged THEN NoEntry ELSE read.m[k]
      BY <2>1 DEF MapInv, EntriesAlive, DirtyComplete
    <3>2. Current(k) = read.m[k]
      BY <2>1 DEF Current
    <3> QED BY <1>1, <3>1, <3>2 DEF ValueOf, Valid
  <2>2. CASE ~In(k, read.m)
    BY <1>1, <2>2 DEF Current, In
  <2> QED BY <2>1, <2>2
<1>3. ASSUME NEW k \in Keys, In(k, dirty)
      PROVE  Current(k)' = dirty[k] /\ Current(k) = dirty[k]
  <2>1. Current(k)' = dirty[k] /\ dirty[k] # NoEntry
    BY <1>1, <1>3 DEF In
  <2> QED BY <1>2, <2>1
<1> QED BY <1>2, <1>3, SameValues

LEMMA MissValues ==
  ASSUME MapInv, \A h \in Goroutines : mpc[h] # "add", dirty # NoEntry, Miss, pointer' = pointer
  PROVE  /\ KeepsValues /\ Content' = Content
         /\ \A k \in Keys : In(k, dirty) => Current(k)' = Current(k)
<1>1. CASE UNCHANGED <<read, dirty>>
  BY <1>1, NothingChanges
<1>2. CASE read' = Promoted /\ dirty' = NoEntry
  BY <1>2, PromotedValues
<1> QED BY <1>1, <1>2 DEF Miss

LEMMA MissLockedSim ==
  ASSUME MapInv, SeenInv, NEW g \in Goroutines, MissLocked(g)
  PROVE  Sees(g) /\ Effect(g)
<1>1. /\ mpc[g] = "miss" /\ mu = g /\ Miss /\ mpc' = [mpc EXCEPT ![g] = "return"]
      /\ UNCHANGED <<mcall, pointer, held, left, found>> /\ dirty # NoEntry
  BY DEF MissLocked, MapGoto, MapInv, CallShape, UnderMu
<1>2. \A h \in Goroutines : mpc[h] # "add"
  BY <1>1 DEF MapInv, CallShape
<1>3. KeepsValues /\ Content' = Content
  BY <1>1, <1>2, MissValues
<1>4. mpc'[g] = "return" /\ \A h \in Goroutines \ {g} : mpc'[h] = mpc[h]
  BY <1>1 DEF MapInv, MapTypeOK
<1>5. Result' = Result
  BY <1>1, <1>4 DEF Result
<1>6. Sees(g)
  BY <1>1, <1>3, <1>4 DEF Sees, Apart, FoundShape, SeenInv
<1> QED BY <1>1, <1>3, <1>5, <1>6 DEF Effect

LEMMA LoadLockedSim ==
  ASSUME MapInv, SeenInv, NEW g \in Goroutines, LoadLocked(g)
  PROVE  Sees(g) /\ Effect(g)
<1> DEFINE k == key(g)
           inDirty == ~In(k, read.m) /\ read.amended
           m == IF inDirty THEN dirty ELSE read.m
<1>1. /\ Enter(g) /\ kind(g) = "load"
      /\ IF inDirty THEN Miss ELSE UNCHANGED <<read, dirty, misses>>
      /\ IF In(k, m) THEN Hold(g, k, m[k]) /\ MapGoto(g, "entry") /\ UNCHANGED found
         ELSE Found(g, k, NoValue)
      /\ UNCHANGED <<pointer, mu, left>>
  BY DEF LoadLocked
<1>2. k \in Keys /\ mpc[g] = "lock" /\ \A h \in Goroutines : mpc[h] # "add"
  BY <1>1, EnterFact
<1>3. /\ KeepsValues /\ Content' = Content
      /\ In(k, m) => m[k] \in Entries /\ \A j \in Keys : j = k => Current(j)' = m[k]
      /\ ~In(k, m) => Current(k) = NoEntry
  <2>1. CASE inDirty
    <3>1. dirty # NoEntry /\ Miss /\ m = dirty
      BY <1>1, <2>1 DEF MapInv, DirtyLive
    <3>2. /\ KeepsValues /\ Content' = Content
          /\ \A j \in Keys : In(j, dirty) => Current(j)' = Current(j)
      BY <1>1, <1>2, <3>1, MissValues
    <3>3. ASSUME In(k, m), NEW j \in Keys, j = k
          PROVE  Current(j)' = m[k]
      <4>1. Current(j)' = Current(j)
        BY <3>1, <3>2, <3>3
      <4>2. Current(j) = m[k]
        BY <2>1, <3>1, <3>3 DEF Current
      <4> QED BY <4>1, <4>2
    <3> QED BY <1>2, <2>1, <3>1, <3>2, <3>3, TableFact DEF Current
  <2>2. CASE ~inDirty
    <3>1. UNCHANGED <<read, dirty>> /\ m = read.m /\ (~In(k, m) => ~In(k, dirty))
      BY <1>1, <1>2, <2>2 DEF MapInv, DirtyLive
    <3>2. KeepsValues /\ Content' = Content /\ \A j \in Keys : Current(j)' = Current(j)
      BY <1>1, <3>1, NothingChanges
    <3>3. ASSUME In(k, m), NEW j \in Keys, j = k
          PROVE  Current(j)' = m[k]
      <4>1. Current(j)' = Current(j)
        BY <3>2
      <4>2. Current(j) = m[k]
        BY <3>1, <3>3 DEF Current
      <4> QED BY <4>1, <4>2
    <3> QED BY <1>2, <2>2, <3>1, <3>2, <3>3, TableFact DEF Current
  <2> QED BY <2>1, <2>2
<1> HIDE DEF m
<1>4. CASE In(k, m)
  <2>1. \A j \in Keys : j = k => Current(j)' = m[k]
    BY <1>3, <1>4
  <2> QED BY <1>1, <1>2, <1>3, <1>4, <2>1, HoldSees DEF Effect
<1>5. CASE ~In(k, m)
  <2>1. NoValue \in seen[g][k]
    BY <1>1, <1>2, <1>3, <1>5, CurrentFact, SeesContent DEF InProgress
  <2>2. Sees(g) /\ mcall' = mcall /\ Result[g] = BlankMap(NoCall)
        /\ Result' = [Result EXCEPT ![g] = [BlankMap(NoCall) EXCEPT ![k] = NoValue]]
    BY <1>1, <1>2, <1>3, <1>5, FoundSees
  <2>3. Abstract!Read(g)
    BY <1>1, <1>2, <1>3, <2>1, <2>2, Reads
  <2> QED BY <2>2, <2>3 DEF Effect
<1> QED BY <1>4, <1>5

LEMMA DeleteLockedSim ==
  ASSUME MapInv, SeenInv, NEW g \in Goroutines, DeleteLocked(g)
  PROVE  Sees(g) /\ Effect(g)
<1> DEFINE k == key(g)
<1>1. /\ Enter(g) /\ kind(g) = "delete" /\ mpc[g] = "lock" /\ k \in Keys
      /\ UNCHANGED <<pointer, read, left>>
  BY EnterFact DEF DeleteLocked
<1>2. CASE In(k, read.m)
  <2>1. /\ Hold(g, k, read.m[k]) /\ MapGoto(g, "entry") /\ UNCHANGED <<dirty, found>>
        /\ read.m[k] \in Entries
    BY <1>1, <1>2, TableFact DEF DeleteLocked
  <2>2. KeepsValues /\ Content' = Content
    BY <1>1, <2>1, NothingChanges
  <2>3. \A j \in Keys : j = k => Current(j)' = read.m[k]
    BY <1>1, <1>2 DEF Current, In
  <2> QED BY <1>1, <2>1, <2>2, <2>3, HoldSees DEF Effect
<1>3. CASE ~In(k, read.m)
  <2>1. /\ dirty' = IF read.amended THEN [dirty EXCEPT ![k] = NoEntry] ELSE dirty
        /\ Found(g, k, NoValue)
    BY <1>3 DEF DeleteLocked
  <2>2. \A j \in Keys : In(j, dirty') <=> In(j, dirty) /\ j # k
    <3>1. CASE read.amended
      <4>1. dirty \in Tables /\ dirty' = [dirty EXCEPT ![k] = NoEntry] /\ dirty # NoEntry
        BY <2>1, <3>1 DEF MapInv, MapTypeOK, DirtyLive
      <4>2. dirty' \in Tables /\ \A j \in Keys : dirty'[j] = IF j = k THEN NoEntry ELSE dirty[j]
        BY <4>1 DEF Tables
      <4> QED BY <4>1, <4>2 DEF In
    <3>2. CASE ~read.amended
      BY <1>3, <2>1, <3>2 DEF MapInv, DirtyLive
    <3> QED BY <3>1, <3>2
  <2>3. \A j \in Keys : In(j, dirty') => dirty'[j] = dirty[j]
    BY <1>1, <2>1, <2>2 DEF MapInv, MapTypeOK, Tables, In, DirtyLive
  <2>4. KeepsValues
    BY <1>1 DEF KeepsValues
  <2>5. Content' = [Content EXCEPT ![k] = NoValue]
    <3>1. ASSUME NEW j \in Keys
          PROVE  (IF Current(j)' = NoEntry THEN NoValue ELSE ValueOf(pointer'[Current(j)']))
                   = IF j = k THEN NoValue ELSE Content[j]
      <4>1. CASE j = k
        <5>1. Current(j)' = NoEntry
          BY <1>1, <1>3, <2>2, <4>1 DEF Current, In
        <5> QED BY <4>1, <5>1
      <4>2. CASE j # k
        <5>1. Current(j)' = Current(j)
          BY <1>1, <2>2, <2>3, <4>2 DEF Current, In
        <5> QED BY <1>1, <4>2, <5>1, CurrentFact
      <4> QED BY <4>1, <4>2
    <3>2. Content' = [j \in Keys |-> IF j = k THEN NoValue ELSE Content[j]]
      BY <3>1 DEF Content
    <3>3. Content = [j \in Keys |-> Content[j]]
      BY DEF Content
    <3> QED BY <3>2, <3>3
  <2>6. Sees(g) /\ mcall' = mcall /\ Result[g] = BlankMap(NoCall)
        /\ Result' = [Result EXCEPT ![g] = [BlankMap(NoCall) EXCEPT ![k] = NoValue]]
    BY <1>1, <2>1, <2>4, FoundSees
  <2>7. NoValue = Abstract!Written(g, Content[k])
    BY <1>1 DEF Abstract!Written, kind
  <2>8. Abstract!Write(g)
    BY <1>1, <2>5, <2>6, <2>7, Writes
  <2> QED BY <2>6, <2>8 DEF Effect
<1> QED BY <1>2, <1>3

LEMMA UnexpungeSim ==
  ASSUME MapInv, SeenInv, NEW g \in Goroutines, Unexpunge(g)
  PROVE  Sees(g) /\ Effect(g)
<1> DEFINE k == key(g)
           e == read.m[k]
<1>1. /\ Enter(g) /\ kind(g) \in {"store", "loadorstore"} /\ In(k, read.m)
      /\ pointer' = [pointer EXCEPT ![e] = IF @ = Expunged THEN NoValue ELSE @]
      /\ dirty' = IF pointer[e] = Expunged THEN [dirty EXCEPT ![k] = e] ELSE dirty
      /\ Hold(g, k, e) /\ MapGoto(g, "put") /\ UNCHANGED <<read, left, found>>
  BY DEF Unexpunge
<1>2. mpc[g] = "lock" /\ k \in Keys /\ e \in Entries /\ \A h \in Goroutines : mpc[h] # "add"
  BY <1>1, EnterFact, TableFact
<1>3. \A d \in Entries : ValueOf(pointer'[d]) = ValueOf(pointer[d])
  BY <1>1, <1>2 DEF ValueOf, Valid, MapInv, MapTypeOK
<1>4. \A j \in Keys : ~In(j, read.m) =>
        (In(j, dirty') <=> In(j, dirty)) /\ (In(j, dirty) => dirty'[j] = dirty[j])
  <2>1. CASE pointer[e] = Expunged
    <3>1. dirty \in Tables /\ dirty # NoEntry /\ dirty' = [dirty EXCEPT ![k] = e]
      BY <1>1, <1>2, <2>1 DEF MapInv, MapTypeOK, DirtyLive
    <3>2. dirty' \in Tables /\ \A j \in Keys : dirty'[j] = IF j = k THEN e ELSE dirty[j]
      BY <1>2, <3>1 DEF Tables
    <3> QED BY <1>1, <3>1, <3>2 DEF In
  <2>2. CASE pointer[e] # Expunged
    BY <1>1, <2>2
  <2> QED BY <2>1, <2>2
<1>5. \A j \in Keys : Current(j)' = Current(j)
  BY <1>1, <1>4 DEF Current, In
<1>6. KeepsValues /\ Content' = Content
  BY <1>3, <1>5, SameValues
<1>7. \A j \in Keys : j = k => Current(j)' = e
  BY <1>1 DEF Current, In
<1> QED BY <1>1, <1>2, <1>6, <1>7, HoldSees DEF Effect

LEMMA NewKeySim ==
  ASSUME MapInv, SeenInv, NEW g \in Goroutines, NewKey(g)
  PROVE  Sees(g) /\ Effect(g)
<1>1. /\ Enter(g) /\ mpc[g] = "lock" /\ MapGoto(g, "add")
      /\ UNCHANGED <<pointer, read, held, found>>
  BY EnterFact DEF NewKey
<1>2. \A h \in Goroutines \ {g} : left'[h] = left[h]
  BY DEF NewKey, MapInv, MapTypeOK
<1>3. \A j \in Keys : Current(j)' = Current(j)
  <2>1. CASE dirty' = dirty
    BY <1>1, <2>1 DEF Current, In
  <2>2. CASE dirty = NoEntry /\ dirty' = BlankMap(NoEntry)
    BY <1>1, <2>2, BlankFact DEF Current, In
  <2> QED BY <2>1, <2>2 DEF NewKey
<1>4. KeepsValues /\ Content' = Content
  BY <1>1, <1>3, SameValues
<1> QED BY <1>1, <1>2, <1>4, GoesSees DEF Effect

LEMMA ExpungeLockedSim ==
  ASSUME MapInv, SeenInv, NEW g \in Goroutines, ExpungeLocked(g)
  PROVE  Sees(g) /\ Effect(g)
<1>1. PICK k \in left[g] :
        /\ left' = [left EXCEPT ![g] = @ \ {k}]
        /\ IF Valid(pointer[read.m[k]])
             THEN dirty' = [dirty EXCEPT ![k] = read.m[k]] /\ UNCHANGED pointer
             ELSE pointer' = [pointer EXCEPT ![read.m[k]] = Expunged] /\ UNCHANGED dirty
  BY DEF ExpungeLocked
<1> DEFINE e == read.m[k]
<1>2. /\ mpc[g] = "add" /\ k \in Keys /\ dirty # NoEntry /\ dirty \in Tables
      /\ In(k, read.m) /\ e \in Entries
      /\ UNCHANGED <<read, mpc, mcall, held, found>>
  BY TableFact DEF ExpungeLocked, MapInv, MapTypeOK, UnderMu
<1>3. \A d \in Entries : ValueOf(pointer'[d]) = ValueOf(pointer[d])
  <2>1. CASE Valid(pointer[e])
    BY <1>1, <2>1
  <2>2. CASE ~Valid(pointer[e])
    <3>1. \A d \in Entries : pointer'[d] = IF d = e THEN Expunged ELSE pointer[d]
      BY <1>1, <1>2, <2>2 DEF MapInv, MapTypeOK
    <3> QED BY <2>2, <3>1 DEF ValueOf, Valid
  <2> QED BY <2>1, <2>2
<1>4. \A j \in Keys : ~In(j, read.m) =>
        (In(j, dirty') <=> In(j, dirty)) /\ (In(j, dirty) => dirty'[j] = dirty[j])
  <2>1. CASE dirty' = [dirty EXCEPT ![k] = e]
    <3>1. dirty' \in Tables /\ \A j \in Keys : dirty'[j] = IF j = k THEN e ELSE dirty[j]
      BY <1>2, <2>1 DEF Tables
    <3> QED BY <1>2, <3>1 DEF In
  <2>2. CASE dirty' = dirty
    BY <2>2
  <2> QED BY <1>1, <2>1, <2>2
<1>5. \A j \in Keys : Current(j)' = Current(j)
  BY <1>2, <1>4 DEF Current, In
<1>6. KeepsValues /\ Content' = Content
  BY <1>3, <1>5, SameValues
<1>7. Apart(g)
  BY <1>1, <1>2 DEF Apart, MapInv, MapTypeOK
<1>8. Sees(g)
  BY <1>2, <1>6, <1>7 DEF Sees, FoundShape, SeenInv
<1>9. Result' = Result
  BY <1>2 DEF Result
<1> QED BY <1>2, <1>6, <1>8, <1>9 DEF Effect

LEMMA AddKeySim ==
  ASSUME MapInv, SeenInv, NEW g \in Goroutines, AddKey(g)
  PROVE  Sees(g) /\ Effect(g)
<1> DEFINE k == key(g)
           e == Fresh
<1>1. /\ mpc[g] = "add" /\ k \in Keys /\ kind(g) \in {"store", "loadorstore"}
      /\ dirty # NoEntry /\ dirty \in Tables /\ ~In(k, read.m) /\ ~In(k, dirty)
      /\ Found(g, k, g) /\ left' = left
  BY KeyFact DEF AddKey, MapInv, MapTypeOK, CallShape, UnderMu
<1>2. /\ read' = [read EXCEPT !.amended = TRUE]
      /\ dirty' = [dirty EXCEPT ![k] = e]
      /\ pointer' = [pointer EXCEPT ![e] = g]
      /\ e \in Entries \ Used
  BY DEF AddKey, Fresh
<1> HIDE DEF e
<1>3. /\ read'.m = read.m /\ dirty' \in Tables /\ dirty' # NoEntry
      /\ \A j \in Keys : dirty'[j] = IF j = k THEN e ELSE dirty[j]
  BY <1>1, <1>2 DEF MapInv, MapTypeOK, Tables
<1>4. pointer'[e] = g /\ \A d \in Entries : d # e => pointer'[d] = pointer[d]
  BY <1>2 DEF MapInv, MapTypeOK
<1>5. e \in Entries /\ \A j \in Keys : ~Refers(e, j)
  BY <1>2, UsedFact
<1>6. \A j \in Keys : Current(j)' = IF j = k THEN e ELSE Current(j)
  <2>1. ASSUME NEW j \in Keys, j = k
        PROVE  Current(j)' = e
    BY <1>1, <1>3, <1>5, <2>1 DEF Current, In
  <2>2. ASSUME NEW j \in Keys, j # k
        PROVE  Current(j)' = Current(j)
    BY <1>1, <1>3, <2>2 DEF Current, In
  <2> QED BY <2>1, <2>2
<1>7. KeepsValues /\ Content' = [Content EXCEPT ![k] = ValueOf(pointer'[e])]
  BY <1>1, <1>4, <1>5, <1>6, NewValue
<1>8. Content' = [Content EXCEPT ![k] = g]
  BY <1>4, <1>7 DEF ValueOf, Valid
<1>9. g = Abstract!Written(g, Content[k])
  <2>1. Content[k] = NoValue
    BY <1>1, CurrentFact DEF Current
  <2> QED BY <1>1, <2>1 DEF Abstract!Written, kind
<1>10. Sees(g) /\ mcall' = mcall /\ Result[g] = BlankMap(NoCall)
       /\ Result' = [Result EXCEPT ![g] = [BlankMap(NoCall) EXCEPT ![k] = g]]
  BY <1>1, <1>7, FoundSees
<1>11. Abstract!Write(g)
  BY <1>1, <1>8, <1>9, <1>10, Writes
<1> QED BY <1>10, <1>11 DEF Effect

\* Range begins to iterate over the read map, which has all the keys.
LEMMA IterateSees ==
  ASSUME MapInv, SeenInv, NEW g \in Goroutines, mpc[g] \in {"start", "lock"},
         held' = [held EXCEPT ![g] = read'.m], left' = [left EXCEPT ![g] = Keys],
         MapGoto(g, "iterate"), found' = found, KeepsValues,
         read'.m # NoEntry, \A k \in Keys : read'.m[k] = NoEntry => ~In(k, dirty')
  PROVE  Sees(g) /\ mcall' = mcall /\ Result' = Result
<1>1. /\ mpc'[g] = "iterate" /\ mcall' = mcall /\ held'[g] = read'.m /\ left'[g] = Keys
      /\ \A h \in Goroutines \ {g} : mpc'[h] = mpc[h] /\ held'[h] = held[h] /\ left'[h] = left[h]
  BY DEF MapGoto, MapInv, MapTypeOK
<1>2. found[g] = BlankMap(NoCall)
  BY DEF SeenInv, FoundShape
<1>3. Result' = Result
  BY <1>1 DEF Result
<1>4. Apart(g) /\ FoundShape(g)'
  BY <1>1, <1>2, BlankFact DEF Apart, FoundShape
<1>5. ASSUME NEW k \in Keys, held'[g][k] # NoEntry
      PROVE  held'[g][k] = Current(k)'
  BY <1>1, <1>5 DEF Current, In
<1>6. ASSUME NEW k \in Keys, held'[g][k] = NoEntry
      PROVE  Content'[k] = NoValue
  <2>1. Current(k)' = NoEntry
    BY <1>1, <1>6 DEF Current, In
  <2> QED BY <2>1 DEF Content
<1> QED BY <1>1, <1>3, <1>4, <1>5, <1>6 DEF Sees

LEMMA RangeStartSim ==
  ASSUME MapInv, SeenInv, NEW g \in Goroutines, RangeStart(g)
  PROVE  Sees(g) /\ Effect(g)
<1>1. mpc[g] = "start" /\ UNCHANGED <<pointer, read, dirty, found>>
  BY DEF RangeStart
<1>2. KeepsValues /\ Content' = Content
  BY <1>1, NothingChanges
<1>3. CASE read.amended
  <2>1. MapGoto(g, "lock") /\ UNCHANGED <<held, left>>
    BY <1>3 DEF RangeStart
  <2> QED BY <1>1, <1>2, <2>1, GoesSees DEF Effect
<1>4. CASE ~read.amended
  <2>1. /\ held' = [held EXCEPT ![g] = read'.m] /\ left' = [left EXCEPT ![g] = Keys]
        /\ MapGoto(g, "iterate") /\ read'.m # NoEntry
    BY <1>1, <1>4, TableFact DEF RangeStart
  <2>2. \A k \in Keys : read'.m[k] = NoEntry => ~In(k, dirty')
    BY <1>1, <1>4 DEF MapInv, DirtyLive, In
  <2> QED BY <1>1, <1>2, <2>1, <2>2, IterateSees DEF Effect
<1> QED BY <1>3, <1>4

LEMMA RangePromoteSim ==
  ASSUME MapInv, SeenInv, NEW g \in Goroutines, RangePromote(g)
  PROVE  Sees(g) /\ Effect(g)
<1>1. /\ Enter(g) /\ mpc[g] = "lock" /\ UNCHANGED <<pointer, found>>
      /\ held' = [held EXCEPT ![g] = read'.m] /\ left' = [left EXCEPT ![g] = Keys]
      /\ MapGoto(g, "iterate") /\ \A h \in Goroutines : mpc[h] # "add"
  BY EnterFact DEF RangePromote
<1>2. CASE read.amended
  <2>1. read' = Promoted /\ dirty' = NoEntry /\ dirty # NoEntry
    BY <1>2 DEF RangePromote, MapInv, DirtyLive
  <2>2. KeepsValues /\ Content' = Content
    BY <1>1, <2>1, PromotedValues
  <2>3. read'.m # NoEntry /\ \A k \in Keys : ~In(k, dirty')
    BY <2>1 DEF Promoted, In
  <2> QED BY <1>1, <2>2, <2>3, IterateSees DEF Effect
<1>3. CASE ~read.amended
  <2>1. UNCHANGED <<read, dirty>>
    BY <1>3 DEF RangePromote
  <2>2. KeepsValues /\ Content' = Content
    BY <1>1, <2>1, NothingChanges
  <2>3. read'.m # NoEntry /\ \A k \in Keys : read'.m[k] = NoEntry => ~In(k, dirty')
    BY <1>3, <2>1, TableFact DEF MapInv, DirtyLive, In
  <2> QED BY <1>1, <2>2, <2>3, IterateSees DEF Effect
<1> QED BY <1>2, <1>3

LEMMA RangeNextSim ==
  ASSUME MapInv, SeenInv, NEW g \in Goroutines, RangeNext(g)
  PROVE  Sees(g) /\ Effect(g)
<1>1. PICK k \in left[g] :
        /\ left' = [left EXCEPT ![g] = @ \ {k}]
        /\ held' = [held EXCEPT ![g][k] = NoEntry]
        /\ found' = [found EXCEPT ![g][k] =
                       IF held[g][k] = NoEntry THEN NoValue ELSE ValueOf(pointer[held[g][k]])]
  BY DEF RangeNext, Hold
<1> DEFINE v == IF held[g][k] = NoEntry THEN NoValue ELSE ValueOf(pointer[held[g][k]])
<1>2. /\ mpc[g] = "iterate" /\ k \in Keys /\ mcall[g] # NoCall /\ mcall[g][1] = "range"
      /\ mcall[g][2] = Keys
      /\ UNCHANGED <<pointer, read, dirty>>
  BY CallFact DEF RangeNext, MapInv, MapTypeOK, CallShape, kind
<1>3. KeepsValues /\ Content' = Content
  BY <1>2, NothingChanges
<1>4. v \in seen[g][k] /\ v \in Goroutines \cup {NoValue}
  <2>1. v \in seen[g][k]
    BY <1>2 DEF SeenInv, SeenHeld
  <2> QED BY <1>2, <2>1 DEF SeenInv
<1>5. /\ left'[g] = left[g] \ {k}
      /\ found'[g][k] = v /\ \A j \in Keys : j # k => found'[g][j] = found[g][j]
      /\ found' \in [Goroutines -> [Keys -> Goroutines \cup {NoValue, NoCall}]]
      /\ \A h \in Goroutines \ {g} :
           held'[h] = held[h] /\ left'[h] = left[h] /\ found'[h] = found[h]
  <2>1. found' = [found EXCEPT ![g][k] = v]
    BY <1>1
  <2> HIDE DEF v
  <2> QED BY <1>1, <1>2, <1>4, <2>1 DEF MapInv, MapTypeOK
<1>6. held'[g][k] = NoEntry /\ \A j \in Keys : j # k => held'[g][j] = held[g][j]
  <2>1. held'[g] = [held[g] EXCEPT ![k] = NoEntry] /\ held[g] \in [Keys -> Entries \cup {NoEntry}]
    BY <1>1 DEF MapInv, MapTypeOK, Tables
  <2> QED BY <1>2, <2>1
<1> HIDE DEF v
<1>7. \A j \in Keys : j \notin left'[g] => found'[g][j] \in seen[g][j]
  BY <1>2, <1>4, <1>5 DEF SeenInv, SeenHeld
<1>8. v # NoCall
  BY <1>4
<1>9. Result[g] = BlankMap(NoCall)
  BY <1>2 DEF Result
<1>10. CASE left'[g] # {}
  <2>1. mpc' = [mpc EXCEPT ![g] = "iterate"] /\ mcall' = mcall
    BY <1>10 DEF RangeNext, MapGoto
  <2>2. mpc' = mpc
    BY <1>2, <2>1 DEF MapInv, MapTypeOK
  <2>3. FoundShape(g)'
    <3>1. \A j \in left'[g] : found'[g][j] = NoCall
      BY <1>2, <1>5 DEF SeenInv, FoundShape, MapInv, MapTypeOK
    <3> QED BY <1>2, <1>10, <2>2, <3>1 DEF FoundShape
  <2>4. ASSUME NEW j \in Keys
        PROVE  IF j \in left'[g] THEN held'[g][j] = NoEntry => NoValue \in seen[g][j]
               ELSE found'[g][j] \in seen[g][j]
    BY <1>2, <1>5, <1>6, <1>7 DEF SeenInv, SeenHeld
  <2>5. Sees(g)
    BY <1>3, <1>5, <1>6, <2>2, <2>3, <2>4 DEF Sees, Apart
  <2>6. Result' = Result
    BY <1>2, <1>5, <2>2 DEF Result
  <2> QED BY <1>3, <2>1, <2>5, <2>6 DEF Effect
<1>11. CASE left'[g] = {}
  <2>1. mpc' = [mpc EXCEPT ![g] = "return"] /\ mcall' = mcall
    BY <1>11 DEF RangeNext, MapGoto
  <2>2. mpc'[g] = "return" /\ \A h \in Goroutines \ {g} : mpc'[h] = mpc[h]
    BY <2>1 DEF MapInv, MapTypeOK
  <2>3. found'[g] # BlankMap(NoCall)
    BY <1>2, <1>5, <1>8, BlankFact
  <2>4. FoundShape(g)'
    BY <2>2, <2>3 DEF FoundShape
  <2>5. Sees(g)
    BY <1>3, <1>5, <1>6, <2>2, <2>4 DEF Sees, Apart
  <2>6. Result' = [Result EXCEPT ![g] = found'[g]]
    BY <1>5, <2>2 DEF Result
  <2>7. Abstract!Pending(g)
    BY <1>2, <1>9 DEF Abstract!Pending, Abstract!Blank, BlankMap
  <2>8. /\ found'[g] \in [Keys -> Goroutines \cup {NoValue, NoCall}]
        /\ \A j \in Keys :
             IF j \notin mcall[g][2] THEN found'[g][j] = NoCall
             ELSE /\ found'[g][j] \in seen[g][j]
                  /\ mcall[g][1] \in {"load", "range"} \/ found'[g][j] = Abstract!Written(g, found'[g][j])
    BY <1>2, <1>5, <1>7, <1>11
  <2>9. Abstract!Read(g)
    BY <1>3, <2>1, <2>6, <2>7, <2>8 DEF Abstract!Read
  <2> QED BY <2>5, <2>9 DEF Effect
<1> QED BY <1>10, <1>11

LEMMA MapReturnSim ==
  ASSUME MapInv, SeenInv, NEW g \in Goroutines, MapReturn(g)
  PROVE  Sees(g) /\ Effect(g)
<1>1. /\ mpc[g] = "return" /\ mcall[g] # NoCall
      /\ pointer' = [e \in Entries |-> IF e \in Used THEN pointer[e] ELSE NoValue]
      /\ mpc' = [mpc EXCEPT ![g] = "idle"] /\ mcall' = [mcall EXCEPT ![g] = NoCall]
      /\ found' = [found EXCEPT ![g] = BlankMap(NoCall)]
      /\ UNCHANGED <<read, dirty, held, left>>
  BY DEF MapReturn, MapInv, CallShape
<1>2. \A e \in Entries, k \in Keys : Refers(e, k) => pointer'[e] = pointer[e]
  BY <1>1, UsedFact
<1>3. \A k \in Keys : Current(k)' = Current(k)
  BY <1>1 DEF Current, In
<1>4. KeepsValues /\ Content' = Content
  <2>1. \A e \in Entries, k \in Keys : Refers(e, k) => ValueOf(pointer'[e]) = ValueOf(pointer[e])
    BY <1>2
  <2> QED BY <1>3, <2>1, SameValues
<1>5. /\ mpc'[g] = "idle" /\ found'[g] = BlankMap(NoCall)
      /\ \A h \in Goroutines \ {g} : mpc'[h] = mpc[h] /\ found'[h] = found[h]
  BY <1>1 DEF MapInv, MapTypeOK
<1>6. Sees(g)
  BY <1>1, <1>4, <1>5 DEF Sees, Apart, FoundShape
<1>7. Result' = [Result EXCEPT ![g] = BlankMap(NoCall)]
  BY <1>5 DEF Result
<1>8. Result[g] # BlankMap(NoCall)
  BY <1>1 DEF Result, SeenInv, FoundShape
<1>9. Abstract!Return(g)
  BY <1>1, <1>4, <1>7, <1>8 DEF Abstract!Return, Abstract!Pending, Abstract!Blank, BlankMap
<1> QED BY <1>6, <1>9 DEF Effect

LEMMA SyncMapStepSim ==
  ASSUME MapInv, SeenInv, NEW g \in Goroutines, SyncMapStep(g)
  PROVE  Sees(g) /\ Effect(g)
BY MapLookupSim, LoadEntrySim, DeleteEntrySim, StoreEntrySim, LoadLockedSim, DeleteLockedSim,
   UnexpungeSim, PutLockedSim, PutDirtySim, MissLockedSim, NewKeySim, ExpungeLockedSim,
   AddKeySim, RangeStartSim, RangePromoteSim, RangeNextSim, MapReturnSim
   DEF SyncMapStep

LEMMA MapInitSim == MapClientsInit => SeenInv /\ Abstract!MapSpecInit
<1> SUFFICES ASSUME MapClientsInit
             PROVE  SeenInv /\ Abstract!MapSpecInit
  OBVIOUS
<1>1. MapInit /\ seen = [g \in Goroutines |-> BlankMap({})]
  BY DEF MapClientsInit
<1>2. \A k \in Keys : Current(k) = NoEntry
  BY <1>1, BlankFact DEF MapInit, Current, In
<1>3. Content = BlankMap(NoValue)
  BY <1>2 DEF Content, BlankMap
<1>4. Result = [g \in Goroutines |-> BlankMap(NoCall)]
  BY <1>1 DEF MapInit, Result
<1>5. \A g \in Goroutines, k \in Keys : seen[g][k] = {} /\ held[g][k] = NoEntry
  BY <1>1, BlankFact DEF MapInit
<1>6. seen \in [Goroutines -> [Keys -> SUBSET (Goroutines \cup {NoValue})]]
  BY <1>1 DEF BlankMap
<1>7. \A g \in Goroutines : FoundShape(g) /\ SeenNow(g) /\ SeenHeld(g)
  BY <1>1, <1>5 DEF MapInit, FoundShape, SeenNow, SeenHeld, InProgress
<1> QED BY <1>1, <1>3, <1>4, <1>6, <1>7
        DEF SeenInv, MapInit, Abstract!MapSpecInit, Abstract!Blank, BlankMap

LEMMA MapNextSim ==
  MapInv /\ MapInv' /\ SeenInv /\ [MapClientsNext]_mapClientVars
    => SeenInv' /\ [Abstract!MapSpecNext]_(Abstract!mapSpecVars)
<1> SUFFICES ASSUME MapInv, MapInv', SeenInv, [MapClientsNext]_mapClientVars
             PROVE  SeenInv' /\ [Abstract!MapSpecNext]_(Abstract!mapSpecVars)
  OBVIOUS
<1>1. CASE MapClientsNext
  <2>1. PICK g \in Goroutines : SyncMapStep(g) \/ \E c \in MapCalls[g] : MapCall(g, c)
    BY <1>1 DEF MapClientsNext
  <2>2. seen' = Abstract!Watch(mcall', seen, Result', Content')
    BY <1>1 DEF MapClientsNext
  <2>3. Sees(g) /\ Effect(g)
    BY <2>1, SyncMapStepSim, MapCallSim
  <2> QED BY <2>2, <2>3, SeenStep, EffectStep
<1>2. CASE UNCHANGED mapClientVars
  <2>1. UNCHANGED <<pointer, read, dirty, mpc, mcall, held, left, found, seen>>
    BY <1>2 DEF mapClientVars, syncMapVars
  <2>2. Content' = Content
    BY <2>1, NothingChanges
  <2>3. Result' = Result
    BY <2>1 DEF Result
  <2>4. SeenInv'
    BY <2>1, <2>2 DEF SeenInv, FoundShape, SeenNow, SeenHeld, InProgress, ValueOf, Valid
  <2>5. UNCHANGED Abstract!mapSpecVars
    BY <2>1, <2>2, <2>3 DEF Abstract!mapSpecVars
  <2> QED BY <2>4, <2>5
<1> QED BY <1>1, <1>2

\* sync.Map implements a map whose calls take effect at one moment, for any number
\* of goroutines, keys and calls.
THEOREM SyncMapImplementsMap == SyncMapSpec => ImplementsMap
<1>1. MapClientsInit => MapInv /\ SeenInv /\ Abstract!MapSpecInit
  BY MapInitInv, MapInitSim DEF MapClientsInit
<1>2. MapInv /\ SeenInv /\ [MapClientsNext]_mapClientVars
        => MapInv' /\ SeenInv' /\ [Abstract!MapSpecNext]_(Abstract!mapSpecVars)
  BY MapNextInv, MapNextSim
<1> QED BY <1>1, <1>2, PTL DEF SyncMapSpec, ImplementsMap, Abstract!MapOfKeys
=============================================================================
