------------------------------ MODULE SyncMap ------------------------------
(***************************************************************************)
(* sync.Map (sync/map.go): a read map that is used without a lock, a dirty *)
(* map under mu that takes its place when enough loads have missed it, and *)
(* entries that both of them point to.                                     *)
(*                                                                         *)
(* A step is one access to what is used without mu (the read field, the    *)
(* pointer of an entry), with the accesses under mu that come before or    *)
(* after it in the same critical section.  An entry is allocated from the  *)
(* entries that nothing refers to any more.                                *)
(***************************************************************************)
EXTENDS Program, Naturals, FiniteSets

CONSTANTS
  Keys,
  Entries,      \* the memory for entries
  NoValue,         \* nil: the entry has no value
  Expunged,
  NoEntry,      \* the key is not in a map; for a map, nil
  NoCall,
  NoHolder

\* What a map of the implementation may be.
Tables == [Keys -> Entries \cup {NoEntry}]

ASSUME MapAssumption ==
  /\ Keys # {}
  /\ NoEntry \notin Entries /\ \A m \in Tables : m # NoEntry
  /\ NoHolder \notin Goroutines
  /\ Goroutines \cap {NoValue, Expunged, NoCall} = {}
  /\ NoValue # Expunged /\ NoValue # NoCall

VARIABLES
  pointer,      \* e.p, for each entry
  read,         \* m.read: its map and amended
  dirty,        \* m.dirty, NoEntry for nil
  misses,       \* m.misses
  mu,           \* the goroutine that holds m.mu, or NoHolder
  mpc,          \* where each goroutine is in its call, "idle" outside one
  mcall,        \* the call: its kind and the keys it is about
  held,         \* held[g][k]: the entry that g has looked up for k, or NoEntry
  left,         \* the keys that a loop of g has still to visit
  found         \* found[g][k]: the value of k that the call has set or found

syncMapVars ==
  <<pointer, read, dirty, misses, mu, mpc, mcall, held, left, found>>

BlankMap(v) == [k \in Keys |-> v]

MapInit ==
  /\ pointer = [e \in Entries |-> NoValue]
  /\ read = [m |-> BlankMap(NoEntry), amended |-> FALSE]
  /\ dirty = NoEntry
  /\ misses = 0
  /\ mu = NoHolder
  /\ mpc = [g \in Goroutines |-> "idle"]
  /\ mcall = [g \in Goroutines |-> NoCall]
  /\ held = [g \in Goroutines |-> BlankMap(NoEntry)]
  /\ left = [g \in Goroutines |-> {}]
  /\ found = [g \in Goroutines |-> BlankMap(NoCall)]

kind(g) == mcall[g][1]
key(g) == CHOOSE k \in mcall[g][2] : TRUE
In(k, m) == m # NoEntry /\ m[k] # NoEntry
entry(g) == held[g][key(g)]

MapGoto(g, label) == mpc' = [mpc EXCEPT ![g] = label] /\ UNCHANGED mcall

\* The call knows its result v for k and returns next.
Found(g, k, v) ==
  /\ found' = [found EXCEPT ![g][k] = v]
  /\ held' = [held EXCEPT ![g] = BlankMap(NoEntry)]
  /\ MapGoto(g, "return")

Hold(g, k, e) == held' = [held EXCEPT ![g][k] = e]

MapCall(g, c) ==
  /\ mpc[g] = "idle"
  /\ mpc' = [mpc EXCEPT ![g] = "start"]
  /\ mcall' = [mcall EXCEPT ![g] = c]
  /\ UNCHANGED <<pointer, read, dirty, misses, mu, held, left, found>>

EntriesOf(m) == IF m = NoEntry THEN {} ELSE {m[k] : k \in Keys}

Used == EntriesOf(read.m) \cup EntriesOf(dirty) \cup UNION {EntriesOf(held[g]) : g \in Goroutines}

\* The call returns.  Entries that nothing refers to are collected.
MapReturn(g) ==
  /\ mpc[g] = "return"
  /\ pointer' = [e \in Entries |-> IF e \in Used THEN pointer[e] ELSE NoValue]
  /\ mpc' = [mpc EXCEPT ![g] = "idle"]
  /\ mcall' = [mcall EXCEPT ![g] = NoCall]
  /\ found' = [found EXCEPT ![g] = BlankMap(NoCall)]
  /\ UNCHANGED <<read, dirty, misses, mu, held, left>>

\* The look-up in the read map without the lock.  Load and Delete need the lock
\* only if the dirty map may have the key, the calls that store always.
MapLookup(g) ==
  /\ mpc[g] = "start" /\ kind(g) # "range"
  /\ LET k == key(g)
     IN  IF In(k, read.m) THEN Hold(g, k, read.m[k]) /\ MapGoto(g, "entry") /\ UNCHANGED found
         ELSE IF read.amended \/ kind(g) \in {"store", "loadorstore"}
           THEN MapGoto(g, "lock") /\ UNCHANGED <<held, found>>
           ELSE Found(g, k, NoValue)
  /\ UNCHANGED <<pointer, read, dirty, misses, mu, left>>

-----------------------------------------------------------------------------
(* Operations on an entry, each the load or the swap at which it takes     *)
(* effect.                                                                 *)

Valid(v) == v \notin {NoValue, Expunged}
ValueOf(v) == IF Valid(v) THEN v ELSE NoValue

\* e.load
LoadEntry(g) ==
  /\ mpc[g] = "entry" /\ kind(g) = "load"
  /\ Found(g, key(g), ValueOf(pointer[entry(g)]))
  /\ UNCHANGED <<pointer, read, dirty, misses, mu, left>>

\* e.delete
DeleteEntry(g) ==
  /\ mpc[g] = "entry" /\ kind(g) = "delete"
  /\ pointer' = [pointer EXCEPT ![entry(g)] = IF @ = Expunged THEN @ ELSE NoValue]
  /\ Found(g, key(g), NoValue)
  /\ UNCHANGED <<read, dirty, misses, mu, left>>

\* Mutant: tryStore stores to an expunged entry too.
StoreEntryExpunged(g) ==
  /\ mpc[g] = "entry" /\ kind(g) \in {"store", "loadorstore"}
  /\ pointer' = [pointer EXCEPT ![entry(g)] = g]
  /\ Found(g, key(g), g)
  /\ UNCHANGED <<read, dirty, misses, mu, left>>

\* What storeLocked, tryStore and tryLoadOrStore leave in an entry that is not
\* expunged.
Put(g, v) == IF kind(g) = "store" \/ v = NoValue THEN g ELSE v

\* e.tryStore and e.tryLoadOrStore, which do not touch an expunged entry.
StoreEntry(g) ==
  /\ mpc[g] = "entry" /\ kind(g) \in {"store", "loadorstore"}
  /\ LET e == entry(g)
     IN  IF pointer[e] = Expunged
           THEN /\ MapGoto(g, "lock")
                /\ held' = [held EXCEPT ![g] = BlankMap(NoEntry)]
                /\ UNCHANGED <<pointer, found>>
           ELSE /\ pointer' = [pointer EXCEPT ![e] = Put(g, @)]
                /\ Found(g, key(g), Put(g, pointer[e]))
  /\ UNCHANGED <<read, dirty, misses, mu, left>>

-----------------------------------------------------------------------------
(* Critical sections.                                                      *)

Promoted == [m |-> dirty, amended |-> FALSE]

DirtyLen == Cardinality({k \in Keys : In(k, dirty)})

\* missLocked
Miss ==
  IF misses + 1 < DirtyLen
    THEN misses' = misses + 1 /\ UNCHANGED <<read, dirty>>
    ELSE read' = Promoted /\ dirty' = NoEntry /\ misses' = 0

Enter(g) == mpc[g] = "lock" /\ mu = NoHolder

\* Load: read and dirty are looked up again; if the key had to be looked for in
\* dirty that is a miss.
LoadLocked(g) ==
  /\ Enter(g) /\ kind(g) = "load"
  /\ LET k == key(g)
         inDirty == ~In(k, read.m) /\ read.amended
         m == IF inDirty THEN dirty ELSE read.m
     IN  /\ IF inDirty THEN Miss ELSE UNCHANGED <<read, dirty, misses>>
         /\ IF In(k, m) THEN Hold(g, k, m[k]) /\ MapGoto(g, "entry") /\ UNCHANGED found
            ELSE Found(g, k, NoValue)
  /\ UNCHANGED <<pointer, mu, left>>

DeleteLocked(g) ==
  /\ Enter(g) /\ kind(g) = "delete"
  /\ LET k == key(g)
     IN  IF In(k, read.m)
           THEN Hold(g, k, read.m[k]) /\ MapGoto(g, "entry") /\ UNCHANGED <<dirty, found>>
           ELSE /\ dirty' = IF read.amended THEN [dirty EXCEPT ![k] = NoEntry] ELSE dirty
                /\ Found(g, k, NoValue)
  /\ UNCHANGED <<pointer, read, misses, mu, left>>

\* Mutant: an entry that is unexpunged is not put back into the dirty map.
UnexpungeOnly(g) ==
  /\ Enter(g) /\ kind(g) \in {"store", "loadorstore"} /\ In(key(g), read.m)
  /\ LET e == read.m[key(g)]
     IN  /\ pointer' = [pointer EXCEPT ![e] = IF @ = Expunged THEN NoValue ELSE @]
         /\ Hold(g, key(g), e)
  /\ mu' = g
  /\ MapGoto(g, "put")
  /\ UNCHANGED <<read, dirty, misses, left, found>>

\* Store and LoadOrStore of a key of the read map: unexpungeLocked, and the entry
\* goes into dirty again.
Unexpunge(g) ==
  /\ Enter(g) /\ kind(g) \in {"store", "loadorstore"} /\ In(key(g), read.m)
  /\ LET k == key(g)  e == read.m[k]
     IN  /\ pointer' = [pointer EXCEPT ![e] = IF @ = Expunged THEN NoValue ELSE @]
         /\ dirty' = IF pointer[e] = Expunged THEN [dirty EXCEPT ![k] = e] ELSE dirty
         /\ Hold(g, k, e)
  /\ mu' = g
  /\ MapGoto(g, "put")
  /\ UNCHANGED <<read, misses, left, found>>

\* storeLocked or tryLoadOrStore, and the unlock.
PutLocked(g) ==
  /\ mpc[g] = "put"
  /\ pointer' = [pointer EXCEPT ![entry(g)] = Put(g, @)]
  /\ Found(g, key(g), Put(g, pointer[entry(g)]))
  /\ mu' = NoHolder
  /\ UNCHANGED <<read, dirty, misses, left>>

\* A key of the dirty map only.  LoadOrStore counts a miss before it unlocks.
PutDirty(g) ==
  /\ Enter(g) /\ kind(g) \in {"store", "loadorstore"}
  /\ ~In(key(g), read.m) /\ In(key(g), dirty)
  /\ LET k == key(g)  e == dirty[k]
     IN  /\ pointer' = [pointer EXCEPT ![e] = Put(g, @)]
         /\ found' = [found EXCEPT ![g][k] = Put(g, pointer[e])]
         /\ IF kind(g) = "store" THEN MapGoto(g, "return") /\ UNCHANGED mu
            ELSE MapGoto(g, "miss") /\ mu' = g
  /\ UNCHANGED <<read, dirty, misses, held, left>>

MissLocked(g) ==
  /\ mpc[g] = "miss"
  /\ Miss
  /\ mu' = NoHolder
  /\ MapGoto(g, "return")
  /\ UNCHANGED <<pointer, held, left, found>>

\* A new key.  The first one since dirty was promoted makes a new dirty map from
\* the read map (dirtyLocked), one entry after the other.
NewKey(g) ==
  /\ Enter(g) /\ kind(g) \in {"store", "loadorstore"}
  /\ ~In(key(g), read.m) /\ ~In(key(g), dirty)
  /\ mu' = g
  /\ MapGoto(g, "add")
  /\ IF ~read.amended /\ dirty = NoEntry
       THEN /\ dirty' = BlankMap(NoEntry)
            /\ left' = [left EXCEPT ![g] = {k \in Keys : In(k, read.m)}]
       ELSE UNCHANGED <<dirty, left>>
  /\ UNCHANGED <<pointer, read, misses, held, found>>

\* tryExpungeLocked of one entry.
ExpungeLocked(g) ==
  /\ mpc[g] = "add"
  /\ \E k \in left[g] :
       LET e == read.m[k]
       IN  /\ left' = [left EXCEPT ![g] = @ \ {k}]
           /\ IF Valid(pointer[e])
                THEN dirty' = [dirty EXCEPT ![k] = e] /\ UNCHANGED pointer
                ELSE pointer' = [pointer EXCEPT ![e] = Expunged] /\ UNCHANGED dirty
  /\ UNCHANGED <<read, misses, mu, mpc, mcall, held, found>>

\* newEntry.
Fresh == CHOOSE e \in Entries : e \notin Used

AddKey(g) ==
  /\ mpc[g] = "add" /\ left[g] = {}
  /\ Entries \ Used # {}
  /\ read' = [read EXCEPT !.amended = TRUE]
  /\ dirty' = [dirty EXCEPT ![key(g)] = Fresh]
  /\ pointer' = [pointer EXCEPT ![Fresh] = g]
  /\ mu' = NoHolder
  /\ Found(g, key(g), g)
  /\ UNCHANGED <<misses, left>>

\* Range iterates over the read map, once it has all the keys.
RangeStart(g) ==
  /\ mpc[g] = "start" /\ kind(g) = "range"
  /\ IF read.amended
       THEN MapGoto(g, "lock") /\ UNCHANGED <<held, left>>
       ELSE /\ held' = [held EXCEPT ![g] = read.m]
            /\ left' = [left EXCEPT ![g] = Keys]
            /\ MapGoto(g, "iterate")
  /\ UNCHANGED <<pointer, read, dirty, misses, mu, found>>

RangePromote(g) ==
  /\ Enter(g) /\ kind(g) = "range"
  /\ IF read.amended THEN read' = Promoted /\ dirty' = NoEntry /\ misses' = 0
     ELSE UNCHANGED <<read, dirty, misses>>
  /\ held' = [held EXCEPT ![g] = read'.m]
  /\ left' = [left EXCEPT ![g] = Keys]
  /\ MapGoto(g, "iterate")
  /\ UNCHANGED <<pointer, mu, found>>

RangeNext(g) ==
  /\ mpc[g] = "iterate"
  /\ \E k \in left[g] :
       /\ left' = [left EXCEPT ![g] = @ \ {k}]
       /\ Hold(g, k, NoEntry)
       /\ found' = [found EXCEPT ![g][k] =
                      IF held[g][k] = NoEntry THEN NoValue ELSE ValueOf(pointer[held[g][k]])]
  /\ MapGoto(g, IF left'[g] = {} THEN "return" ELSE "iterate")
  /\ UNCHANGED <<pointer, read, dirty, misses, mu>>

-----------------------------------------------------------------------------

SyncMapStep(g) ==
  \/ MapLookup(g) \/ LoadEntry(g) \/ DeleteEntry(g) \/ StoreEntry(g)
  \/ LoadLocked(g) \/ DeleteLocked(g)
  \/ Unexpunge(g) \/ PutLocked(g) \/ PutDirty(g) \/ MissLocked(g)
  \/ NewKey(g) \/ ExpungeLocked(g) \/ AddKey(g)
  \/ RangeStart(g) \/ RangePromote(g) \/ RangeNext(g)
  \/ MapReturn(g)

-----------------------------------------------------------------------------
(* Goroutines that call the methods of one map in any order, and what they may *)
(* rely on.                                                                    *)

CONSTANT MapCalls    \* the calls that each goroutine makes, again and again

VARIABLE
  seen          \* history: seen[g][k], the values k has had during the call of g

mapClientVars == <<syncMapVars, seen>>

\* The map that the callers see: the read map hides the dirty one.
Current(k) == IF In(k, read.m) THEN read.m[k] ELSE IF In(k, dirty) THEN dirty[k] ELSE NoEntry

Content == [k \in Keys |-> IF Current(k) = NoEntry THEN NoValue ELSE ValueOf(pointer[Current(k)])]

\* The results of the calls that have taken effect.
Result == [g \in Goroutines |-> IF mpc[g] \in {"miss", "return"} THEN found[g] ELSE BlankMap(NoCall)]

Abstract == INSTANCE MapSpec
  WITH content <- Content, call <- mcall, seen <- seen, result <- Result

ASSUME MapCallsAssumption ==
  /\ MapCalls \in [Goroutines -> SUBSET Abstract!Calls]
  /\ \A c \in Abstract!Calls : c # NoCall

MapClientsInit == MapInit /\ seen = [g \in Goroutines |-> BlankMap({})]

MapClientsNext ==
  /\ \E g \in Goroutines : SyncMapStep(g) \/ \E c \in MapCalls[g] : MapCall(g, c)
  /\ seen' = Abstract!Watch(mcall', seen, Result', Content')

-----------------------------------------------------------------------------

\* Every call has an effect or a result that the map had at one moment during
\* the call, whatever the read and the dirty map were doing (map.go:11-13,
\* 18-31): the map implements MapSpec.
ImplementsMap == Abstract!MapOfKeys

\* While there is a dirty map it has every entry of the read map that is not
\* expunged, deleted ones included, and in the place of an expunged one nothing
\* (map.go:43-49, 78-79), except for the entries that dirtyLocked is about to
\* look at.  map.go:76 says that there is no dirty map while the pointer of an
\* entry is nil; the code does not keep to that, nor need it: Delete makes the
\* pointer nil whether there is one or not (map.go:294), and the entry stays in
\* both maps.
DirtyComplete ==
  dirty # NoEntry =>
    \A k \in Keys :
      In(k, read.m) =>
        \/ \E g \in Goroutines : k \in left[g] /\ mpc[g] = "add"
        \/ dirty[k] = IF pointer[read.m[k]] = Expunged THEN NoEntry ELSE read.m[k]

\* An entry through which a call is going to write was found in a read map that
\* may be of the past; it is the entry of its key still, or it is expunged, or it
\* is out of both maps with no value, and a value stored there would be lost: the
\* last case does not happen (map.go:37-41, 177-183).
HoldsLiveEntries(g) ==
  \A k \in Keys :
    held[g][k] # NoEntry /\ kind(g) \in {"store", "loadorstore", "delete"} =>
      held[g][k] = read.m[k] \/ pointer[held[g][k]] = Expunged

\* The two maps and the calls under way agree on which entries are alive, so that
\* nothing that was stored is lost when the dirty map is promoted.
EntriesAlive == DirtyComplete /\ \A g \in Goroutines : HoldsLiveEntries(g)

MapTypeOK ==
  /\ pointer \in [Entries -> Goroutines \cup {NoValue, Expunged}]
  /\ read \in [m : Tables, amended : BOOLEAN]
  /\ dirty \in Tables \cup {NoEntry}
  /\ mu \in Goroutines \cup {NoHolder}
  /\ mpc \in [Goroutines -> {"idle", "start", "entry", "lock", "put", "miss", "add",
                             "iterate", "return"}]
  /\ mcall \in [Goroutines -> Abstract!Calls \cup {NoCall}]
  /\ held \in [Goroutines -> Tables]
  /\ left \in [Goroutines -> SUBSET Keys]
  /\ found \in [Goroutines -> [Keys -> Goroutines \cup {NoValue, NoCall}]]

\* What each kind of call does, and that mu is held by who is in a critical section.
CallShape(g) ==
  /\ mpc[g] = "idle" <=> mcall[g] = NoCall
  /\ mpc[g] \in {"put", "add"} => kind(g) \in {"store", "loadorstore"}
  /\ mpc[g] \in {"put", "add", "miss", "entry"} => kind(g) # "range"
  /\ mpc[g] = "iterate" => kind(g) = "range"
  /\ mu = g <=> mpc[g] \in {"put", "add", "miss"}
  /\ mpc[g] \in {"entry", "put"} => entry(g) # NoEntry
  /\ mpc[g] \notin {"add", "iterate"} => left[g] = {}
  /\ \A k \in Keys : held[g][k] # NoEntry =>
       \/ mpc[g] = "iterate" /\ k \in left[g]
       \/ mpc[g] \in {"entry", "put"} /\ k = key(g)

\* A map or a call takes e for the entry of k.
Refers(e, k) ==
  \/ In(k, read.m) /\ e = read.m[k]
  \/ In(k, dirty) /\ e = dirty[k]
  \/ \E g \in Goroutines : held[g][k] # NoEntry /\ e = held[g][k]

OneKeyEach == \A e \in Entries, j, k \in Keys : Refers(e, j) /\ Refers(e, k) => j = k

\* Only entries of the read map are expunged, and only while there is a dirty map.
DirtyLive ==
  /\ \A k \in Keys : In(k, dirty) => pointer[dirty[k]] # Expunged
  /\ \A k \in Keys : In(k, read.m) /\ pointer[read.m[k]] = Expunged => dirty # NoEntry
  /\ read.amended => dirty # NoEntry
  /\ \A k \in Keys : In(k, dirty) /\ ~read.amended => In(k, read.m)

\* What the holder of mu has found out holds until it lets go.
UnderMu(g) ==
  /\ mpc[g] \in {"add", "miss"} => dirty # NoEntry
  /\ mpc[g] = "add" =>
       /\ ~In(key(g), read.m) /\ ~In(key(g), dirty)
       /\ \A k \in left[g] : In(k, read.m) /\ ~In(k, dirty)
  /\ mpc[g] = "put" => entry(g) = read.m[key(g)] /\ pointer[entry(g)] # Expunged

MapInv ==
  /\ MapTypeOK /\ OneKeyEach /\ DirtyLive /\ EntriesAlive
  /\ \A g \in Goroutines : CallShape(g) /\ UnderMu(g)

\* What a call has found, and when.
FoundShape(g) ==
  /\ mpc[g] \notin {"iterate", "miss", "return"} => found[g] = BlankMap(NoCall)
  /\ mpc[g] \in {"miss", "return"} => found[g] # BlankMap(NoCall)
  /\ mpc[g] = "iterate" => left[g] # {} /\ \A k \in left[g] : found[g][k] = NoCall

InProgress(g) == mpc[g] \notin {"idle", "miss", "return"}

\* What a call has seen: the values that its keys have now, and through an entry
\* of the past only a value that the key has had during the call.
SeenNow(g) ==
  \A k \in Keys :
    IF InProgress(g) /\ k \in mcall[g][2] THEN Content[k] \in seen[g][k] ELSE seen[g][k] = {}

SeenHeld(g) ==
  /\ \A k \in Keys : held[g][k] # NoEntry => ValueOf(pointer[held[g][k]]) \in seen[g][k]
  /\ mpc[g] = "iterate" =>
       \A k \in Keys :
         IF k \in left[g] THEN held[g][k] = NoEntry => NoValue \in seen[g][k]
         ELSE found[g][k] \in seen[g][k]

SeenInv ==
  /\ seen \in [Goroutines -> [Keys -> SUBSET (Goroutines \cup {NoValue})]]
  /\ \A g \in Goroutines : FoundShape(g) /\ SeenNow(g) /\ SeenHeld(g)

SyncMapSpec == MapClientsInit /\ [][MapClientsNext]_mapClientVars
=============================================================================
