------------------------------ MODULE MapSpec ------------------------------
(***************************************************************************)
(* What a sync.Map promises (sync/map.go:11-13 and the comments of its     *)
(* methods): a map.  A call that writes takes effect once, at a moment     *)
(* between its start and its end; a call that only reads returns what its  *)
(* key had at such a moment; Range does so for each key by itself.         *)
(* Goroutines store their own name.                                        *)
(***************************************************************************)
EXTENDS Program

CONSTANTS
  Keys,
  NoValue,       \* the key has no value
  NoCall      \* no call in progress, no result

VARIABLES
  content,    \* content[k]: the value of k
  call,       \* the call of each goroutine, its kind and the keys it is about
  seen,       \* seen[g][k]: the values k has had since the call of g began
  result      \* result[g][k]: the value of k that the call of g has set or found

mapSpecVars == <<content, call, seen, result>>

Calls ==
  ({"load", "store", "loadorstore", "delete"} \X {{k} : k \in Keys}) \cup {<<"range", Keys>>}

Blank(v) == [k \in Keys |-> v]

MapSpecInit ==
  /\ content = Blank(NoValue)
  /\ call = [g \in Goroutines |-> NoCall]
  /\ seen = [g \in Goroutines |-> Blank({})]
  /\ result = [g \in Goroutines |-> Blank(NoCall)]

\* What the calls that have no result yet see of the map.
Watch(c, s, r, m) ==
  [g \in Goroutines |-> [k \in Keys |->
     IF c[g] # NoCall /\ r[g] = Blank(NoCall) /\ k \in c[g][2] THEN s[g][k] \cup {m[k]}
     ELSE {}]]

Observed == seen' = Watch(call', seen, result', content')

Start(g) ==
  /\ call[g] = NoCall
  /\ \E c \in Calls : call' = [call EXCEPT ![g] = c]
  /\ UNCHANGED <<content, result>>

\* What a writing call of g makes of a value.
Written(g, v) ==
  CASE call[g][1] = "store" -> g
    [] call[g][1] = "loadorstore" -> IF v = NoValue THEN g ELSE v
    [] call[g][1] = "delete" -> NoValue

Pending(g) == call[g] # NoCall /\ result[g] = Blank(NoCall)

Write(g) ==
  /\ Pending(g)
  /\ call[g][1] \in {"store", "loadorstore", "delete"}
  /\ \E k \in call[g][2] :
       /\ content' = [content EXCEPT ![k] = Written(g, @)]
       /\ result' = [result EXCEPT ![g][k] = content'[k]]
  /\ UNCHANGED call

\* The result of a call that changes nothing.
Read(g) ==
  /\ Pending(g)
  /\ \E r \in [Keys -> Goroutines \cup {NoValue, NoCall}] :
       /\ \A k \in Keys :
            IF k \notin call[g][2] THEN r[k] = NoCall
            ELSE /\ r[k] \in seen[g][k]
                 /\ call[g][1] \in {"load", "range"} \/ r[k] = Written(g, r[k])
       /\ result' = [result EXCEPT ![g] = r]
  /\ UNCHANGED <<content, call>>

Return(g) ==
  /\ call[g] # NoCall /\ ~Pending(g)
  /\ call' = [call EXCEPT ![g] = NoCall]
  /\ result' = [result EXCEPT ![g] = Blank(NoCall)]
  /\ UNCHANGED content

MapSpecNext ==
  (\E g \in Goroutines : Start(g) \/ Write(g) \/ Read(g) \/ Return(g)) /\ Observed

MapOfKeys == MapSpecInit /\ [][MapSpecNext]_mapSpecVars
=============================================================================
