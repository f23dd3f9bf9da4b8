--------------------------- MODULE LibraryProofs ---------------------------
(***************************************************************************)
(* Proofs about packages above the primitives, for any program.  Contexts: *)
(* a cancel reaches everything below, and a cancelled context is released. *)
(* singleflight: callers are told the truth about who shares their result. *)
(* Signals: a Stop loses no signal that was queued for its channel.        *)
(***************************************************************************)
EXTENDS Context, SingleFlight, OSSignal, SequenceTheorems, FiniteSetTheorems, TLAPS

\* A step that is slow on one machine is given time on every one.
USE SMTT(40), ZenonT(40)

-----------------------------------------------------------------------------
(* How a step changes the calls of a thread.                               *)

\* The watcher of the context of a call that propagateCancel leaves.
Launched(h, t, d, f) ==
  /\ h = Watcher(f.ctx) /\ Depth(h) = 0 /\ Depth(h)' = 1
  /\ Frame(h, 1)' = Call("watch", f.ctx)
  /\ Frame(t, d).at = "propagate" /\ f.at = "arm"
  /\ Foreign(f.ctx) /\ parent(f.ctx) \in Contexts

Stays(h) == Depth(h)' = Depth(h) /\ \A j \in 1 .. Depth(h) : Frame(h, j)' = Frame(h, j)

\* From place d on, the calls of t become n calls, at most f and, within it, g.
Shape(t, d, n, f, g) ==
  /\ d \in Nat \ {0} /\ n \in 0 .. 2
  /\ Depth(t) = d \/ (Depth(t) = 0 /\ d = 1 /\ n > 0)
  /\ Depth(t)' = d - 1 + n
  /\ \A j \in 1 .. d - 1 : Frame(t, j)' = Frame(t, j)
  /\ n > 0 => Frame(t, d)' = f
  /\ n = 2 => Frame(t, d + 1)' = g
  /\ \A h \in Threads \ {t} : Stays(h) \/ (n = 1 /\ Launched(h, t, d, f))

\* Where the call at place j of h comes from.
From(h, j, t, d, n, f, g) ==
  \/ j \in 1 .. Depth(h) /\ Frame(h, j)' = Frame(h, j) /\ (h # t \/ j < d)
  \/ h = t /\ j = d /\ n > 0 /\ Frame(h, j)' = f
  \/ h = t /\ j = d + 1 /\ n = 2 /\ Frame(h, j)' = g
  \/ h # t /\ j = 1 /\ n = 1 /\ Launched(h, t, d, f)

\* Where it goes.
To(h, j, t, d) ==
  \/ h = t /\ j = d /\ Depth(t) = d
  \/ j \in 1 .. Depth(h)' /\ Frame(h, j)' = Frame(h, j) /\ (h # t \/ j < d)

CallsTyped == calls \in [Threads -> Seq(CallType)]
FramesTyped ==
  \A h \in Threads : Depth(h) \in Nat /\ \A j \in 1 .. Depth(h) : Frame(h, j) \in CallType

\* A call has a place, and the innermost one is at the end.
LEMMA FrameFact ==
  ASSUME calls \in [Threads -> Seq(CallType)], NEW t \in Threads
  PROVE  /\ Depth(t) \in Nat /\ \A j \in 1 .. Depth(t) : Frame(t, j) \in CallType
         /\ calls[t] # <<>> => Depth(t) > 0 /\ Top(t) = Frame(t, Depth(t)) /\ Top(t) \in CallType
         /\ calls[t] = <<>> => Depth(t) = 0
         /\ Depth(t) = 0 => calls[t] = <<>>
<1>1. calls[t] \in Seq(CallType)
  OBVIOUS
<1>2. Depth(t) \in Nat /\ Depth(t) = Len(calls[t])
  BY <1>1 DEF Depth
<1>3. ASSUME NEW j \in 1 .. Depth(t)
      PROVE  Frame(t, j) \in CallType
  <2>1. Depth(t) + 1 - j \in 1 .. Len(calls[t])
    BY <1>2
  <2> QED BY <1>1, <2>1 DEF Frame
<1>4. ASSUME calls[t] # <<>>
      PROVE  Depth(t) > 0 /\ Top(t) = Frame(t, Depth(t)) /\ Top(t) \in CallType
  <2>1. Depth(t) > 0
    BY <1>1, <1>2, <1>4
  <2>2. Depth(t) + 1 - Depth(t) = 1
    BY <1>2
  <2>3. Top(t) = calls[t][1]
    BY <1>1, <1>4 DEF Top
  <2>4. Top(t) = Frame(t, Depth(t))
    BY <2>2, <2>3 DEF Frame
  <2> QED BY <1>2, <1>3, <2>1, <2>4
<1>5. calls[t] = <<>> <=> Depth(t) = 0
  BY <1>1, <1>2
<1> QED BY <1>2, <1>3, <1>4, <1>5

\* The innermost call of t, at depth d, has become those in cs.
Deepened(t, d, cs) ==
  /\ calls' \in [Threads -> Seq(CallType)]
  /\ d \in Nat \ {0} /\ Len(cs) \in Nat /\ Depth(t)' = d - 1 + Len(cs)
  /\ \A j \in 1 .. d - 1 : Frame(t, j)' = Frame(t, j)
  /\ \A j \in Nat : d <= j /\ j < d + Len(cs) => Frame(t, j)' = cs[d + Len(cs) - j]
  /\ \A h \in Threads \ {t} : Stays(h)

\* Frame j, at or above the d-th, is one of the n new ones.
LEMMA NewFrame ==
  ASSUME NEW d \in Nat \ {0}, NEW n \in Nat, NEW j \in Nat, d <= j, j < d + n, NEW i, i = d + n - j
  PROVE  i \in 1 .. n + (d - 1) /\ i <= n
OBVIOUS

\* Where calls go as the innermost one of t becomes those in cs.
LEMMA BecomesFact ==
  ASSUME calls \in [Threads -> Seq(CallType)], NEW t \in Threads, calls[t] # <<>>,
         NEW cs \in Seq(CallType), Becomes(t, cs),
         NEW d, d = Depth(t)
  PROVE  Deepened(t, d, cs)
<1> DEFINE rest == Tail(calls[t])
           new == cs \o rest
<1>1. /\ calls[t] \in Seq(CallType) /\ calls'[t] = new
      /\ \A h \in Threads : h # t => calls'[h] = calls[h]
  BY DEF Becomes
<1>2. /\ rest \in Seq(CallType) /\ Len(rest) = d - 1 /\ d \in Nat \ {0}
      /\ \A i \in 1 .. d - 1 : rest[i] = calls[t][i + 1]
  BY <1>1, HeadTailProperties DEF Depth
<1> HIDE DEF rest
<1>3. /\ new \in Seq(CallType) /\ Len(new) = Len(cs) + (d - 1) /\ Len(cs) \in Nat
      /\ \A i \in 1 .. Len(cs) + (d - 1) :
           new[i] = IF i <= Len(cs) THEN cs[i] ELSE rest[i - Len(cs)]
  <2>1. /\ new \in Seq(CallType) /\ Len(new) = Len(cs) + Len(rest)
        /\ \A i \in 1 .. Len(cs) + Len(rest) :
             new[i] = IF i <= Len(cs) THEN cs[i] ELSE rest[i - Len(cs)]
    <3>1. rest \in Seq(CallType)
      BY <1>2
    <3> QED BY <3>1, ConcatProperties
  <2>2. Len(rest) = d - 1 /\ Len(cs) \in Nat
    BY <1>2
  <2> HIDE DEF new
  <2> QED BY <2>1, <2>2
<1> HIDE DEF new
<1>4. Depth(t)' = d - 1 + Len(cs)
  BY <1>1, <1>2, <1>3 DEF Depth
<1>5. ASSUME NEW j \in Int, NEW i, i = d + Len(cs) - j
      PROVE  Frame(t, j)' = new[i]
  <2>1. Frame(t, j)' = new[Depth(t)' + 1 - j]
    BY <1>1 DEF Frame
  <2>2. d - 1 + Len(cs) + 1 - j = i
    BY <1>2, <1>3, <1>5
  <2> QED BY <1>4, <2>1, <2>2
<1>6. ASSUME NEW j \in 1 .. d - 1
      PROVE  Frame(t, j)' = Frame(t, j)
  <2>1. PICK i \in Int : i = d + Len(cs) - j
    BY <1>2, <1>3, <1>6
  <2>2. /\ i \in 1 .. Len(cs) + (d - 1) /\ ~(i <= Len(cs)) /\ j \in Int
        /\ i - Len(cs) \in 1 .. d - 1 /\ i - Len(cs) + 1 = d + 1 - j
    <3>1. d \in Nat \ {0} /\ Len(cs) \in Nat /\ j \in Int /\ 1 <= j /\ j <= d - 1
      BY <1>2, <1>3, <1>6
    <3>2. \A n \in Nat : i = d + n - j =>
            /\ i \in 1 .. n + (d - 1) /\ ~(i <= n)
            /\ i - n \in 1 .. d - 1 /\ i - n + 1 = d + 1 - j
      BY <3>1
    <3> QED BY <2>1, <3>1, <3>2
  <2>3. new[i] = rest[i - Len(cs)] /\ rest[i - Len(cs)] = calls[t][i - Len(cs) + 1]
    BY <1>2, <1>3, <2>2
  <2> QED BY <1>5, <2>1, <2>2, <2>3 DEF Frame
<1>7. ASSUME NEW j \in Nat, d <= j, j < d + Len(cs)
      PROVE  Frame(t, j)' = cs[d + Len(cs) - j]
  <2>1. PICK i : i = d + Len(cs) - j
    OBVIOUS
  <2>2. i \in 1 .. Len(cs) + (d - 1) /\ i <= Len(cs) /\ j \in Int
    <3>1. d \in Nat \ {0} /\ Len(cs) \in Nat /\ j \in Int
      BY <1>2, <1>3
    <3> QED BY <1>7, <2>1, <3>1, NewFrame
  <2>3. new[i] = cs[i]
    BY <1>3, <2>2
  <2> QED BY <1>5, <2>1, <2>2, <2>3
<1>8. \A h \in Threads \ {t} : Stays(h)
  BY <1>1 DEF Stays, Depth, Frame
<1>9. calls' \in [Threads -> Seq(CallType)]
  BY <1>1, <1>3 DEF Becomes, new, rest
<1> QED BY <1>2, <1>3, <1>4, <1>6, <1>7, <1>8, <1>9 DEF Deepened

\* The innermost call returns.
LEMMA PopsFact ==
  ASSUME calls \in [Threads -> Seq(CallType)], NEW t \in Threads, calls[t] # <<>>, Becomes(t, <<>>),
         NEW d, d = Depth(t), NEW f
  PROVE  Shape(t, d, 0, f, f) /\ calls' \in [Threads -> Seq(CallType)]
<1>1. <<>> \in Seq(CallType) /\ Len(<<>>) = 0
  OBVIOUS
<1>2. /\ d \in Nat \ {0} /\ Depth(t)' = d - 1 + 0
      /\ \A j \in 1 .. d - 1 : Frame(t, j)' = Frame(t, j)
      /\ \A h \in Threads \ {t} : Stays(h)
      /\ calls' \in [Threads -> Seq(CallType)]
  <2>1. Deepened(t, d, <<>>)
    BY <1>1, BecomesFact
  <2> QED BY <1>1, <2>1 DEF Deepened
<1>3. 0 \in 0 .. 2 /\ ~(0 > 0) /\ 0 # 2
  OBVIOUS
<1> QED BY <1>2, <1>3 DEF Shape

\* The innermost call becomes another.
LEMMA TurnsFact ==
  ASSUME calls \in [Threads -> Seq(CallType)], NEW t \in Threads, calls[t] # <<>>,
         NEW f \in CallType, Becomes(t, <<f>>), NEW d, d = Depth(t)
  PROVE  Shape(t, d, 1, f, f) /\ calls' \in [Threads -> Seq(CallType)]
<1> DEFINE cs == <<f>>
<1>1. cs \in Seq(CallType) /\ Len(cs) = 1 /\ cs[1] = f
  OBVIOUS
<1> HIDE DEF cs
<1>2. Becomes(t, cs)
  BY DEF cs
<1>3. /\ d \in Nat \ {0} /\ Depth(t)' = d - 1 + Len(cs)
      /\ \A j \in 1 .. d - 1 : Frame(t, j)' = Frame(t, j)
      /\ \A j \in Nat : d <= j /\ j < d + Len(cs) => Frame(t, j)' = cs[d + Len(cs) - j]
      /\ \A h \in Threads \ {t} : Stays(h)
      /\ calls' \in [Threads -> Seq(CallType)]
  <2>1. Deepened(t, d, cs)
    BY <1>1, <1>2, BecomesFact
  <2> QED BY <2>1 DEF Deepened
<1>4. d <= d /\ d < d + Len(cs) /\ d + Len(cs) - d = 1
  BY <1>1, <1>3
<1>5. Frame(t, d)' = f
  BY <1>1, <1>3, <1>4
<1>6. 1 \in 0 .. 2 /\ 1 > 0 /\ 1 # 2
  OBVIOUS
<1> QED BY <1>1, <1>3, <1>5, <1>6 DEF Shape

\* The innermost call becomes another, which calls cancel.
LEMMA NestsFact ==
  ASSUME calls \in [Threads -> Seq(CallType)], NEW t \in Threads, calls[t] # <<>>,
         NEW f \in CallType, NEW g \in CallType, Becomes(t, <<g, f>>), NEW d, d = Depth(t)
  PROVE  Shape(t, d, 2, f, g) /\ calls' \in [Threads -> Seq(CallType)]
<1> DEFINE cs == <<g, f>>
<1>1. cs \in Seq(CallType) /\ Len(cs) = 2 /\ cs[1] = g /\ cs[2] = f
  OBVIOUS
<1> HIDE DEF cs
<1>2. Becomes(t, cs)
  BY DEF cs
<1>3. /\ d \in Nat \ {0} /\ Depth(t)' = d - 1 + Len(cs)
      /\ \A j \in 1 .. d - 1 : Frame(t, j)' = Frame(t, j)
      /\ \A j \in Nat : d <= j /\ j < d + Len(cs) => Frame(t, j)' = cs[d + Len(cs) - j]
      /\ \A h \in Threads \ {t} : Stays(h)
      /\ calls' \in [Threads -> Seq(CallType)]
  <2>1. Deepened(t, d, cs)
    BY <1>1, <1>2, BecomesFact
  <2> QED BY <2>1 DEF Deepened
<1>4. d <= d /\ d < d + Len(cs) /\ d + Len(cs) - d = 2
  BY <1>1, <1>3
<1>5. Frame(t, d)' = f
  BY <1>1, <1>3, <1>4
<1>6. PICK e \in Nat : e = d + 1
  BY <1>3
<1>7. d <= e /\ e < d + Len(cs) /\ d + Len(cs) - e = 1
  BY <1>1, <1>3, <1>6
<1>8. Frame(t, e)' = g
  BY <1>1, <1>3, <1>7
<1>9. 2 \in 0 .. 2 /\ 2 > 0
  OBVIOUS
<1> QED BY <1>1, <1>3, <1>5, <1>6, <1>8, <1>9 DEF Shape


\* Where the calls come from and go to.
LEMMA ShapeFact ==
  ASSUME FramesTyped, FramesTyped', NEW t \in Threads, NEW d, NEW n, NEW f, NEW g,
         Shape(t, d, n, f, g)
  PROVE  /\ \A h \in Threads : \A j \in 1 .. Depth(h)' : From(h, j, t, d, n, f, g)
         /\ \A h \in Threads : \A j \in 1 .. Depth(h) : To(h, j, t, d)
<1>0. \A h \in Threads : Depth(h) \in Nat /\ Depth(h)' \in Nat
  BY DEF FramesTyped
<1>1. ASSUME NEW j \in 1 .. Depth(t)'
      PROVE  From(t, j, t, d, n, f, g)
  <2>1. CASE j < d
    <3>1. j \in 1 .. d - 1 /\ j \in 1 .. Depth(t)
      BY <1>0, <2>1 DEF Shape
    <3> QED BY <3>1, <2>1 DEF From, Shape
  <2>2. CASE j = d /\ n > 0
    BY <2>2 DEF From, Shape
  <2>3. CASE j = d + 1 /\ n = 2
    BY <2>3 DEF From, Shape
  <2>4. j < d \/ (j = d /\ n > 0) \/ (j = d + 1 /\ n = 2)
    BY <1>0 DEF Shape
  <2> QED BY <2>1, <2>2, <2>3, <2>4
<1>2. ASSUME NEW h \in Threads \ {t}, NEW j \in 1 .. Depth(h)'
      PROVE  From(h, j, t, d, n, f, g)
  <2>1. CASE Stays(h)
    BY <1>0, <2>1 DEF From, Stays
  <2>2. CASE n = 1 /\ Launched(h, t, d, f)
    <3>1. j = 1
      BY <2>2 DEF Launched
    <3> QED BY <2>2, <3>1 DEF From
  <2> QED BY <2>1, <2>2 DEF Shape
<1>3. ASSUME NEW j \in 1 .. Depth(t)
      PROVE  To(t, j, t, d)
  <2>1. (j = d /\ Depth(t) = d) \/ (j < d /\ j \in 1 .. Depth(t)' /\ j \in 1 .. d - 1)
    BY <1>0 DEF Shape
  <2> QED BY <2>1 DEF To, Shape
<1>4. ASSUME NEW h \in Threads \ {t}, NEW j \in 1 .. Depth(h)
      PROVE  To(h, j, t, d)
  <2>1. CASE Stays(h)
    BY <1>0, <2>1 DEF To, Stays
  <2>2. CASE n = 1 /\ Launched(h, t, d, f)
    BY <2>2 DEF Launched
  <2> QED BY <2>1, <2>2 DEF Shape
<1> QED BY <1>1, <1>2, <1>3, <1>4

\* Calls that are well typed are so at each place.
LEMMA TypedFact == CallsTyped => FramesTyped
<1> SUFFICES ASSUME calls \in [Threads -> Seq(CallType)], NEW h \in Threads
             PROVE  Depth(h) \in Nat /\ \A j \in 1 .. Depth(h) : Frame(h, j) \in CallType
  BY DEF FramesTyped, CallsTyped
<1> QED BY FrameFact

\* A thread that is in no call makes one.
LEMMA StartsFact ==
  ASSUME calls \in [Threads -> Seq(CallType)], NEW t \in Threads, calls[t] = <<>>,
         NEW f \in CallType, calls' = [calls EXCEPT ![t] = <<f>>]
  PROVE  Shape(t, 1, 1, f, f) /\ calls' \in [Threads -> Seq(CallType)]
<1>1. Depth(t) = 0
  BY FrameFact
<1>2. calls'[t] = <<f>> /\ \A h \in Threads : h # t => calls'[h] = calls[h]
  OBVIOUS
<1>3. Depth(t)' = 1 /\ Frame(t, 1)' = f
  BY <1>2 DEF Depth, Frame
<1>4. \A h \in Threads \ {t} : Stays(h)
  BY <1>2 DEF Stays, Depth, Frame
<1>5. 1 - 1 + 1 = 1 /\ 1 \in 0 .. 2 /\ 1 > 0 /\ 1 # 2 /\ 1 .. 1 - 1 = {}
  OBVIOUS
<1> QED BY <1>1, <1>3, <1>4, <1>5 DEF Shape

\* Where the calls about c are.
FramesWithin ==
  \A c, places : Within(c, places) <=>
    \E t \in Threads : \E j \in 1 .. Depth(t) : Frame(t, j).ctx = c /\ Frame(t, j).at \in places

\* A call that Within speaks of has a place, and the other way round.
LEMMA WithinFact == CallsTyped => FramesWithin
<1> SUFFICES ASSUME calls \in [Threads -> Seq(CallType)], NEW c, NEW places
             PROVE  Within(c, places) <=>
                      \E t \in Threads : \E j \in 1 .. Depth(t) :
                        Frame(t, j).ctx = c /\ Frame(t, j).at \in places
  BY DEF FramesWithin, CallsTyped
<1>1. ASSUME NEW t \in Threads
      PROVE  /\ \A i \in DOMAIN calls[t] : \E j \in 1 .. Depth(t) : Frame(t, j) = calls[t][i]
             /\ \A j \in 1 .. Depth(t) : \E i \in DOMAIN calls[t] : Frame(t, j) = calls[t][i]
  <2>1. DOMAIN calls[t] = 1 .. Depth(t) /\ Depth(t) \in Nat
    BY DEF Depth
  <2>2. ASSUME NEW i \in 1 .. Depth(t)
        PROVE  /\ Depth(t) + 1 - i \in 1 .. Depth(t)
               /\ Frame(t, Depth(t) + 1 - i) = calls[t][i]
    <3>1. Depth(t) + 1 - i \in 1 .. Depth(t) /\ Depth(t) + 1 - (Depth(t) + 1 - i) = i
      BY <2>1
    <3> QED BY <3>1 DEF Frame
  <2>3. ASSUME NEW j \in 1 .. Depth(t)
        PROVE  Depth(t) + 1 - j \in 1 .. Depth(t) /\ Frame(t, j) = calls[t][Depth(t) + 1 - j]
    BY <2>1 DEF Frame
  <2> QED BY <2>1, <2>2, <2>3
<1> QED BY <1>1 DEF Within

-----------------------------------------------------------------------------
(* What a step must do for each part of the invariant to hold after it.    *)

\* Cancellation is not undone.
Grows ==
  /\ tree' = tree
  /\ \A c \in Contexts : err[c] # None => err'[c] = err[c]
  /\ \A c \in Contexts : Finished(c) => Finished(c)'

\* A step that neither begins nor ends the walk over the children of a context.
LEMMA FinishedSame ==
  ASSUME FramesTyped, FramesTyped', FramesWithin, FramesWithin', err' = err, tree' = tree,
         NEW t \in Threads, NEW d, NEW n \in 0 .. 2, NEW f, NEW g, Shape(t, d, n, f, g),
         n > 0 /\ f.at = "children" =>
           Depth(t) = d /\ Frame(t, d).at = "children" /\ Frame(t, d).ctx = f.ctx,
         Depth(t) = d /\ Frame(t, d).at = "children" =>
           n > 0 /\ f.at = "children" /\ Frame(t, d).ctx = f.ctx,
         n = 2 => g.at # "children"
  PROVE  Grows /\ \A c \in Contexts : Finished(c)' <=> Finished(c)
<1>1. /\ \A h \in Threads : \A j \in 1 .. Depth(h)' : From(h, j, t, d, n, f, g)
      /\ \A h \in Threads : \A j \in 1 .. Depth(h) : To(h, j, t, d)
  BY ShapeFact
<1>2. d \in 1 .. Depth(t)' \/ ~(n > 0)
  BY DEF Shape
<1>3. ASSUME NEW c \in Contexts, Within(c, {"children"})
      PROVE  Within(c, {"children"})'
  <2>0. PICK h \in Threads :
          \E j \in 1 .. Depth(h) : Frame(h, j).ctx = c /\ Frame(h, j).at \in {"children"}
    BY <1>3 DEF FramesWithin
  <2>1. PICK j \in 1 .. Depth(h) : Frame(h, j).ctx = c /\ Frame(h, j).at = "children"
    BY <2>0
  <2>2. CASE h = t /\ j = d /\ Depth(t) = d
    <3>1. Frame(t, d)'.ctx = c /\ Frame(t, d)'.at = "children" /\ d \in 1 .. Depth(t)'
      BY <1>2, <2>1, <2>2 DEF Shape
    <3> QED BY <3>1 DEF FramesWithin
  <2>3. CASE j \in 1 .. Depth(h)' /\ Frame(h, j)' = Frame(h, j)
    BY <2>1, <2>3 DEF FramesWithin
  <2> QED BY <1>1, <2>2, <2>3 DEF To
<1>4. ASSUME NEW c \in Contexts, Within(c, {"children"})'
      PROVE  Within(c, {"children"})
  <2>0. PICK h \in Threads :
          \E j \in 1 .. Depth(h)' : Frame(h, j)'.ctx = c /\ Frame(h, j)'.at \in {"children"}
    BY <1>4 DEF FramesWithin
  <2>1. PICK j \in 1 .. Depth(h)' : Frame(h, j)'.ctx = c /\ Frame(h, j)'.at = "children"
    BY <2>0
  <2>2. CASE j \in 1 .. Depth(h) /\ Frame(h, j)' = Frame(h, j)
    BY <2>1, <2>2 DEF FramesWithin
  <2>3. CASE h = t /\ j = d /\ n > 0 /\ Frame(h, j)' = f
    <3>1. d \in 1 .. Depth(t) /\ Frame(t, d).ctx = c /\ Frame(t, d).at = "children"
      BY <2>1, <2>3 DEF Shape
    <3> QED BY <3>1 DEF FramesWithin
  <2>4. ~(n = 2 /\ Frame(h, j)' = g)
    BY <2>1
  <2>5. ~Launched(h, t, d, f) \/ j # 1
    BY <2>1 DEF Launched, Call
  <2> QED BY <1>1, <2>2, <2>3, <2>4, <2>5 DEF From
<1>5. \A c \in Contexts : Finished(c)' <=> Finished(c)
  BY <1>3, <1>4 DEF Finished
<1> QED BY <1>5 DEF Grows

\* What calls say holds on, if it does of the new ones.
LEMMA CallsKept ==
  ASSUME FramesTyped, FramesTyped', CallsInv, Grows, ContextTypeOK,
         NEW t \in Threads, NEW d, NEW n \in 0 .. 2, NEW f, NEW g, Shape(t, d, n, f, g),
         n > 0 => CallOK(f)', n = 2 => CallOK(g)'
  PROVE  CallsInv'
<1>1. ASSUME NEW k \in CallType, CallOK(k)
      PROVE  CallOK(k)'
  <2>1. k.ctx \in Contexts
    BY DEF CallType
  <2>2. /\ parent(k.ctx) \in Contexts /\ err[parent(k.ctx)] # None => err'[parent(k.ctx)] # None
        /\ Finished(k.ctx) => Finished(k.ctx)'
        /\ err[k.ctx] # None => err'[k.ctx] # None
    BY <2>1 DEF Grows
  <2>3. parent(k.ctx)' = parent(k.ctx) /\ Foreign(k.ctx)' = Foreign(k.ctx)
    BY DEF parent, Foreign, Grows
  <2> QED BY <1>1, <2>2, <2>3 DEF CallOK
<1>2. \A h \in Threads : \A j \in 1 .. Depth(h)' : From(h, j, t, d, n, f, g)
  BY ShapeFact
<1>3. ASSUME NEW h \in Threads, NEW j \in 1 .. Depth(h)'
      PROVE  CallOK(Frame(h, j))'
  <2>1. CASE j \in 1 .. Depth(h) /\ Frame(h, j)' = Frame(h, j)
    <3>1. PICK k \in CallType : k = Frame(h, j) /\ CallOK(k)
      BY <2>1 DEF FramesTyped, CallsInv
    <3>2. CallOK(k)' /\ Frame(h, j)' = k
      BY <1>1, <2>1, <3>1
    <3> QED BY <3>2 DEF CallOK, Finished, Within
  <2>2. CASE n > 0 /\ Frame(h, j)' = f
    BY <2>2 DEF CallOK
  <2>3. CASE n = 2 /\ Frame(h, j)' = g
    BY <2>3 DEF CallOK
  <2>4. CASE j = 1 /\ Launched(h, t, d, f)
    <3>1. /\ Frame(h, j)'.at = "watch" /\ Frame(h, j)'.ctx = f.ctx /\ Frame(h, j)'.chans = <<>>
          /\ Foreign(f.ctx) /\ parent(f.ctx) \in Contexts
      BY <2>4 DEF Launched, Call
    <3>2. Foreign(f.ctx)' /\ parent(f.ctx)' \in Contexts
      BY <3>1 DEF Grows, Foreign, parent
    <3> QED BY <3>1, <3>2 DEF CallOK, Cancels
  <2> QED BY <1>2, <2>1, <2>2, <2>3, <2>4 DEF From
<1> QED BY <1>3 DEF CallsInv

\* No call begins or ends to hold a lock, but that the last of t may let go of its own.
LEMMA LockKept ==
  ASSUME FramesTyped, FramesTyped', LockInv, tree' = tree, ContextTypeOK,
         NEW t \in Threads, NEW d, NEW n \in 0 .. 2, NEW f, NEW g, Shape(t, d, n, f, g),
         \A c \in Contexts : n > 0 /\ Locks(f, c) => Depth(t) = d /\ Locks(Frame(t, d), c),
         \A c \in Contexts : ~(n = 2 /\ Locks(g, c)),
         \A c \in Contexts :
           \/ owner'[c] = owner[c]
           \/ Depth(t) = d /\ Locks(Frame(t, d), c) /\ ~(n > 0 /\ Locks(f, c))
  PROVE  LockInv'
<1>1. \A k, c : Locks(k, c)' <=> Locks(k, c)
  BY DEF Locks, parent
<1>2. \A h \in Threads : \A j \in 1 .. Depth(h)' : From(h, j, t, d, n, f, g)
  BY ShapeFact
<1>3. ASSUME NEW h \in Threads, NEW j \in 1 .. Depth(h)', NEW c \in Contexts, Locks(Frame(h, j), c)'
      PROVE  /\ j \in 1 .. Depth(h) /\ Locks(Frame(h, j), c)
             /\ ~(h = t /\ j = d) \/ (n > 0 /\ Locks(f, c))
  <2>1. PICK k : k = Frame(h, j)' /\ Locks(k, c)
    BY <1>1, <1>3 DEF Locks, parent
  <2>2. CASE j \in 1 .. Depth(h) /\ Frame(h, j)' = Frame(h, j) /\ (h # t \/ j < d)
    BY <2>1, <2>2 DEF Shape
  <2>3. CASE h = t /\ j = d /\ n > 0 /\ Frame(h, j)' = f
    <3>1. Depth(t) = d /\ Locks(Frame(t, d), c) /\ Locks(f, c)
      BY <2>1, <2>3
    <3> QED BY <3>1, <2>3 DEF Shape
  <2>4. ~(n = 2 /\ Frame(h, j)' = g)
    BY <2>1
  <2>5. ~(j = 1 /\ Launched(h, t, d, f))
    BY <2>1 DEF Launched, Call, Locks
  <2> QED BY <1>2, <2>2, <2>3, <2>4, <2>5 DEF From
<1>4. ASSUME NEW h \in Threads, NEW j \in 1 .. Depth(h)', NEW c \in Contexts, Locks(Frame(h, j), c)'
      PROVE  owner'[c] = h
  <2>1. j \in 1 .. Depth(h) /\ Locks(Frame(h, j), c)
    BY <1>3, <1>4
  <2>2. owner[c] = h
    BY <2>1 DEF LockInv
  <2>3. ASSUME Depth(t) = d, Locks(Frame(t, d), c), ~(n > 0 /\ Locks(f, c))
        PROVE  FALSE
    <3>1. d \in 1 .. Depth(t)
      BY <2>3 DEF Shape
    <3>2. h = t /\ j = d
      BY <2>1, <2>3, <3>1 DEF LockInv
    <3> QED BY <1>3, <1>4, <2>3, <3>2
  <2> QED BY <2>2, <2>3
<1>5. ASSUME NEW h \in Threads, NEW j \in 1 .. Depth(h)', NEW c \in Contexts, Locks(Frame(h, j), c)',
             NEW u \in Threads, NEW k \in 1 .. Depth(u)', Locks(Frame(u, k), c)'
      PROVE  u = h /\ k = j
  <2>1. j \in 1 .. Depth(h) /\ Locks(Frame(h, j), c)
    BY <1>3, <1>5
  <2>2. k \in 1 .. Depth(u) /\ Locks(Frame(u, k), c)
    BY <1>3, <1>5
  <2> QED BY <2>1, <2>2 DEF LockInv
<1> QED BY <1>4, <1>5 DEF LockInv

\* The last call of t takes the lock of a context that is free.
LEMMA LockTaken ==
  ASSUME FramesTyped, FramesTyped', LockInv, tree' = tree, ContextTypeOK,
         NEW t \in Threads, NEW d, NEW n \in 0 .. 2, NEW f, NEW g, Shape(t, d, n, f, g),
         NEW x \in Contexts, Free(x), owner' = [owner EXCEPT ![x] = t],
         n > 0, \A c \in Contexts : Locks(f, c) => c = x,
         \A c \in Contexts : ~(n = 2 /\ Locks(g, c))
  PROVE  LockInv'
<1>1. \A k, c : Locks(k, c)' <=> Locks(k, c)
  BY DEF Locks, parent
<1>2. \A h \in Threads : \A j \in 1 .. Depth(h)' : From(h, j, t, d, n, f, g)
  BY ShapeFact
<1>3. \A h \in Threads : \A j \in 1 .. Depth(h) : ~Locks(Frame(h, j), x)
  BY ContextAssumption DEF LockInv, Free
<1>4. ASSUME NEW h \in Threads, NEW j \in 1 .. Depth(h)', NEW c \in Contexts, Locks(Frame(h, j), c)'
      PROVE  \/ c = x /\ h = t /\ j = d
             \/ c # x /\ j \in 1 .. Depth(h) /\ Locks(Frame(h, j), c)
  <2>1. PICK k : k = Frame(h, j)' /\ Locks(k, c)
    BY <1>1, <1>4 DEF Locks, parent
  <2>2. CASE j \in 1 .. Depth(h) /\ Frame(h, j)' = Frame(h, j)
    BY <1>3, <2>1, <2>2
  <2>3. CASE h = t /\ j = d /\ n > 0 /\ Frame(h, j)' = f
    BY <2>1, <2>3
  <2>4. ~(n = 2 /\ Frame(h, j)' = g)
    BY <2>1
  <2>5. ~(j = 1 /\ Launched(h, t, d, f))
    BY <2>1 DEF Launched, Call, Locks
  <2> QED BY <1>2, <2>2, <2>3, <2>4, <2>5 DEF From
<1>5. owner'[x] = t /\ \A c \in Contexts : c # x => owner'[c] = owner[c]
  BY DEF ContextTypeOK
<1>6. ASSUME NEW h \in Threads, NEW j \in 1 .. Depth(h)', NEW c \in Contexts, Locks(Frame(h, j), c)'
      PROVE  owner'[c] = h
  BY <1>4, <1>5, <1>6 DEF LockInv
<1>7. ASSUME NEW h \in Threads, NEW j \in 1 .. Depth(h)', NEW c \in Contexts, Locks(Frame(h, j), c)',
             NEW u \in Threads, NEW k \in 1 .. Depth(u)', Locks(Frame(u, k), c)'
      PROVE  u = h /\ k = j
  BY <1>4, <1>7 DEF LockInv
<1> QED BY <1>6, <1>7 DEF LockInv

\* The children of a context change while nobody walks over them.
LEMMA ChainKept ==
  ASSUME FramesTyped, FramesTyped', ChainInv, ContextTypeOK, Grows,
         NEW t \in Threads, NEW d, NEW n \in 0 .. 2, NEW f, NEW g, Shape(t, d, n, f, g),
         \A h \in Threads : \A j \in 1 .. Depth(h) :
           Frame(h, j).at = "children" =>
             \/ children'[Frame(h, j).ctx] = children[Frame(h, j).ctx]
             \/ h = t /\ j = d,
         Depth(t) = d /\ Frame(t, d).at \in Cancels =>
           \/ n > 0 /\ f.at \in Cancels /\ f.ctx = Frame(t, d).ctx
           \/ n = 0 /\ \A x \in Contexts : x = Frame(t, d).ctx => Finished(x)',
         n > 0 /\ f.at = "children" => f.left \subseteq children'[f.ctx],
         n > 0 => \A c \in Awaits(f)' : Finished(c)' \/ (n = 2 /\ g.ctx = c),
         n = 2 => /\ f.at \in {"children", "registered", "armed"}
                  /\ g.at = "cancel"
  PROVE  ChainInv'
<1>1. /\ \A h \in Threads : \A j \in 1 .. Depth(h)' : From(h, j, t, d, n, f, g)
      /\ \A h \in Threads : \A j \in 1 .. Depth(h) : To(h, j, t, d)
      /\ \A h \in Threads : Depth(h) \in Nat /\ Depth(h)' \in Nat
  BY ShapeFact DEF FramesTyped
<1>2. \A k \in CallType : k.at # "children" => Awaits(k)' = Awaits(k)
  BY DEF Awaits
<1>3. ASSUME NEW h \in Threads, NEW j \in 1 .. Depth(h)',
             j \in 1 .. Depth(h), Frame(h, j)' = Frame(h, j), h # t \/ j < d
      PROVE  /\ Frame(h, j)'.at = "children" => Frame(h, j)'.left \subseteq children'[Frame(h, j)'.ctx]
             /\ Awaits(Frame(h, j))' = Awaits(Frame(h, j))
  <2>1. Frame(h, j).at = "children" => children'[Frame(h, j).ctx] = children[Frame(h, j).ctx]
    BY <1>3 DEF Shape
  <2> QED BY <1>3, <2>1 DEF ChainInv, Awaits
\* a call that stays below the last of t
<1>4. ASSUME NEW j \in 1 .. Depth(t)', j < d
      PROVE  /\ j < Depth(t)' => /\ Frame(t, j)'.at \in {"children", "registered", "armed"}
                                 /\ Frame(t, j + 1)'.at \in Cancels
             /\ \A c \in Awaits(Frame(t, j))' : Finished(c)' \/ (j < Depth(t)' /\ Frame(t, j + 1)'.ctx = c)
  <2>1. /\ j \in 1 .. Depth(t) /\ Frame(t, j)' = Frame(t, j) /\ Depth(t) = d
        /\ j + 1 \in 1 .. d /\ j < Depth(t)
    BY <1>1, <1>4 DEF Shape
  <2>2. /\ Frame(t, j).at \in {"children", "registered", "armed"} /\ Frame(t, j + 1).at \in Cancels
        /\ \A c \in Awaits(Frame(t, j)) : Finished(c) \/ Frame(t, j + 1).ctx = c
    BY <2>1 DEF ChainInv
  <2>3. Awaits(Frame(t, j))' = Awaits(Frame(t, j))
    BY <1>3, <1>4, <2>1
  <2>4. \A c \in Awaits(Frame(t, j)) : c \in Contexts
    BY <2>1 DEF FramesTyped, CallType, Awaits, ContextTypeOK
  <2>5. CASE j + 1 < d
    <3>1. j + 1 \in 1 .. d - 1 /\ Frame(t, j + 1)' = Frame(t, j + 1) /\ j < Depth(t)'
      BY <1>1, <1>4, <2>5 DEF Shape
    <3> QED BY <2>1, <2>2, <2>3, <2>4, <3>1 DEF Grows
  <2>6. CASE j + 1 = d /\ n > 0
    <3>1. Frame(t, j + 1)' = f /\ f.at \in Cancels /\ f.ctx = Frame(t, j + 1).ctx /\ j < Depth(t)'
      <4>1. Depth(t) = d /\ Frame(t, d).at \in Cancels
        BY <2>1, <2>2, <2>6
      <4>2. f.at \in Cancels /\ f.ctx = Frame(t, d).ctx /\ Frame(t, d)' = f
        BY <2>6, <4>1 DEF Shape
      <4> HIDE DEF Cancels
      <4>3. j < Depth(t)'
        BY <1>1, <2>1, <2>6 DEF Shape
      <4> QED BY <2>6, <4>2, <4>3
    <3> QED BY <2>1, <2>2, <2>3, <2>4, <3>1 DEF Grows
  <2>7. CASE j + 1 = d /\ n = 0
    <3>1. Depth(t) = d /\ Frame(t, d).at \in Cancels
      BY <2>1, <2>2, <2>7
    <3>2. \A x \in Contexts : x = Frame(t, d).ctx => Finished(x)'
      BY <2>7, <3>1
    <3>3. j + 1 = d /\ ~(j < Depth(t)')
      BY <1>1, <2>1, <2>7 DEF Shape
    <3> QED BY <2>2, <2>3, <2>4, <3>2, <3>3 DEF Grows
  <2>8. j + 1 < d \/ (j + 1 = d /\ n > 0) \/ (j + 1 = d /\ n = 0)
    BY <2>1 DEF Shape
  <2> QED BY <2>5, <2>6, <2>7, <2>8
<1>5. ASSUME NEW h \in Threads, h # t, NEW j \in 1 .. Depth(h)', Stays(h)
      PROVE  /\ j < Depth(h)' => /\ Frame(h, j)'.at \in {"children", "registered", "armed"}
                                 /\ Frame(h, j + 1)'.at \in Cancels
             /\ Frame(h, j)'.at = "children" => Frame(h, j)'.left \subseteq children'[Frame(h, j)'.ctx]
             /\ \A c \in Awaits(Frame(h, j))' : Finished(c)' \/ (j < Depth(h)' /\ Frame(h, j + 1)'.ctx = c)
  <2>1. /\ j \in 1 .. Depth(h) /\ Frame(h, j)' = Frame(h, j) /\ Depth(h)' = Depth(h)
        /\ j < Depth(h) => j + 1 \in 1 .. Depth(h)
    BY <1>1, <1>5 DEF Stays
  <2>2. j < Depth(h) => Frame(h, j + 1)' = Frame(h, j + 1)
    BY <1>5, <2>1 DEF Stays
  <2>3. \A c \in Awaits(Frame(h, j)) : c \in Contexts
    BY <2>1 DEF FramesTyped, CallType, Awaits, ContextTypeOK
  <2> QED BY <1>3, <1>5, <2>1, <2>2, <2>3 DEF ChainInv, Grows
<1>6. ASSUME NEW h \in Threads, h # t, NEW j \in 1 .. Depth(h)', Launched(h, t, d, f)
      PROVE  j = Depth(h)' /\ Frame(h, j)'.at = "watch" /\ Awaits(Frame(h, j))' = {}
  <2>1. j = 1 /\ Depth(h)' = 1 /\ Frame(h, 1)'.at = "watch"
    BY <1>6 DEF Launched, Call
  <2> QED BY <2>1 DEF Awaits
<1>7. ASSUME NEW j \in 1 .. Depth(t)', j = d, n > 0
      PROVE  /\ j < Depth(t)' => /\ Frame(t, j)'.at \in {"children", "registered", "armed"}
                                 /\ Frame(t, j + 1)'.at \in Cancels
             /\ Frame(t, j)'.at = "children" => Frame(t, j)'.left \subseteq children'[Frame(t, j)'.ctx]
             /\ \A c \in Awaits(Frame(t, j))' : Finished(c)' \/ (j < Depth(t)' /\ Frame(t, j + 1)'.ctx = c)
  <2>1. Frame(t, j)' = f /\ (n = 2 => j < Depth(t)' /\ Frame(t, j + 1)' = g) /\ (j < Depth(t)' => n = 2)
    BY <1>1, <1>7 DEF Shape
  <2>2. Awaits(Frame(t, j))' = Awaits(f)'
    BY <2>1 DEF Awaits
  <2> QED BY <1>7, <2>1, <2>2 DEF Cancels
<1>8. ASSUME NEW j \in 1 .. Depth(t)', j = d + 1, n = 2
      PROVE  j = Depth(t)' /\ Frame(t, j)'.at = "cancel" /\ Awaits(Frame(t, j))' = {}
  <2>1. j = Depth(t)' /\ Frame(t, j)'.at = "cancel"
    BY <1>1, <1>8 DEF Shape
  <2> QED BY <2>1 DEF Awaits
<1>9. ASSUME NEW h \in Threads, NEW j \in 1 .. Depth(h)'
      PROVE  /\ j < Depth(h)' => /\ Frame(h, j)'.at \in {"children", "registered", "armed"}
                                 /\ Frame(h, j + 1)'.at \in Cancels
             /\ Frame(h, j)'.at = "children" => Frame(h, j)'.left \subseteq children'[Frame(h, j)'.ctx]
             /\ \A c \in Awaits(Frame(h, j))' : Finished(c)' \/ (j < Depth(h)' /\ Frame(h, j + 1)'.ctx = c)
  <2>1. CASE h # t
    BY <1>1, <1>5, <1>6, <2>1 DEF Shape
  <2>2. CASE h = t /\ j < d
    <3>1. j \in 1 .. Depth(t) /\ Frame(t, j)' = Frame(t, j)
      BY <1>1, <2>2 DEF Shape
    <3> QED BY <1>3, <1>4, <2>2, <3>1
  <2>3. CASE h = t /\ j = d /\ n > 0
    BY <1>7, <2>3
  <2>4. CASE h = t /\ j = d + 1 /\ n = 2
    BY <1>1, <1>8, <2>4
  <2> QED BY <1>1, <2>1, <2>2, <2>3, <2>4 DEF From
<1> QED BY <1>9 DEF ChainInv

\* Children stay with their parents, if a step links or unlinks as the locks allow.
LEMMA LinkKept ==
  ASSUME LinkInv, Grows, ContextTypeOK,
         \A p, c \in Contexts : c \in children'[p] =>
           c \in children[p] \/ (parent(c) = p /\ ~Foreign(c)),
         \A c \in Contexts : Linked(c)' /\ ~Foreign(c) /\ parent(c) \in Contexts =>
           \/ Linked(c) \/ Finished(c)'
           \/ c \in children'[parent(c)] /\ err'[parent(c)] = None,
         \A p, c \in Contexts : c \in children[p] /\ ~Finished(p) =>
           Finished(c)' \/ (c \in children'[p] /\ ~Finished(p)'),
         \A c \in Contexts : timer'[c] = "armed" => timer[c] = "armed" \/ HasDeadline(c)
  PROVE  LinkInv'
<1>1. \A c : parent(c)' = parent(c) /\ (Foreign(c)' <=> Foreign(c)) /\ (HasDeadline(c)' <=> HasDeadline(c))
  BY DEF parent, Foreign, HasDeadline, Grows
<1>2. \A p, c \in Contexts : c \in children'[p] => parent(c) = p /\ ~Foreign(c)
  BY DEF LinkInv
<1>3. ASSUME NEW c \in Contexts, Linked(c)', ~Foreign(c), NEW p \in Contexts, p = parent(c)
      PROVE  Finished(c)' \/ (c \in children'[p] /\ ~Finished(p)')
  <2>1. CASE Linked(c)
    <3>1. Finished(c) \/ (c \in children[p] /\ ~Finished(p))
      BY <1>3, <2>1 DEF LinkInv
    <3> QED BY <3>1 DEF Grows
  <2>2. CASE c \in children'[p] /\ err'[p] = None
    BY <2>2 DEF Finished
  <2> QED BY <1>3, <2>1, <2>2
<1>4. \A c \in Contexts : timer'[c] = "armed" => HasDeadline(c)
  BY DEF LinkInv
<1>5. ASSUME NEW c \in Contexts, Linked(c)', ~Foreign(c)', parent(c)' \in Contexts
      PROVE  Finished(c)' \/ (c \in children'[parent(c)'] /\ ~Finished(parent(c))')
  <2>1. PICK p \in Contexts : p = parent(c)' /\ p = parent(c)
    BY <1>1, <1>5
  <2>2. Finished(c)' \/ (c \in children'[p] /\ ~Finished(p)')
    BY <1>1, <1>3, <1>5, <2>1
  <2>3. Finished(p)' <=> Finished(parent(c))'
    BY <2>1 DEF Finished, Within
  <2> QED BY <2>1, <2>2, <2>3
<1> QED BY <1>1, <1>2, <1>4, <1>5 DEF LinkInv

\* What is linked by a step.
LEMMA LinkedFact ==
  ASSUME FramesTyped, FramesTyped', FramesWithin, FramesWithin',
         NEW t \in Threads, NEW d, NEW n \in 0 .. 2, NEW f, NEW g, Shape(t, d, n, f, g),
         n = 2 => g.at = "cancel", NEW c, Linked(c)'
  PROVE  Linked(c) \/ c \in ready' \ ready \/ (n > 0 /\ f.ctx = c /\ f.at \in {"arm", "armed"})
<1>1. CASE Within(c, {"arm", "armed"})'
  <2>1. PICK h \in Threads :
          \E j \in 1 .. Depth(h)' : Frame(h, j)'.ctx = c /\ Frame(h, j)'.at \in {"arm", "armed"}
    BY <1>1 DEF FramesWithin
  <2>2. PICK j \in 1 .. Depth(h)' : Frame(h, j)'.ctx = c /\ Frame(h, j)'.at \in {"arm", "armed"}
    BY <2>1
  <2>3. CASE j \in 1 .. Depth(h) /\ Frame(h, j)' = Frame(h, j)
    BY <2>2, <2>3 DEF FramesWithin, Linked
  <2>4. From(h, j, t, d, n, f, g)
    BY ShapeFact
  <2> QED BY <2>2, <2>3, <2>4 DEF From, Launched, Call
<1> QED BY <1>1 DEF Linked

\* What the calls within a context lose.
LEMMA WithinKept ==
  ASSUME FramesTyped, FramesTyped', FramesWithin, FramesWithin',
         NEW t \in Threads, NEW d, NEW n \in 0 .. 2, NEW f, NEW g, Shape(t, d, n, f, g),
         NEW c, NEW places, Within(c, places)
  PROVE  Within(c, places)' \/ (Depth(t) = d /\ Frame(t, d).ctx = c /\ Frame(t, d).at \in places)
<1>1. PICK h \in Threads :
        \E j \in 1 .. Depth(h) : Frame(h, j).ctx = c /\ Frame(h, j).at \in places
  BY DEF FramesWithin
<1>2. PICK j \in 1 .. Depth(h) : Frame(h, j).ctx = c /\ Frame(h, j).at \in places
  BY <1>1
<1>3. To(h, j, t, d)
  BY ShapeFact
<1> QED BY <1>2, <1>3 DEF To, FramesWithin

\* And what they gain.
LEMMA WithinNew ==
  ASSUME FramesTyped', FramesWithin',
         NEW t \in Threads, NEW d, NEW n \in 0 .. 2, NEW f, NEW g, Shape(t, d, n, f, g),
         n > 0, NEW c, NEW places, f.ctx = c, f.at \in places
  PROVE  Within(c, places)'
<1>1. d \in 1 .. Depth(t)' /\ Frame(t, d)' = f
  BY DEF Shape, FramesTyped
<1> QED BY <1>1 DEF FramesWithin

\* A cancelled context is still being unhooked, if a step keeps the call that is at it.
LEMMA ReleasesKept ==
  ASSUME FramesTyped, FramesTyped', FramesWithin, FramesWithin', ReleasesResources, ContextTypeOK,
         NEW t \in Threads, NEW d, NEW n \in 0 .. 2, NEW f, NEW g, Shape(t, d, n, f, g),
         \A c \in Contexts : err[c] # None => err'[c] # None,
         \A c \in Contexts : err'[c] # None /\ err[c] = None =>
           n > 0 /\ f.ctx = c /\ f.at = "children",
         \A p, c \in Contexts : c \in children'[p] => c \in children[p] \/ err'[c] = None,
         \A c \in Contexts : timer'[c] = "armed" => timer[c] = "armed" \/ err'[c] = None,
         \A p, c \in Contexts :
           /\ Depth(t) = d /\ Frame(t, d).ctx = c /\ Frame(t, d).at \in {"children", "remove"}
           /\ c \in children'[p]
           => err'[p] # None \/ (n > 0 /\ f.ctx = c /\ f.at \in {"children", "remove"}),
         \A c \in Contexts :
           /\ Depth(t) = d /\ Frame(t, d).ctx = c /\ Frame(t, d).at \in {"children", "remove", "stop"}
           /\ timer'[c] = "armed"
           => n > 0 /\ f.ctx = c /\ f.at \in {"children", "remove", "stop"}
  PROVE  ReleasesResources'
<1>1. ASSUME NEW c \in Contexts, err'[c] # None, NEW p \in Contexts, err'[p] = None, c \in children'[p]
      PROVE  Within(c, {"children", "remove"})'
  <2>1. CASE n > 0 /\ f.ctx = c /\ f.at \in {"children", "remove"}
    BY <2>1, WithinNew
  <2>2. CASE ~(n > 0 /\ f.ctx = c /\ f.at \in {"children", "remove"})
    <3>1. err[c] # None /\ c \in children[p] /\ err[p] = None
      BY <1>1, <2>2
    <3>2. Within(c, {"children", "remove"})
      BY <3>1 DEF ReleasesResources
    <3> QED BY <1>1, <2>2, <3>2, WithinKept
  <2> QED BY <2>1, <2>2
<1>2. ASSUME NEW c \in Contexts, err'[c] # None, timer'[c] = "armed"
      PROVE  Within(c, {"children", "remove", "stop"})'
  <2>1. CASE n > 0 /\ f.ctx = c /\ f.at \in {"children", "remove", "stop"}
    BY <2>1, WithinNew
  <2>2. CASE ~(n > 0 /\ f.ctx = c /\ f.at \in {"children", "remove", "stop"})
    <3>1. err[c] # None /\ timer[c] = "armed"
      BY <1>2, <2>2
    <3>2. Within(c, {"children", "remove", "stop"})
      BY <3>1 DEF ReleasesResources
    <3> QED BY <1>2, <2>2, <3>2, WithinKept, ZenonT(40)
  <2> QED BY <2>1, <2>2
<1> QED BY <1>1, <1>2 DEF ReleasesResources

\* Goroutines, watchers and timers are different threads.
LEMMA ThreadFact ==
  /\ \A g \in Goroutines : g \in Threads
  /\ \A c \in Contexts : Watcher(c) \in Threads /\ Timer(c) \in Threads
  /\ \A c, x \in Contexts : Watcher(c) # Timer(x) /\ (Watcher(c) = Watcher(x) => c = x)
                            /\ (Timer(c) = Timer(x) => c = x)
  /\ \A g \in Goroutines, c \in Contexts : g # Watcher(c) /\ g # Timer(c)
  /\ Nobody \notin Threads
BY ContextAssumption DEF Threads, Watcher, Timer

\* Nobody gets to know of a context that a step does not touch.
LEMMA UntouchedKept ==
  ASSUME ContextTypeOK, NEW t \in Threads, NEW d, NEW n \in 0 .. 2, NEW f, NEW g, Shape(t, d, n, f, g),
         NEW c \in Contexts, Untouched(c), err'[c] = err[c], timer'[c] = timer[c],
         c \in ready' => c \in ready,
         \A p \in Contexts : c \in children'[p] => c \in children[p],
         Depth(t) = d \/ t \in Goroutines \/ (\E y \in Contexts : t = Timer(y) /\ y # c),
         n = 1 /\ f.at = "arm" => f.ctx \in Contexts /\ f.ctx # c
  PROVE  Untouched(c)'
<1>1. Depth(Watcher(c)) = 0 /\ Depth(Timer(c)) = 0
  BY DEF Untouched
<1>2. t # Watcher(c) /\ t # Timer(c)
  BY <1>1, ThreadFact DEF Shape
<1>3. \A h \in Threads \ {t} : Stays(h) \/ (n = 1 /\ Launched(h, t, d, f))
  BY DEF Shape
<1>4. Stays(Watcher(c)) /\ Stays(Timer(c))
  BY <1>2, <1>3, ThreadFact DEF Launched
<1>5. Depth(Watcher(c))' = 0 /\ Depth(Timer(c))' = 0
  BY <1>1, <1>4 DEF Stays
<1> QED BY <1>5 DEF Untouched

\* From place d on, the calls of t become at most f and g; x is what t knew or gets to know.
Making(t, d, n, f, g, x) ==
  /\ Shape(t, d, n, f, g)
  /\ n > 0 => f.ctx = x
  /\ Depth(t) = d => Frame(t, d).ctx = x
  /\ n = 2 => g.at = "cancel" /\ (g.ctx = x \/ ~Untouched(g.ctx))
  /\ Depth(t) = d \/ Unmade(x) \/ ~Untouched(x)
  /\ \A c \in Contexts : Unmade(c)' => Unmade(c) /\ (c # x \/ Depth(t) = d)
  /\ \A c \in Contexts : Untouched(c) /\ c # x => Untouched(c)'
  /\ n > 0 /\ f.at \in {"propagate", "register"} =>
       /\ n = 1 /\ (Untouched(x) => Untouched(x)')
       /\ Unmade(x) \/ (Depth(t) = d /\ Frame(t, d).at \in {"propagate", "register"})
  /\ n > 0 /\ f.at \in Makes => Unmade(x) \/ (Depth(t) = d /\ Frame(t, d).at \in Makes)
  /\ n > 0 /\ f.at \in {"registered", "arm"} => timer'[x] = "none"
  /\ \A c \in Contexts : timer[c] = "none" /\ timer'[c] # "none" =>
       c = x /\ Depth(t) = d /\ Frame(t, d).at \in Makes
  /\ \A c \in Contexts : timer'[c] \in {"none", "armed"} =>
       timer[c] \in {"none", "armed"} /\ (t = Timer(c) => Depth(t) = d)

\* One thread makes a context, if a step makes the only one that it touches.
LEMMA MakeKept ==
  ASSUME FramesTyped, FramesTyped', MakeInv, ContextTypeOK,
         NEW t \in Threads, NEW d, NEW n \in 0 .. 2, NEW f, NEW g, NEW x \in Contexts,
         Making(t, d, n, f, g, x)
  PROVE  MakeInv'
<1> USE DEF Making
<1>1. /\ \A h \in Threads : \A j \in 1 .. Depth(h)' : From(h, j, t, d, n, f, g)
      /\ \A h \in Threads : Depth(h) \in Nat /\ Depth(h)' \in Nat
  BY ShapeFact DEF FramesTyped
<1>2. /\ Depth(t) = d => d \in 1 .. Depth(t)
      /\ d \in Nat \ {0}
  BY DEF Shape
<1> DEFINE Old(h, j) == j \in 1 .. Depth(h) /\ Frame(h, j)' = Frame(h, j) /\ (h # t \/ j < d)
<1>3. ASSUME NEW h \in Threads, NEW j, Old(h, j)
      PROVE  /\ ~(h = t /\ j = d)
             /\ Unmade(x) => Frame(h, j).ctx # x
             /\ Frame(h, j).at \in {"propagate", "register"} =>
                  Frame(h, j).ctx # x /\ (n = 2 => Frame(h, j).ctx # g.ctx)
  <2>1. ~(h = t /\ j = d)
    BY <1>2, <1>3
  <2>2. Unmade(x) => Frame(h, j).ctx # x
    BY <1>3 DEF MakeInv
  <2>3. ASSUME Frame(h, j).at \in {"propagate", "register"}
        PROVE  Frame(h, j).ctx # x /\ (n = 2 => Frame(h, j).ctx # g.ctx)
    <3>1. Untouched(Frame(h, j).ctx)
      BY <1>3, <2>3 DEF MakeInv
    <3>2. Frame(h, j).ctx # x
      <4>1. CASE Depth(t) = d
        BY <1>2, <1>3, <2>1, <2>3, <4>1 DEF MakeInv
      <4> QED BY <2>2, <3>1, <4>1
    <3> QED BY <3>1, <3>2
  <2> QED BY <2>1, <2>2, <2>3
\* where a call comes from, and what it is about
<1>4. ASSUME NEW h \in Threads, NEW j \in 1 .. Depth(h)'
      PROVE  \/ Old(h, j)
             \/ h = t /\ j = d /\ n > 0 /\ Frame(h, j)' = f /\ Frame(h, j)'.ctx = x
             \/ /\ n = 2 /\ Frame(h, j)' = g /\ Frame(h, j)'.at = "cancel"
                /\ Frame(h, j)'.ctx = x \/ ~Untouched(Frame(h, j)'.ctx)
             \/ /\ n = 1 /\ f.at = "arm" /\ Frame(h, j)'.at = "watch" /\ Frame(h, j)'.ctx = x
  <2>1. CASE h = t /\ j = d + 1 /\ n = 2 /\ Frame(h, j)' = g
    <3>1. PICK y : y = g.ctx /\ Frame(h, j)'.ctx = y
      BY <2>1
    <3> QED BY <2>1, <3>1
  <2>2. CASE h # t /\ j = 1 /\ n = 1 /\ Launched(h, t, d, f)
    BY <2>2 DEF Launched, Call
  <2> QED BY <1>1, <2>1, <2>2 DEF From
<1>5. ASSUME NEW c \in Contexts, Unmade(c)'
      PROVE  /\ Untouched(c)'
             /\ \A h \in Threads : \A j \in 1 .. Depth(h)' : Frame(h, j)'.ctx # c
  <2>1. Unmade(c) /\ Untouched(c) /\ \A h \in Threads : \A j \in 1 .. Depth(h) : Frame(h, j).ctx # c
    BY <1>5 DEF MakeInv
  <2>2. c # x
    BY <1>2, <1>5, <2>1
  <2>3. Untouched(c)'
    BY <2>1, <2>2
  <2> QED BY <1>4, <2>1, <2>2, <2>3
<1>6. ASSUME NEW h \in Threads, NEW u \in Threads, NEW j \in 1 .. Depth(h)', NEW k \in 1 .. Depth(u)',
             Frame(h, j)'.ctx = Frame(u, k)'.ctx, Frame(h, j)'.at \in {"propagate", "register"}
      PROVE  u = h /\ k = j
  <2>1. CASE Old(h, j)
    <3>1. Frame(h, j).at \in {"propagate", "register"} /\ Untouched(Frame(h, j).ctx)
      BY <1>6, <2>1 DEF MakeInv
    <3>2. Frame(h, j)'.ctx # x /\ Untouched(Frame(h, j).ctx) /\ (n = 2 => Frame(h, j)'.ctx # g.ctx)
      BY <1>3, <2>1, <3>1
    <3>3. Old(u, k)
      BY <1>4, <1>6, <3>2
    <3> QED BY <1>6, <2>1, <3>1, <3>3 DEF MakeInv
  <2>2. CASE h = t /\ j = d /\ n > 0 /\ Frame(h, j)' = f /\ Frame(h, j)'.ctx = x
    <3>1. n = 1 /\ f.at # "arm"
      BY <1>6, <2>2
    <3>2. ASSUME Old(u, k)
          PROVE  FALSE
      <4>1. Frame(u, k).ctx = x /\ ~(u = t /\ k = d)
        BY <1>3, <1>6, <2>2, <3>2
      <4>2. ~Unmade(x)
        BY <1>3, <3>2, <4>1
      <4>3. Depth(t) = d /\ Frame(t, d).at \in {"propagate", "register"}
        BY <1>6, <2>2, <4>2
      <4> QED BY <1>2, <3>2, <4>1, <4>3 DEF MakeInv
    <3> QED BY <1>4, <2>2, <3>1, <3>2
  <2> QED BY <1>4, <1>6, <2>1, <2>2
<1>7. ASSUME NEW h \in Threads, NEW u \in Threads, NEW j \in 1 .. Depth(h)', NEW k \in 1 .. Depth(u)',
             Frame(h, j)'.ctx = Frame(u, k)'.ctx, Frame(h, j)'.at \in Makes, Frame(u, k)'.at \in Makes
      PROVE  u = h /\ k = j
  <2>1. \A y \in Threads : \A i : Old(y, i) /\ Frame(y, i)'.ctx = x /\ Frame(y, i)'.at \in Makes =>
          ~(n > 0 /\ f.at \in Makes)
    <3> SUFFICES ASSUME NEW y \in Threads, NEW i, Old(y, i), Frame(y, i)'.ctx = x,
                        Frame(y, i)'.at \in Makes, n > 0, f.at \in Makes
                 PROVE  FALSE
      OBVIOUS
    <3> HIDE DEF Makes
    <3>1. ~Unmade(x) /\ ~(y = t /\ i = d)
      BY <1>3
    <3>2. Depth(t) = d /\ Frame(t, d).at \in Makes
      BY <3>1
    <3> QED BY <1>2, <3>1, <3>2 DEF MakeInv
  <2>2. "cancel" \notin Makes /\ "watch" \notin Makes
    BY DEF Makes
  <2> HIDE DEF Makes
  <2>3. Old(h, j) \/ (h = t /\ j = d /\ n > 0 /\ Frame(h, j)' = f /\ Frame(h, j)'.ctx = x)
    BY <1>4, <1>7, <2>2
  <2>4. Old(u, k) \/ (u = t /\ k = d /\ n > 0 /\ Frame(u, k)' = f /\ Frame(u, k)'.ctx = x)
    BY <1>4, <1>7, <2>2
  <2>5. CASE Old(h, j) /\ Old(u, k)
    BY <1>7, <2>5 DEF MakeInv
  <2> QED BY <1>7, <2>1, <2>3, <2>4, <2>5
<1>8. ASSUME NEW h \in Threads, NEW j \in 1 .. Depth(h)', NEW k \in CallType, k = Frame(h, j)'
      PROVE  /\ k.at \in {"propagate", "register"} => Untouched(k.ctx)'
             /\ k.at \in {"registered", "arm"} => timer'[k.ctx] = "none"
  <2>0. k.ctx \in Contexts
    BY DEF CallType
  <2>1. CASE Old(h, j)
    <3>1. k = Frame(h, j)
      BY <1>8, <2>1
    <3>2. k.at \in {"propagate", "register"} => Untouched(k.ctx)'
      BY <1>3, <2>0, <2>1, <3>1 DEF MakeInv
    <3>3. ASSUME k.at \in {"registered", "arm"}
          PROVE  timer'[k.ctx] = "none"
      <4>1. timer[k.ctx] = "none"
        BY <2>1, <3>1, <3>3 DEF MakeInv
      <4>2. k.ctx = x /\ Depth(t) = d /\ Frame(t, d).at \in Makes => FALSE
        <5>1. ASSUME k.ctx = x, Depth(t) = d, Frame(t, d).at \in Makes
              PROVE  FALSE
          <6>1. k.at \in Makes
            BY <3>3 DEF Makes
          <6> HIDE DEF Makes
          <6> QED BY <1>2, <1>3, <2>1, <3>1, <5>1, <6>1 DEF MakeInv
        <5> QED BY <5>1
      <4> QED BY <2>0, <4>1, <4>2
    <3> QED BY <3>2, <3>3
  <2>2. CASE h = t /\ j = d /\ n > 0 /\ Frame(h, j)' = f /\ Frame(h, j)'.ctx = x
    <3>1. k = f /\ k.ctx = x
      BY <1>8, <2>2
    <3>2. ASSUME k.at \in {"propagate", "register"}
          PROVE  Untouched(x)'
      <4>1. Untouched(x)
        BY <1>2, <2>2, <3>1, <3>2 DEF MakeInv
      <4> QED BY <2>2, <3>1, <3>2, <4>1
    <3> QED BY <2>2, <3>1, <3>2
  <2> QED BY <1>4, <1>8, <2>1, <2>2
<1>9. ASSUME NEW c \in Contexts, timer'[c] \in {"none", "armed"}
      PROVE  Depth(Timer(c))' = 0
  <2>1. Depth(Timer(c)) = 0 /\ Timer(c) # t /\ Timer(c) \in Threads
    BY <1>2, <1>9, ThreadFact DEF MakeInv
  <2>2. Stays(Timer(c)) \/ (n = 1 /\ Launched(Timer(c), t, d, f))
    BY <2>1 DEF Shape
  <2>3. ~(n = 1 /\ Launched(Timer(c), t, d, f))
    <3>1. n = 1 => f.ctx \in Contexts
      OBVIOUS
    <3> QED BY <3>1, ThreadFact DEF Launched
  <2> QED BY <2>1, <2>2, <2>3 DEF Stays
<1>10. \A h \in Threads : \A j \in 1 .. Depth(h)' :
         /\ Frame(h, j)'.at \in {"propagate", "register"} => Untouched(Frame(h, j).ctx)'
         /\ Frame(h, j)'.at \in {"registered", "arm"} => timer'[Frame(h, j)'.ctx] = "none"
  <2> SUFFICES ASSUME NEW h \in Threads, NEW j \in 1 .. Depth(h)'
               PROVE  /\ Frame(h, j)'.at \in {"propagate", "register"} => Untouched(Frame(h, j).ctx)'
                      /\ Frame(h, j)'.at \in {"registered", "arm"} => timer'[Frame(h, j)'.ctx] = "none"
    OBVIOUS
  <2>1. PICK k \in CallType : k = Frame(h, j)'
    BY DEF FramesTyped
  <2>2. /\ k.at \in {"propagate", "register"} => Untouched(k.ctx)'
        /\ k.at \in {"registered", "arm"} => timer'[k.ctx] = "none"
    BY <1>8, <2>1
  <2>3. Untouched(k.ctx)' <=> Untouched(Frame(h, j).ctx)'
    BY <2>1 DEF Untouched
  <2> QED BY <2>1, <2>2, <2>3
<1> HIDE DEF Old
<1> QED BY <1>5, <1>6, <1>7, <1>9, <1>10 DEF MakeInv

\* A goroutine makes its next call.
LEMMA TodoFact ==
  ASSUME ContextTypeOK, MadeOnce, NEW h \in Goroutines, todo[h] # <<>>,
         todo' = [todo EXCEPT ![h] = Tail(@)]
  PROVE  /\ todo' \in [Goroutines -> Seq({"with", "cancel", "wait"} \X Contexts)]
         /\ MadeOnce'
         /\ \A c : Unmade(c)' => Unmade(c)
         /\ Head(todo[h])[2] \in Contexts
         /\ Head(todo[h])[1] = "with" =>
              Unmade(Head(todo[h])[2]) /\ \A c \in Contexts : c = Head(todo[h])[2] => ~Unmade(c)'
<1> DEFINE Calls == {"with", "cancel", "wait"} \X Contexts
<1>1. todo \in [Goroutines -> Seq(Calls)] /\ todo[h] \in Seq(Calls)
  BY DEF ContextTypeOK
<1> HIDE DEF Calls
<1>2. /\ todo[h][1] = Head(todo[h]) /\ Head(todo[h]) \in Calls /\ 1 \in DOMAIN todo[h]
      /\ todo'[h] = Tail(todo[h]) /\ Tail(todo[h]) \in Seq(Calls)
      /\ Len(todo[h]) \in Nat /\ Len(Tail(todo[h])) = Len(todo[h]) - 1
      /\ \A i \in 1 .. Len(todo[h]) - 1 : Tail(todo[h])[i] = todo[h][i + 1]
  <2>1. todo[h][1] = Head(todo[h]) /\ 1 \in DOMAIN todo[h] /\ Len(todo[h]) \in Nat /\ Len(todo[h]) > 0
    BY <1>1
  <2> QED BY <1>1, <2>1, HeadTailProperties
<1>3. ASSUME NEW i \in DOMAIN todo'[h]
      PROVE  i + 1 \in DOMAIN todo[h] /\ todo'[h][i] = todo[h][i + 1] /\ i \in Nat \ {0}
  <2>0. PICK rest \in Seq(Calls) : rest = todo'[h] /\ rest = Tail(todo[h])
    BY <1>2
  <2>1. i \in 1 .. Len(todo[h]) - 1
    BY <1>2, <2>0
  <2>2. i + 1 \in 1 .. Len(todo[h]) /\ i \in Nat \ {0}
    BY <1>2, <2>1
  <2> QED BY <1>1, <1>2, <2>1, <2>2
<1>4. \A y \in Goroutines : y # h => todo'[y] = todo[y]
  OBVIOUS
<1>5. todo' \in [Goroutines -> Seq(Calls)]
  BY <1>1, <1>2
<1>6. MadeOnce'
  <2> SUFFICES ASSUME NEW y \in Goroutines, NEW z \in Goroutines,
                      NEW i \in DOMAIN todo'[y], NEW k \in DOMAIN todo'[z],
                      todo'[y][i][1] = "with", todo'[y][i] = todo'[z][k]
               PROVE  y = z /\ i = k
    BY DEF MadeOnce
  <2>1. CASE y # h /\ z # h
    BY <1>4, <2>1 DEF MadeOnce
  <2>2. CASE y = h /\ z # h
    BY <1>3, <1>4, <2>2 DEF MadeOnce
  <2>3. CASE y # h /\ z = h
    BY <1>3, <1>4, <2>3 DEF MadeOnce
  <2>4. CASE y = h /\ z = h
    <3>1. i + 1 = k + 1 /\ i \in Nat /\ k \in Nat
      BY <1>3, <2>4 DEF MadeOnce
    <3> QED BY <2>4, <3>1
  <2> QED BY <2>1, <2>2, <2>3, <2>4
<1>7. ASSUME NEW c, Unmade(c)'
      PROVE  Unmade(c)
  BY <1>3, <1>4, <1>7 DEF Unmade
<1>8. Head(todo[h]) = <<Head(todo[h])[1], Head(todo[h])[2]>> /\ Head(todo[h])[2] \in Contexts
  BY <1>2 DEF Calls
<1>9. ASSUME Head(todo[h])[1] = "with", NEW c \in Contexts, c = Head(todo[h])[2], Unmade(c)'
      PROVE  FALSE
  <2>1. todo[h][1] = <<"with", c>>
    BY <1>2, <1>8, <1>9
  <2>2. PICK y \in Goroutines : \E i \in DOMAIN todo'[y] : todo'[y][i] = <<"with", c>>
    BY <1>9 DEF Unmade
  <2>3. PICK i \in DOMAIN todo'[y] : todo'[y][i] = <<"with", c>>
    BY <2>2
  <2>4. todo[h][1][1] = "with"
    BY <2>1
  <2>5. CASE y # h
    BY <1>2, <1>4, <2>1, <2>3, <2>4, <2>5 DEF MadeOnce
  <2>6. CASE y = h
    <3>1. i + 1 = 1 /\ i \in Nat \ {0}
      BY <1>2, <1>3, <2>1, <2>3, <2>4, <2>6 DEF MadeOnce
    <3> QED BY <3>1
  <2> QED BY <2>5, <2>6
<1>10. Head(todo[h])[1] = "with" => Unmade(Head(todo[h])[2])
  BY <1>2, <1>8 DEF Unmade
<1> QED BY <1>5, <1>6, <1>7, <1>8, <1>9, <1>10 DEF Calls

\* The innermost call has a place, and what it says holds.
LEMMA TopFact ==
  ASSUME ContextInv, NEW t \in Threads, calls[t] # <<>>
  PROVE  \E d \in Nat \ {0}, k \in CallType :
           d = Depth(t) /\ d \in 1 .. Depth(t) /\ Frame(t, d) = k /\ Top(t) = k /\ CallOK(k)
<1>1. calls \in [Threads -> Seq(CallType)]
  BY DEF ContextInv, ContextTypeOK
<1>2. /\ Depth(t) \in Nat /\ Depth(t) > 0
      /\ Top(t) = Frame(t, Depth(t)) /\ Top(t) \in CallType
  BY <1>1, FrameFact
<1>3. PICK d \in Nat \ {0} : d = Depth(t)
  BY <1>2
<1>4. PICK k \in CallType : k = Top(t)
  BY <1>2
<1>5. d \in 1 .. Depth(t) /\ Frame(t, d) = k
  BY <1>2, <1>3, <1>4
<1>6. CallOK(Frame(t, d))
  BY <1>5 DEF ContextInv, CallsInv
<1>7. CallOK(k)
  BY <1>5, <1>6
<1> QED BY <1>3, <1>4, <1>5, <1>7

\* Every place is well typed before and after a step.
LEMMA ShapesFact ==
  ASSUME ContextInv, calls' \in [Threads -> Seq(CallType)]
  PROVE  FramesTyped /\ FramesTyped' /\ FramesWithin /\ FramesWithin'
<1>1. FramesTyped /\ FramesWithin
  BY TypedFact, WithinFact DEF ContextInv, ContextTypeOK, CallsTyped
<1>2. CallsTyped'
  BY DEF CallsTyped
<1>3. FramesTyped' /\ FramesWithin'
  BY <1>2, TypedFact, WithinFact, PTL
<1> QED BY <1>1, <1>3

\* What a call says holds on.
LEMMA CallOKKept ==
  ASSUME Grows, ContextTypeOK, NEW k \in CallType, CallOK(k)
  PROVE  CallOK(k)'
<1>1. k.ctx \in Contexts
  BY DEF CallType
<1>2. /\ parent(k.ctx) \in Contexts /\ err[parent(k.ctx)] # None => err'[parent(k.ctx)] # None
      /\ Finished(k.ctx) => Finished(k.ctx)'
      /\ err[k.ctx] # None => err'[k.ctx] # None
  BY <1>1 DEF Grows
<1>3. parent(k.ctx)' = parent(k.ctx) /\ Foreign(k.ctx)' = Foreign(k.ctx)
  BY DEF parent, Foreign, Grows
<1> QED BY <1>1, <1>2, <1>3 DEF CallOK

\* A step that closes no channel may still make one.
LEMMA DoneKept ==
  ASSUME ContextTypeOK, DoneInv, closed' = closed, \A c \in Contexts : err[c] # None => err'[c] # None,
         \/ done' = done
         \/ \E x \in Contexts : done' = [done EXCEPT ![x] = IF @ = None THEN x ELSE @]
  PROVE  DoneInv' /\ done' \in [Contexts -> Contexts \cup {None, ClosedChan}]
<1>1. \A c \in Contexts : done'[c] = done[c] \/ (done[c] = None /\ done'[c] = c)
  BY DEF ContextTypeOK
<1>2. \A c \in Contexts : c # ClosedChan
  BY ContextAssumption
<1>3. DoneInv'
  BY <1>1, <1>2 DEF DoneInv
<1> QED BY <1>3 DEF ContextTypeOK

\* A step that locks nothing and neither cancels nor registers a context.
Quiet == owner' = owner /\ err' = err /\ children' = children /\ tree' = tree

\* A quiet step that makes no timer of a cancelled context run hides no cancelled context.
LEMMA QuietReleases ==
  ASSUME ContextInv, FramesTyped, FramesTyped', FramesWithin, FramesWithin', Quiet,
         NEW t \in Threads, NEW d, NEW n \in 0 .. 2, NEW f, NEW g, Shape(t, d, n, f, g),
         Depth(t) = d =>
           /\ Frame(t, d).at \notin {"children", "registered", "remove"}
           /\ Frame(t, d).at = "stop" => timer'[Frame(t, d).ctx] # "armed",
         \A c \in Contexts :
           timer'[c] = "armed" => timer[c] = "armed" \/ (HasDeadline(c) /\ err[c] = None)
  PROVE  ReleasesResources'
<1>1. err' = err /\ children' = children
  BY DEF Quiet
<1>2. \A c \in Contexts : err[c] # None => err'[c] # None
  BY <1>1
<1>3. \A c \in Contexts : err'[c] # None /\ err[c] = None => n > 0 /\ f.ctx = c /\ f.at = "children"
  BY <1>1
<1>4. \A p, c \in Contexts : c \in children'[p] => c \in children[p] \/ err'[c] = None
  BY <1>1
<1>5. \A c \in Contexts : timer'[c] = "armed" => timer[c] = "armed" \/ err'[c] = None
  BY <1>1
<1>6. \A p, c \in Contexts :
        /\ Depth(t) = d /\ Frame(t, d).ctx = c /\ Frame(t, d).at \in {"children", "remove"}
        /\ c \in children'[p]
        => err'[p] # None \/ (n > 0 /\ f.ctx = c /\ f.at \in {"children", "remove"})
  OBVIOUS
<1>7. \A c \in Contexts :
        /\ Depth(t) = d /\ Frame(t, d).ctx = c /\ Frame(t, d).at \in {"children", "remove", "stop"}
        /\ timer'[c] = "armed"
        => n > 0 /\ f.ctx = c /\ f.at \in {"children", "remove", "stop"}
  OBVIOUS
<1>8. ReleasesResources /\ ContextTypeOK
  BY DEF ContextInv
<1> QED BY <1>2, <1>3, <1>4, <1>5, <1>6, <1>7, <1>8, ReleasesKept

\* What a quiet step keeps of everything but the making of contexts.
LEMMA QuietKept ==
  ASSUME ContextInv, FramesTyped, FramesTyped', FramesWithin, FramesWithin', Quiet,
         NEW t \in Threads, NEW d, NEW n \in 0 .. 2, NEW f \in CallType, NEW g \in CallType,
         Shape(t, d, n, f, g),
         n > 0 => CallOK(f) /\ f.at \notin {"children", "registered"},
         n = 2 => CallOK(g) /\ g.at = "cancel" /\ f.at = "armed",
         Depth(t) = d =>
           /\ Frame(t, d).at \notin {"children", "registered", "remove"}
           /\ Frame(t, d).at \in Cancels =>
                \/ n > 0 /\ f.at \in Cancels /\ f.ctx = Frame(t, d).ctx
                \/ n = 0 /\ Finished(Frame(t, d).ctx)
           /\ Frame(t, d).at = "stop" => timer'[Frame(t, d).ctx] # "armed",
         n > 0 /\ f.at \in {"arm", "armed"} =>
           Linked(f.ctx) \/ Foreign(f.ctx) \/ parent(f.ctx) \notin Contexts,
         \A c \in Contexts : c \in ready' \ ready => Linked(c),
         \A c \in Contexts :
           timer'[c] = "armed" => timer[c] = "armed" \/ (HasDeadline(c) /\ err[c] = None)
  PROVE  Grows /\ CallsInv' /\ LockInv' /\ ChainInv' /\ LinkInv' /\ ReleasesResources'
<1>1. Grows /\ \A c \in Contexts : Finished(c)' <=> Finished(c)
  BY FinishedSame DEF Quiet
<1>2. CallsInv'
  <2>1. (n > 0 => CallOK(f)') /\ (n = 2 => CallOK(g)')
    BY <1>1, CallOKKept DEF ContextInv
  <2> QED BY <1>1, <2>1, CallsKept DEF ContextInv
<1>3. LockInv'
  <2>1. \A c \in Contexts : ~(n > 0 /\ Locks(f, c)) /\ ~(n = 2 /\ Locks(g, c))
    BY DEF Locks
  <2> QED BY <2>1, LockKept DEF ContextInv, Quiet
<1>4. ChainInv'
  <2>1. n > 0 => Awaits(f)' = {}
    BY DEF Awaits
  <2>2. Depth(t) = d /\ Frame(t, d).at \in Cancels =>
           \/ n > 0 /\ f.at \in Cancels /\ f.ctx = Frame(t, d).ctx
           \/ n = 0 /\ \A x \in Contexts : x = Frame(t, d).ctx => Finished(x)'
    BY <1>1
  <2> HIDE DEF Cancels
  <2> QED BY <1>1, <2>1, <2>2, ChainKept DEF ContextInv, Quiet
<1>5. LinkInv'
  <2>1. \A c \in Contexts : Linked(c)' /\ ~Foreign(c) /\ parent(c) \in Contexts => Linked(c)
    <3> SUFFICES ASSUME NEW c \in Contexts, Linked(c)', ~Foreign(c), parent(c) \in Contexts
                 PROVE  Linked(c)
      OBVIOUS
    <3>1. Linked(c) \/ c \in ready' \ ready \/ (n > 0 /\ f.ctx = c /\ f.at \in {"arm", "armed"})
      BY LinkedFact
    <3> QED BY <3>1
  <2>2. \A p, c \in Contexts : c \in children[p] /\ ~Finished(p) => c \in children'[p] /\ ~Finished(p)'
    BY <1>1 DEF Quiet
  <2> QED BY <1>1, <2>1, <2>2, LinkKept DEF ContextInv, Quiet
<1>6. ReleasesResources'
  BY QuietReleases
<1> QED BY <1>1, <1>2, <1>3, <1>4, <1>5, <1>6

\* The parts of the invariant that such a step keeps whatever else it does.

\* A thread that is in a call goes on: the contexts but x do not change.
LEMMA TurnMake ==
  ASSUME ContextInv, FramesTyped, FramesTyped', todo' = todo,
         NEW t \in Threads, NEW d, NEW n \in 0 .. 2, NEW f \in CallType, NEW g \in CallType,
         Shape(t, d, n, f, g), Depth(t) = d, NEW x \in Contexts, Frame(t, d).ctx = x,
         n > 0 => f.ctx = x,
         n = 2 => g.at = "cancel" /\ (g.ctx = x \/ ~Untouched(g.ctx)),
         \A c \in Contexts : c # x => err'[c] = err[c] /\ timer'[c] = timer[c] /\ (c \in ready' => c \in ready),
         \A p, c \in Contexts : c # x /\ c \in children'[p] => c \in children[p],
         n > 0 /\ f.at \in {"propagate", "register"} =>
           /\ n = 1 /\ Frame(t, d).at \in {"propagate", "register"}
           /\ err'[x] = err[x] /\ timer'[x] = timer[x] /\ (x \in ready' => x \in ready)
           /\ \A p \in Contexts : x \in children'[p] => x \in children[p],
         n > 0 /\ f.at \in Makes => Frame(t, d).at \in Makes,
         n > 0 /\ f.at \in {"registered", "arm"} => timer'[x] = "none",
         timer'[x] \in {"none", "armed"} => timer[x] \in {"none", "armed"},
         timer[x] = "none" /\ timer'[x] # "none" => Frame(t, d).at \in Makes
  PROVE  MadeOnce' /\ MakeInv'
<1>1. MadeOnce' /\ \A c : Unmade(c)' <=> Unmade(c)
  BY DEF MadeOnce, Unmade, ContextInv
<1>2. \A c \in Contexts : Untouched(c) /\ c # x => Untouched(c)'
  <2> SUFFICES ASSUME NEW c \in Contexts, Untouched(c), c # x
               PROVE  Untouched(c)'
    OBVIOUS
  <2>1. n = 1 => f.ctx \in Contexts /\ f.ctx # c
    OBVIOUS
  <2> QED BY <2>1, UntouchedKept DEF ContextInv
<1>3. n > 0 /\ f.at \in {"propagate", "register"} => (Untouched(x) => Untouched(x)')
  <2> SUFFICES ASSUME n > 0, f.at \in {"propagate", "register"}, Untouched(x)
               PROVE  Untouched(x)'
    OBVIOUS
  <2>1. ~(n = 1 /\ f.at = "arm")
    OBVIOUS
  <2> QED BY <2>1, UntouchedKept DEF ContextInv
<1> HIDE DEF Makes
<1>4. Making(t, d, n, f, g, x)
  BY <1>1, <1>2, <1>3 DEF Making
<1> QED BY <1>1, <1>4, MakeKept DEF ContextInv

\* A thread that is in no call begins one about x, which has been made.
LEMMA StartMake ==
  ASSUME ContextInv, FramesTyped, FramesTyped',
         MadeOnce', \A c \in Contexts : Unmade(c)' => Unmade(c),
         NEW t \in Threads, NEW f \in CallType, Shape(t, 1, 1, f, f), Depth(t) = 0,
         NEW x \in Contexts, f.ctx = x, f.at \in {"cancel", "wait"}, ~Untouched(x),
         err' = err, children' = children, ready' = ready,
         \A c \in Contexts : c # x => timer'[c] = timer[c],
         \/ timer' = timer /\ t \in Goroutines
         \/ timer[x] # "none" /\ timer'[x] = "fired" /\ t = Timer(x)
  PROVE  MakeInv'
<1>0. PICK d \in Nat, n \in 0 .. 2 : d = 1 /\ n = 1
  OBVIOUS
<1>1. Depth(t) # d /\ n > 0 /\ n # 2 /\ Shape(t, d, n, f, f)
  BY <1>0
<1>2. \A c \in Contexts : Untouched(c) /\ c # x => Untouched(c)'
  <2> SUFFICES ASSUME NEW c \in Contexts, Untouched(c), c # x
               PROVE  Untouched(c)'
    OBVIOUS
  <2>1. t \in Goroutines \/ (\E y \in Contexts : t = Timer(y) /\ y # c)
    OBVIOUS
  <2> QED BY <2>1, UntouchedKept DEF ContextInv
<1>3. \A c \in Contexts : Unmade(c)' => c # x
  BY DEF ContextInv, MakeInv
<1>4. f.at \notin Makes /\ f.at \notin {"propagate", "register"} /\ f.at \notin {"registered", "arm"}
  BY DEF Makes
<1>5. \A c \in Contexts : t = Timer(c) => timer'[c] \notin {"none", "armed"}
  BY ThreadFact
<1> HIDE DEF Makes
<1>6. \A c \in Contexts : ~(timer[c] = "none" /\ timer'[c] # "none")
  OBVIOUS
<1>7. \A c \in Contexts : timer'[c] \in {"none", "armed"} => timer[c] \in {"none", "armed"}
  OBVIOUS
<1>8. Making(t, d, n, f, f, x)
  BY <1>1, <1>2, <1>3, <1>4, <1>5, <1>6, <1>7 DEF Making
<1> QED BY <1>8, MakeKept DEF ContextInv

\* A step of a call leaves the rest of the program alone.
LEMMA TodoSame ==
  ASSUME todo' = todo, ContextInv
  PROVE  MadeOnce' /\ todo' \in [Goroutines -> Seq({"with", "cancel", "wait"} \X Contexts)]
BY DEF ContextInv, MadeOnce, ContextTypeOK

-----------------------------------------------------------------------------
(* The steps.                                                              *)

\* A thread that is in a call k about x goes on, or nests a cancel, with a quiet step.
LEMMA QuietTurn ==
  ASSUME ContextInv, Quiet, todo' = todo, closed' = closed,
         done' = done \/ (\E y \in Contexts : done' = [done EXCEPT ![y] = IF @ = None THEN y ELSE @]),
         NEW t \in Threads, NEW d \in Nat \ {0}, NEW k \in CallType, d = Depth(t), Frame(t, d) = k,
         NEW x \in Contexts, k.ctx = x, k.at \notin {"children", "registered", "remove"},
         NEW n \in 0 .. 2, NEW f \in CallType, NEW g \in CallType,
         Shape(t, d, n, f, g), calls' \in [Threads -> Seq(CallType)],
         n > 0 => f.ctx = x /\ CallOK(f) /\ f.at \notin {"children", "registered"},
         n = 2 => CallOK(g) /\ g.at = "cancel" /\ g.ctx = x /\ f.at = "armed",
         k.at \in Cancels => (n > 0 /\ f.at \in Cancels) \/ (n = 0 /\ Finished(x)),
         ready' = ready \/ (ready' = ready \cup {x} /\ Linked(x) /\ n = 0),
         \/ timer' = timer /\ k.at # "stop"
         \/ timer' = timer /\ timer[x] # "armed"
         \/ /\ timer' = [timer EXCEPT ![x] = "armed"]
            /\ timer[x] = "none" /\ k.at = "arm" /\ n = 0 /\ HasDeadline(x) /\ err[x] = None
         \/ /\ timer' = [timer EXCEPT ![x] = "stopped"]
            /\ timer[x] = "armed" /\ n = 0,
         n > 0 /\ f.at \in {"arm", "armed"} => Linked(x) \/ Foreign(x) \/ parent(x) \notin Contexts,
         n > 0 /\ f.at = "arm" => timer[x] = "none",
         n > 0 /\ f.at \in {"propagate", "register"} => n = 1 /\ k.at \in {"propagate", "register"},
         n > 0 /\ f.at \in Makes => k.at \in Makes
  PROVE  ContextInv'
<1>1. FramesTyped /\ FramesTyped' /\ FramesWithin /\ FramesWithin'
  BY ShapesFact
<1>2. timer \in [Contexts -> {"none", "armed", "fired", "stopped"}]
  BY DEF ContextInv, ContextTypeOK
<1>3. /\ timer' \in [Contexts -> {"none", "armed", "fired", "stopped"}]
      /\ \A c \in Contexts : c # x => timer'[c] = timer[c]
      /\ timer'[x] = "armed" => timer[x] = "armed" \/ (timer[x] = "none" /\ HasDeadline(x) /\ err[x] = None)
      /\ timer'[x] \in {"none", "armed"} => timer[x] \in {"none", "armed"}
      /\ timer[x] = "none" /\ timer'[x] # "none" => k.at = "arm"
      /\ k.at = "stop" => timer'[x] # "armed"
      /\ n > 0 => timer' = timer
  <2>1. CASE timer' = timer
    BY <1>2, <2>1
  <2>2. CASE /\ timer' = [timer EXCEPT ![x] = "armed"]
             /\ timer[x] = "none" /\ k.at = "arm" /\ n = 0 /\ HasDeadline(x) /\ err[x] = None
    BY <1>2, <2>2
  <2>3. CASE timer' = [timer EXCEPT ![x] = "stopped"] /\ timer[x] = "armed" /\ n = 0
    BY <1>2, <2>3
  <2> QED BY <2>1, <2>2, <2>3
<1>4. DoneInv' /\ done' \in [Contexts -> Contexts \cup {None, ClosedChan}]
  BY DoneKept DEF ContextInv, Quiet
<1>5. ContextTypeOK'
  <2>1. ready' \subseteq Contexts
    BY DEF ContextInv, ContextTypeOK
  <2> QED BY <1>3, <1>4, <2>1, TodoSame DEF ContextInv, ContextTypeOK, Quiet
<1>6. Depth(t) = d
  OBVIOUS
<1>7. Grows /\ CallsInv' /\ LockInv' /\ ChainInv' /\ LinkInv' /\ ReleasesResources'
  <2>1. Frame(t, d).at \in Cancels =>
           \/ n > 0 /\ f.at \in Cancels /\ f.ctx = Frame(t, d).ctx
           \/ n = 0 /\ Finished(Frame(t, d).ctx)
    OBVIOUS
  <2>2. \A c \in Contexts : c \in ready' \ ready => Linked(c)
    OBVIOUS
  <2>3. \A c \in Contexts : timer'[c] = "armed" => timer[c] = "armed" \/ (HasDeadline(c) /\ err[c] = None)
    BY <1>3
  <2>4. Frame(t, d).at = "stop" => timer'[Frame(t, d).ctx] # "armed"
    BY <1>3
  <2> HIDE DEF Cancels
  <2> QED BY <1>1, <2>1, <2>2, <2>3, <2>4, QuietKept
<1>8. MadeOnce' /\ MakeInv'
  <2>1. \A c \in Contexts : c # x => err'[c] = err[c] /\ timer'[c] = timer[c] /\ (c \in ready' => c \in ready)
    BY <1>3 DEF Quiet
  <2>2. \A p, c \in Contexts : c # x /\ c \in children'[p] => c \in children[p]
    BY DEF Quiet
  <2>3. n > 0 /\ f.at \in {"propagate", "register"} =>
           /\ n = 1 /\ Frame(t, d).at \in {"propagate", "register"}
           /\ err'[x] = err[x] /\ timer'[x] = timer[x] /\ (x \in ready' => x \in ready)
           /\ \A p \in Contexts : x \in children'[p] => x \in children[p]
    BY <1>3 DEF Quiet
  <2>4. timer[x] = "none" /\ timer'[x] # "none" => Frame(t, d).at \in Makes
    BY <1>3 DEF Makes
  <2>5. n > 0 /\ f.at \in {"registered", "arm"} => timer'[x] = "none"
    BY <1>3
  <2>6. n = 2 => g.at = "cancel" /\ (g.ctx = x \/ ~Untouched(g.ctx))
    OBVIOUS
  <2> HIDE DEF Makes
  <2> QED BY <1>1, <1>3, <1>6, <2>1, <2>2, <2>3, <2>4, <2>5, <2>6, TurnMake
<1> QED BY <1>4, <1>5, <1>7, <1>8 DEF ContextInv

\* Arm keeps the invariant: no timer ran before for this context.
LEMMA ArmKeeps ==
  ASSUME ContextInv, NEW t \in Threads, Arm(t), todo' = todo
  PROVE  ContextInv'
<1>1. calls[t] # <<>> /\ Top(t).at = "arm" /\ Becomes(t, <<>>)
  BY DEF Arm, At, Return
<1>3. PICK d \in Nat \ {0}, k \in CallType :
        d = Depth(t) /\ d \in 1 .. Depth(t) /\ Frame(t, d) = k /\ Top(t) = k /\ CallOK(k)
  BY <1>1, TopFact
<1>4. PICK x \in Contexts : x = k.ctx
  BY DEF CallType
<1>5. Shape(t, d, 0, k, k) /\ calls' \in [Threads -> Seq(CallType)]
  BY <1>1, <1>3, PopsFact DEF ContextInv, ContextTypeOK
<1>6. k.at = "arm" /\ k.at \notin Cancels /\ timer[x] = "none"
  BY <1>1, <1>3, <1>4 DEF ContextInv, MakeInv, Cancels
<1>7. /\ Quiet /\ closed' = closed /\ done' = done /\ ready' = ready \cup {x}
      /\ \/ timer' = timer
         \/ /\ HasDeadline(x) /\ err[x] = None
            /\ timer' = [timer EXCEPT ![x] = "armed"]
  BY <1>3, <1>4 DEF Arm, Return, Quiet, ContextInv, ContextTypeOK
<1>8. Linked(x)
  <2>1. FramesWithin
    BY <1>5, ShapesFact
  <2> QED BY <1>3, <1>4, <1>6, <2>1 DEF Linked, FramesWithin
<1>9. 0 \in 0 .. 2 /\ ~(0 > 0) /\ 0 # 2
  OBVIOUS
<1> HIDE DEF Cancels, Makes
<1> QED BY <1>3, <1>4, <1>5, <1>6, <1>7, <1>8, <1>9, QuietTurn

\* A call of cancel.
LEMMA CancellingFact ==
  ASSUME NEW x \in Contexts, NEW r \in BOOLEAN, NEW e \in {None, "Canceled", "DeadlineExceeded"}
  PROVE  /\ Cancelling(x, r, e) \in CallType
         /\ Cancelling(x, r, e).at = "cancel" /\ Cancelling(x, r, e).ctx = x
         /\ Cancelling(x, r, e).remove = r /\ Cancelling(x, r, e).err = e
<1>1. Cancelling(x, r, e) =
        [at |-> "cancel", ctx |-> x, remove |-> r, err |-> e, left |-> {}, chans |-> <<>>]
  BY DEF Cancelling
<1>2. <<>> \in Seq(Contexts \cup {ClosedChan}) /\ {} \in SUBSET Contexts
  OBVIOUS
<1> QED BY <1>1, <1>2 DEF CallType, Cancels

\* The deadline of a context that is being made has passed.
LEMMA ArmLateKeeps ==
  ASSUME ContextInv, NEW t \in Threads, ArmLate(t), todo' = todo
  PROVE  ContextInv'
<1>1. calls[t] # <<>> /\ Top(t).at = "arm"
  BY DEF ArmLate, At
<1>2. PICK d \in Nat \ {0}, k \in CallType :
        d = Depth(t) /\ d \in 1 .. Depth(t) /\ Frame(t, d) = k /\ Top(t) = k /\ CallOK(k)
  BY <1>1, TopFact
<1>3. PICK x \in Contexts : x = k.ctx
  BY DEF CallType
<1>4. PICK f \in CallType : f = [k EXCEPT !.at = "armed"]
  BY DEF CallType, Makes
<1>5. PICK g \in CallType : g = Cancelling(x, TRUE, "DeadlineExceeded")
  BY CancellingFact
<1>6. Becomes(t, <<g, f>>)
  BY <1>2, <1>3, <1>4, <1>5 DEF ArmLate
<1>7. Shape(t, d, 2, f, g) /\ calls' \in [Threads -> Seq(CallType)]
  BY <1>1, <1>2, <1>6, NestsFact DEF ContextInv, ContextTypeOK
<1>8. k.at = "arm" /\ f.ctx = x /\ f.at = "armed" /\ g.ctx = x /\ g.at = "cancel" /\ g.remove /\ g.err = "DeadlineExceeded"
  <2>1. g.at = "cancel" /\ g.ctx = x /\ g.remove /\ g.err = "DeadlineExceeded"
    <3>1. TRUE \in BOOLEAN /\ "DeadlineExceeded" \in {None, "Canceled", "DeadlineExceeded"}
      OBVIOUS
    <3>2. LET y == Cancelling(x, TRUE, "DeadlineExceeded") IN
            y.at = "cancel" /\ y.ctx = x /\ y.remove = TRUE /\ y.err = "DeadlineExceeded"
      BY <3>1, CancellingFact, ZenonT(40)
    <3> QED BY <1>5, <3>2
  <2>2. k.at = "arm"
    BY <1>1, <1>2
  <2>3. f.ctx = x /\ f.at = "armed"
    BY <1>3, <1>4 DEF CallType
  <2> QED BY <2>1, <2>2, <2>3
<1>9. CallOK(f) /\ CallOK(g)
  BY <1>8, ContextAssumption DEF CallOK, Cancels
<1>10. Linked(x)
  <2>1. FramesWithin
    BY <1>7, ShapesFact
  <2> QED BY <1>2, <1>3, <1>8, <2>1 DEF Linked, FramesWithin
<1>11. k.at \notin Cancels /\ k.at \in Makes
  BY <1>8 DEF Cancels, Makes
<1>12. 2 \in 0 .. 2 /\ 2 > 0
  OBVIOUS
<1>13. Quiet /\ closed' = closed /\ done' = done /\ ready' = ready /\ timer' = timer
  BY DEF ArmLate, Quiet
<1> HIDE DEF Cancels, Makes
<1> QED BY <1>2, <1>3, <1>7, <1>8, <1>9, <1>10, <1>11, <1>12, <1>13, QuietTurn

\* Armed keeps the invariant.
LEMMA ArmedKeeps ==
  ASSUME ContextInv, NEW t \in Threads, Armed(t), todo' = todo
  PROVE  ContextInv'
<1>1. calls[t] # <<>> /\ Top(t).at = "armed" /\ Becomes(t, <<>>)
  BY DEF Armed, At, Return
<1>2. PICK d \in Nat \ {0}, k \in CallType :
        d = Depth(t) /\ d \in 1 .. Depth(t) /\ Frame(t, d) = k /\ Top(t) = k /\ CallOK(k)
  BY <1>1, TopFact
<1>3. PICK x \in Contexts : x = k.ctx
  BY DEF CallType
<1>4. Shape(t, d, 0, k, k) /\ calls' \in [Threads -> Seq(CallType)]
  BY <1>1, <1>2, PopsFact DEF ContextInv, ContextTypeOK
<1>5. k.at = "armed" /\ k.at \notin Cancels
  BY <1>1, <1>2 DEF Cancels
<1>6. Quiet /\ closed' = closed /\ done' = done /\ ready' = ready \cup {x} /\ timer' = timer
  BY <1>2, <1>3 DEF Armed, Return, Quiet
<1>7. Linked(x)
  <2>1. FramesWithin
    BY <1>4, ShapesFact
  <2> QED BY <1>2, <1>3, <1>5, <2>1 DEF Linked, FramesWithin
<1>8. 0 \in 0 .. 2 /\ ~(0 > 0) /\ 0 # 2
  OBVIOUS
<1> HIDE DEF Cancels, Makes
<1> QED BY <1>2, <1>3, <1>4, <1>5, <1>6, <1>7, <1>8, QuietTurn

\* A context that nobody holds and that has been cancelled is done with.
LEMMA FreeFinished ==
  ASSUME ContextInv, NEW x \in Contexts, Free(x), err[x] # None
  PROVE  Finished(x)
<1>1. FramesWithin
  BY WithinFact DEF ContextInv, ContextTypeOK, CallsTyped
<1>2. ASSUME Within(x, {"children"})
      PROVE  FALSE
  <2>1. PICK h \in Threads :
          \E j \in 1 .. Depth(h) : Frame(h, j).ctx = x /\ Frame(h, j).at \in {"children"}
    BY <1>1, <1>2 DEF FramesWithin
  <2>2. PICK j \in 1 .. Depth(h) : Locks(Frame(h, j), x)
    BY <2>1 DEF Locks
  <2>3. owner[x] = h
    BY <2>2 DEF ContextInv, LockInv
  <2> QED BY <2>3, ThreadFact DEF Free
<1> QED BY <1>2 DEF Finished

\* The calls that follow a cancel.
LEMMA StoppingFact ==
  ASSUME NEW k \in CallType
  PROVE  \/ Stopping(k) = <<>> /\ ~HasDeadline(k.ctx)
         \/ \E f \in CallType :
              /\ Stopping(k) = <<f>> /\ HasDeadline(k.ctx)
              /\ f.at = "stop" /\ f.ctx = k.ctx /\ f.remove = k.remove /\ f.err = k.err
<1>1. CASE HasDeadline(k.ctx)
  <2>1. PICK f \in CallType : f = [k EXCEPT !.at = "stop"]
    BY DEF CallType, Cancels
  <2>2. f.at = "stop" /\ f.ctx = k.ctx /\ f.remove = k.remove /\ f.err = k.err
    BY <2>1 DEF CallType
  <2> QED BY <1>1, <2>1, <2>2 DEF Stopping
<1>2. CASE ~HasDeadline(k.ctx)
  BY <1>2 DEF Stopping
<1> QED BY <1>1, <1>2

\* What follows once cancelCtx.cancel has let go of a context.
LEMMA CancelledFact ==
  ASSUME NEW k \in CallType
  PROVE  \/ Cancelled(k) = <<>> /\ ~HasDeadline(k.ctx) /\ ~k.remove
         \/ \E f \in CallType :
              /\ Cancelled(k) = <<f>>
              /\ f.at = "remove" \/ (f.at = "stop" /\ ~k.remove)
              /\ f.ctx = k.ctx /\ f.remove = k.remove /\ f.err = k.err
<1>1. CASE k.remove
  <2>1. PICK f \in CallType : f = [k EXCEPT !.at = "remove"]
    BY DEF CallType, Cancels
  <2>2. f.at = "remove" /\ f.ctx = k.ctx /\ f.remove = k.remove /\ f.err = k.err
    BY <2>1 DEF CallType
  <2> QED BY <1>1, <2>1, <2>2 DEF Cancelled
<1>2. CASE ~k.remove
  BY <1>2, StoppingFact DEF Cancelled
<1> QED BY <1>1, <1>2

\* CancelAgain keeps the invariant: a cancel that found the lock free has ended.
LEMMA CancelAgainKeeps ==
  ASSUME ContextInv, NEW t \in Threads, CancelAgain(t), todo' = todo
  PROVE  ContextInv'
<1>1. calls[t] # <<>> /\ Top(t).at = "cancel"
  BY DEF CancelAgain, At
<1>2. PICK d \in Nat \ {0}, k \in CallType :
        d = Depth(t) /\ d \in 1 .. Depth(t) /\ Frame(t, d) = k /\ Top(t) = k /\ CallOK(k)
  BY <1>1, TopFact
<1>3. PICK x \in Contexts : x = k.ctx
  BY DEF CallType
<1>4. k.at = "cancel" /\ k.at \in Cancels
  BY <1>1, <1>2 DEF Cancels
<1>5. Free(x) /\ err[x] # None /\ Becomes(t, IF HasDeadline(x) THEN Cancelled(k) ELSE <<>>)
  BY <1>2, <1>3 DEF CancelAgain
<1>6. Finished(x)
  BY <1>5, FreeFinished
<1>7. Quiet /\ closed' = closed /\ done' = done /\ ready' = ready /\ timer' = timer
  BY DEF CancelAgain, Quiet
<1>8. CASE Becomes(t, <<>>)
  <2>1. Shape(t, d, 0, k, k) /\ calls' \in [Threads -> Seq(CallType)]
    BY <1>1, <1>2, <1>8, PopsFact DEF ContextInv, ContextTypeOK
  <2>2. 0 \in 0 .. 2 /\ ~(0 > 0) /\ 0 # 2
    OBVIOUS
  <2> HIDE DEF Cancels, Makes
  <2> QED BY <1>2, <1>3, <1>4, <1>6, <1>7, <2>1, <2>2, QuietTurn
<1>9. ASSUME NEW f \in CallType, Becomes(t, <<f>>), f.at \in {"remove", "stop"},
             f.ctx = k.ctx, f.remove = k.remove, f.err = k.err
      PROVE  ContextInv'
  <2>1. Shape(t, d, 1, f, f) /\ calls' \in [Threads -> Seq(CallType)]
    BY <1>1, <1>2, <1>9, TurnsFact DEF ContextInv, ContextTypeOK
  <2>2. 1 \in 0 .. 2 /\ 1 > 0 /\ 1 # 2
    OBVIOUS
  <2>3. CallOK(f)
    BY <1>2, <1>3, <1>4, <1>6, <1>9 DEF CallOK
  <2>4. f.at \in Cancels /\ f.at \notin Makes /\ f.at \notin {"children", "registered", "arm", "armed", "propagate", "register"}
    BY <1>9 DEF Cancels, Makes
  <2> HIDE DEF Cancels, Makes
  <2> QED BY <1>2, <1>3, <1>4, <1>7, <1>9, <2>1, <2>2, <2>3, <2>4, QuietTurn
<1>10. CASE HasDeadline(x)
  BY <1>3, <1>5, <1>8, <1>9, <1>10, CancelledFact
<1> QED BY <1>5, <1>8, <1>10

\* StopTimer keeps the invariant: the timer runs no more.
LEMMA StopTimerKeeps ==
  ASSUME ContextInv, NEW t \in Threads, StopTimer(t), todo' = todo
  PROVE  ContextInv'
<1>1. calls[t] # <<>> /\ Top(t).at = "stop" /\ Becomes(t, <<>>)
  BY DEF StopTimer, At
<1>2. PICK d \in Nat \ {0}, k \in CallType :
        d = Depth(t) /\ d \in 1 .. Depth(t) /\ Frame(t, d) = k /\ Top(t) = k /\ CallOK(k)
  BY <1>1, TopFact
<1>3. PICK x \in Contexts : x = k.ctx
  BY DEF CallType
<1>4. Shape(t, d, 0, k, k) /\ calls' \in [Threads -> Seq(CallType)]
  BY <1>1, <1>2, PopsFact DEF ContextInv, ContextTypeOK
<1>5. k.at = "stop" /\ Finished(x)
  BY <1>1, <1>2, <1>3 DEF CallOK
<1>6. /\ Quiet /\ closed' = closed /\ done' = done /\ ready' = ready
      /\ \/ timer' = timer /\ timer[x] # "armed"
         \/ timer' = [timer EXCEPT ![x] = "stopped"] /\ timer[x] = "armed"
  <2>1. timer' = [timer EXCEPT ![x] = IF timer[x] = "armed" THEN "stopped" ELSE timer[x]]
    BY <1>2, <1>3 DEF StopTimer
  <2>2. Quiet /\ closed' = closed /\ done' = done /\ ready' = ready
    BY DEF StopTimer, Quiet
  <2> QED BY <2>1, <2>2 DEF ContextInv, ContextTypeOK
<1>7. 0 \in 0 .. 2 /\ ~(0 > 0) /\ 0 # 2
  OBVIOUS
<1> HIDE DEF Cancels, Makes
<1> QED BY <1>2, <1>3, <1>4, <1>5, <1>6, <1>7, QuietTurn

\* The end of a wait.
LEMMA WaitedKeeps ==
  ASSUME ContextInv, NEW t \in Threads, Waited(t) \/ WatchChild(t), todo' = todo
  PROVE  ContextInv'
<1>1. calls[t] # <<>> /\ Top(t).at \in {"wait", "select"} /\ Becomes(t, <<>>)
  BY DEF Waited, WatchChild, At
<1>2. PICK d \in Nat \ {0}, k \in CallType :
        d = Depth(t) /\ d \in 1 .. Depth(t) /\ Frame(t, d) = k /\ Top(t) = k /\ CallOK(k)
  BY <1>1, TopFact
<1>3. PICK x \in Contexts : x = k.ctx
  BY DEF CallType
<1>4. Shape(t, d, 0, k, k) /\ calls' \in [Threads -> Seq(CallType)]
  BY <1>1, <1>2, PopsFact DEF ContextInv, ContextTypeOK
<1>5. k.at \in {"wait", "select"} /\ k.at \notin Cancels
  BY <1>1, <1>2 DEF Cancels
<1>6. Quiet /\ closed' = closed /\ done' = done /\ ready' = ready /\ timer' = timer
  BY DEF Waited, WatchChild, Quiet
<1>7. 0 \in 0 .. 2 /\ ~(0 > 0) /\ 0 # 2
  OBVIOUS
<1> HIDE DEF Cancels, Makes
<1> QED BY <1>2, <1>3, <1>4, <1>5, <1>6, <1>7, QuietTurn

\* The goroutine that watches a foreign parent.
LEMMA WatchParentKeeps ==
  ASSUME ContextInv, NEW t \in Threads, WatchParent(t), todo' = todo
  PROVE  ContextInv'
<1>1. calls[t] # <<>> /\ Top(t).at = "select"
  BY DEF WatchParent, At
<1>2. PICK d \in Nat \ {0}, k \in CallType :
        d = Depth(t) /\ d \in 1 .. Depth(t) /\ Frame(t, d) = k /\ Top(t) = k /\ CallOK(k)
  BY <1>1, TopFact
<1>3. PICK x \in Contexts : x = k.ctx
  BY DEF CallType
<1>4. k.at = "select" /\ k.at \notin Cancels
  BY <1>1, <1>2 DEF Cancels
<1>5. /\ Foreign(x) /\ parent(x) \in Contexts /\ k.chans[1] \in {parent(x), ClosedChan}
      /\ k.chans[1] = ClosedChan => err[parent(x)] # None
  BY <1>2, <1>3, <1>4 DEF CallOK
<1>6. err[parent(x)] # None /\ err[parent(x)] \in {None, "Canceled", "DeadlineExceeded"}
  <2>1. IsClosed(k.chans[1])
    BY <1>2 DEF WatchParent
  <2> QED BY <1>5, <2>1 DEF IsClosed, ContextInv, DoneInv, ContextTypeOK
<1>7. PICK f \in CallType :
        f = Cancelling(x, FALSE, err[parent(x)]) /\ f.at = "cancel" /\ f.ctx = x /\ f.err # None
  <2>1. PICK e \in {None, "Canceled", "DeadlineExceeded"} : e = err[parent(x)] /\ e # None
    BY <1>6
  <2>2. Cancelling(x, FALSE, e) \in CallType
    BY CancellingFact
  <2>3. /\ Cancelling(x, FALSE, e).at = "cancel" /\ Cancelling(x, FALSE, e).ctx = x
        /\ Cancelling(x, FALSE, e).err = e
    BY DEF Cancelling
  <2> QED BY <2>1, <2>2, <2>3
<1>8. f.at = "cancel" /\ f.ctx = x /\ f.err # None
  BY <1>7
<1>9. Becomes(t, <<f>>)
  BY <1>2, <1>3, <1>7 DEF WatchParent
<1>10. Shape(t, d, 1, f, f) /\ calls' \in [Threads -> Seq(CallType)]
  BY <1>1, <1>2, <1>9, TurnsFact DEF ContextInv, ContextTypeOK
<1>11. CallOK(f)
  BY <1>5, <1>8 DEF CallOK
<1>12. f.at \notin Makes /\ f.at \notin {"children", "registered", "arm", "armed", "propagate", "register"}
  BY <1>8 DEF Makes
<1>13. 1 \in 0 .. 2 /\ 1 > 0 /\ 1 # 2
  OBVIOUS
<1>14. Quiet /\ closed' = closed /\ done' = done /\ ready' = ready /\ timer' = timer
  BY DEF WatchParent, Quiet
<1> HIDE DEF Cancels, Makes
<1> QED BY <1>2, <1>3, <1>4, <1>8, <1>10, <1>11, <1>12, <1>13, <1>14, QuietTurn

\* WatchDone keeps the invariant: what it reads is closed for a cancelled context only.
LEMMA WatchDoneKeeps ==
  ASSUME ContextInv, NEW t \in Threads, WatchDone(t), todo' = todo
  PROVE  ContextInv'
<1>1. calls[t] # <<>> /\ Top(t).at = "watch"
  BY DEF WatchDone, At
<1>2. PICK d \in Nat \ {0}, k \in CallType :
        d = Depth(t) /\ d \in 1 .. Depth(t) /\ Frame(t, d) = k /\ Top(t) = k /\ CallOK(k)
  BY <1>1, TopFact
<1>3. PICK x \in Contexts : x = k.ctx
  BY DEF CallType
<1>4. k.at = "watch" /\ k.at \notin Cancels
  BY <1>1, <1>2 DEF Cancels
<1>5. /\ Foreign(x) /\ parent(x) \in Contexts
      /\ k.chans # <<>> => /\ k.chans[1] \in {parent(x), ClosedChan}
                           /\ k.chans[1] = ClosedChan => err[parent(x)] # None
  BY <1>2, <1>3, <1>4 DEF CallOK
<1>6. PICK y \in Contexts : y = IF k.chans = <<>> THEN parent(x) ELSE x
  BY <1>5
<1>7. PICK ch : ch = done'[y]
  OBVIOUS
<1>8. done' = [done EXCEPT ![y] = IF @ = None THEN y ELSE @]
  BY <1>2, <1>3, <1>6 DEF WatchDone, Done
<1>9. ch \in {y, ClosedChan} /\ (ch = ClosedChan => err[y] # None)
  <2>1. ch = IF done[y] = None THEN y ELSE done[y]
    BY <1>7, <1>8 DEF ContextInv, ContextTypeOK
  <2>2. done[y] \in {None, y, ClosedChan} /\ (done[y] = ClosedChan => err[y] # None) /\ y # ClosedChan
    BY ContextAssumption DEF ContextInv, DoneInv
  <2> QED BY <2>1, <2>2
<1>10. PICK cs : cs = Append(k.chans, ch)
  OBVIOUS
<1>11. /\ cs \in Seq(Contexts \cup {ClosedChan}) /\ cs # <<>>
       /\ cs[1] = IF k.chans = <<>> THEN ch ELSE k.chans[1]
  <2>1. k.chans \in Seq(Contexts \cup {ClosedChan}) /\ ch \in Contexts \cup {ClosedChan}
    BY <1>9 DEF CallType
  <2>2. Len(k.chans) \in Nat /\ (k.chans = <<>> <=> Len(k.chans) = 0)
    BY <2>1
  <2> QED BY <1>10, <2>1, <2>2
<1>12. PICK f \in CallType : f = [k EXCEPT !.chans = cs, !.at = IF y = x THEN "select" ELSE k.at]
  BY <1>4, <1>11 DEF CallType
<1>13. f.at \in {"watch", "select"} /\ f.ctx = x /\ f.chans = cs
  BY <1>3, <1>4, <1>12 DEF CallType
<1>14. Becomes(t, <<f>>)
  BY <1>2, <1>3, <1>6, <1>7, <1>10, <1>12 DEF WatchDone
<1>15. Shape(t, d, 1, f, f) /\ calls' \in [Threads -> Seq(CallType)]
  BY <1>1, <1>2, <1>14, TurnsFact DEF ContextInv, ContextTypeOK
<1>16. CallOK(f)
  <2>1. cs[1] \in {parent(x), ClosedChan} /\ (cs[1] = ClosedChan => err[parent(x)] # None)
    BY <1>5, <1>6, <1>9, <1>11
  <2> QED BY <1>5, <1>11, <1>13, <2>1 DEF CallOK, Cancels
<1>17. f.at \notin Makes /\ f.at \notin {"children", "registered", "arm", "armed", "propagate", "register"}
  BY <1>13 DEF Makes
<1>18. 1 \in 0 .. 2 /\ 1 > 0 /\ 1 # 2
  OBVIOUS
<1>19. Quiet /\ closed' = closed /\ ready' = ready /\ timer' = timer
  BY DEF WatchDone, Quiet
<1> HIDE DEF Cancels, Makes
<1> QED BY <1>2, <1>3, <1>4, <1>8, <1>13, <1>15, <1>16, <1>17, <1>18, <1>19, QuietTurn

\* A thread in a call that is no cancel is in no other.
LEMMA OnlyCall ==
  ASSUME ContextInv, NEW t \in Threads, NEW d \in Nat \ {0}, d = Depth(t),
         Frame(t, d).at \notin Cancels
  PROVE  d = 1
<1> SUFFICES ASSUME d # 1
             PROVE  FALSE
  OBVIOUS
<1>1. PICK j \in Nat : j = d - 1
  OBVIOUS
<1>2. j \in 1 .. Depth(t) /\ j < Depth(t) /\ j + 1 = d
  BY <1>1
<1>3. Frame(t, j + 1).at \in Cancels
  BY <1>2 DEF ContextInv, ChainInv
<1> QED BY <1>2, <1>3

\* propagateCancel, under a foreign parent and under another.
LEMMA PropagateKeeps ==
  ASSUME ContextInv, NEW t \in Threads, Propagate(t), todo' = todo
  PROVE  ContextInv'
<1>1. calls[t] # <<>> /\ Top(t).at = "propagate"
  BY DEF Propagate, At
<1>2. PICK d \in Nat \ {0}, k \in CallType :
        d = Depth(t) /\ d \in 1 .. Depth(t) /\ Frame(t, d) = k /\ Top(t) = k /\ CallOK(k)
  BY <1>1, TopFact
<1>3. PICK x \in Contexts : x = k.ctx
  BY DEF CallType
<1>4. k.at = "propagate" /\ k.at \notin Cancels /\ k.at \in Makes /\ parent(x) \in Contexts
  BY <1>1, <1>2, <1>3 DEF Cancels, Makes, CallOK
<1>5. PICK p \in Contexts : p = parent(x)
  BY <1>4
<1>6. PICK f \in CallType : f = [k EXCEPT !.at = IF Foreign(x) THEN "arm" ELSE "register"]
  BY DEF CallType, Makes
<1>7. f.ctx = x /\ (Foreign(x) => f.at = "arm") /\ (~Foreign(x) => f.at = "register")
  BY <1>3, <1>6 DEF CallType
<1>8. /\ done' = [done EXCEPT ![p] = IF @ = None THEN p ELSE @]
      /\ Quiet /\ closed' = closed /\ ready' = ready /\ timer' = timer
      /\ calls' = [w \in Threads |->
                     IF w = t THEN <<f>> \o Tail(calls[t])
                     ELSE IF w = Watcher(x) /\ Foreign(x) THEN <<Call("watch", x)>>
                     ELSE calls[w]]
  BY <1>2, <1>3, <1>5, <1>6 DEF Propagate, Done, Quiet
<1>9. Untouched(x) /\ timer[x] = "none"
  BY <1>2, <1>3, <1>4 DEF ContextInv, MakeInv, Untouched
<1>10. Shape(t, d, 1, f, f) /\ calls' \in [Threads -> Seq(CallType)]
  <2>1. CASE ~Foreign(x)
    <3>1. Becomes(t, <<f>>)
      BY <1>8, <2>1 DEF Becomes, ContextInv, ContextTypeOK
    <3> QED BY <1>1, <1>2, <3>1, TurnsFact DEF ContextInv, ContextTypeOK
  <2>2. CASE Foreign(x)
    <3>1. d = 1
      BY <1>2, <1>4, OnlyCall
    <3>2. calls \in [Threads -> Seq(CallType)] /\ calls[t] \in Seq(CallType) /\ Len(calls[t]) = 1
      BY <1>2, <3>1 DEF ContextInv, ContextTypeOK, Depth
    <3>3. Tail(calls[t]) = <<>>
      <4>1. PICK s \in Seq(CallType) : s = calls[t] /\ Len(s) = 1 /\ s # <<>>
        BY <1>1, <3>2
      <4>2. /\ Tail(s) \in Seq(CallType) /\ Len(Tail(s)) = Len(s) - 1
            /\ \A i \in 1 .. Len(s) - 1 : Tail(s)[i] = s[i + 1]
        BY <4>1, HeadTailProperties
      <4>3. PICK r : r = Tail(s)
        OBVIOUS
      <4>4. r \in Seq(CallType) /\ Len(r) = 0
        BY <4>1, <4>2, <4>3
      <4> QED BY <4>1, <4>3, <4>4
    <3>4. <<f>> \o <<>> = <<f>>
      OBVIOUS
    <3>5. PICK w \in Threads : w = Watcher(x) /\ Depth(w) = 0 /\ w # t
      BY <1>2, <1>9, ThreadFact DEF Untouched
    <3>6. calls'[t] = <<f>> /\ calls'[w] = <<Call("watch", x)>>
          /\ \A h \in Threads : h # t /\ h # w => calls'[h] = calls[h]
      BY <1>8, <2>2, <3>3, <3>4, <3>5
    <3>7. Call("watch", x) \in CallType
      BY DEF Call, CallType
    <3>8. calls' \in [Threads -> Seq(CallType)]
      BY <1>8, <3>2, <3>6, <3>7
    <3>9. Depth(t)' = 1 /\ Frame(t, 1)' = f /\ Depth(w)' = 1 /\ Frame(w, 1)' = Call("watch", x)
      BY <3>6 DEF Depth, Frame
    <3>10. \A h \in Threads : h # t /\ h # w => Stays(h)
      BY <3>6 DEF Stays, Depth, Frame
    <3>11. Launched(w, t, d, f)
      BY <1>2, <1>4, <1>7, <2>2, <3>5, <3>9 DEF Launched
    <3>12. 1 \in 0 .. 2 /\ 1 > 0 /\ 1 # 2 /\ 1 .. 1 - 1 = {} /\ 1 - 1 + 1 = 1
      OBVIOUS
    <3> QED BY <1>2, <3>1, <3>8, <3>9, <3>10, <3>11, <3>12 DEF Shape
  <2> QED BY <2>1, <2>2
<1>11. CallOK(f)
  BY <1>4, <1>7 DEF CallOK, Cancels
<1>12. f.at \in {"arm", "register"}
  BY <1>7
<1>13. 1 \in 0 .. 2 /\ 1 > 0 /\ 1 # 2
  OBVIOUS
<1> HIDE DEF Cancels, Makes
<1> QED BY <1>2, <1>3, <1>4, <1>7, <1>8, <1>9, <1>10, <1>11, <1>12, <1>13, QuietTurn

\* A thread that is in no call begins to make x, which nobody knows.
LEMMA NewMake ==
  ASSUME ContextInv, FramesTyped, FramesTyped',
         MadeOnce', \A c \in Contexts : Unmade(c)' => Unmade(c),
         NEW t \in Goroutines, NEW f \in CallType, Shape(t, 1, 1, f, f), Depth(t) = 0,
         NEW x \in Contexts, f.ctx = x, f.at \in {"arm", "propagate"}, Unmade(x), ~Unmade(x)',
         err' = err, children' = children, ready' = ready, timer' = timer
  PROVE  MakeInv'
<1>0. PICK d \in Nat, n \in 0 .. 2 : d = 1 /\ n = 1
  OBVIOUS
<1>1. Depth(t) # d /\ n > 0 /\ n # 2 /\ Shape(t, d, n, f, f) /\ t \in Threads
  BY <1>0, ThreadFact
<1>2. ASSUME NEW c \in Contexts, Untouched(c), c # x \/ f.at # "arm"
      PROVE  Untouched(c)'
  <2>1. n = 1 /\ f.at = "arm" => f.ctx \in Contexts /\ f.ctx # c
    BY <1>2
  <2> QED BY <1>1, <1>2, <2>1, UntouchedKept DEF ContextInv
<1>3. f.at = "propagate" => (Untouched(x) => Untouched(x)')
  BY <1>2
<1>4. \A c \in Contexts : Untouched(c) /\ c # x => Untouched(c)'
  BY <1>2
<1>5. \A c \in Contexts : Unmade(c)' => c # x
  OBVIOUS
<1>6. timer'[x] = "none"
  BY DEF ContextInv, MakeInv, Untouched
<1>7. \A c \in Contexts : t # Timer(c)
  BY ThreadFact
<1>8. n = 1 /\ (f.at \in {"propagate", "register"} => (Untouched(x) => Untouched(x)'))
  BY <1>0, <1>3
<1>9. /\ \A c \in Contexts : Unmade(c)' => Unmade(c) /\ c # x
      /\ \A c \in Contexts : ~(timer[c] = "none" /\ timer'[c] # "none")
      /\ \A c \in Contexts :
           timer'[c] \in {"none", "armed"} => timer[c] \in {"none", "armed"} /\ t # Timer(c)
  BY <1>5, <1>7
<1> HIDE DEF Makes
<1>10. Making(t, d, n, f, f, x)
  BY <1>1, <1>4, <1>6, <1>8, <1>9 DEF Making
<1> QED BY <1>1, <1>10, MakeKept DEF ContextInv

\* The calls that a program begins are well typed.
LEMMA CallFact ==
  ASSUME NEW x \in Contexts, NEW l \in {"arm", "propagate", "wait"}
  PROVE  Call(l, x) \in CallType /\ Call(l, x).at = l /\ Call(l, x).ctx = x
<1>1. <<>> \in Seq(Contexts \cup {ClosedChan}) /\ {} \in SUBSET Contexts
  OBVIOUS
<1>2. l \in Cancels \cup Makes \cup {"wait", "watch", "select"}
  BY DEF Makes
<1> QED BY <1>1, <1>2 DEF Call, CallType

\* A sequence of one element is a sequence over its set.
LEMMA SingleFact == ASSUME NEW S, NEW e \in S PROVE <<e>> \in Seq(S)
OBVIOUS

\* What a thread that is in no call begins.
LEMMA QuietStart ==
  ASSUME ContextInv, Quiet, ready' = ready, closed' = closed,
         done' = done \/ (\E y \in Contexts : done' = [done EXCEPT ![y] = IF @ = None THEN y ELSE @]),
         MadeOnce', \A c \in Contexts : Unmade(c)' => Unmade(c),
         todo' \in [Goroutines -> Seq({"with", "cancel", "wait"} \X Contexts)],
         NEW t \in Threads, calls[t] = <<>>, NEW f \in CallType, calls' = [calls EXCEPT ![t] = <<f>>],
         NEW x \in Contexts, f.ctx = x, CallOK(f),
         \/ f.at \in {"cancel", "wait"} /\ ~Untouched(x)
         \/ /\ f.at \in {"arm", "propagate"} /\ Unmade(x) /\ ~Unmade(x)' /\ timer' = timer
            /\ f.at = "arm" => parent(x) \notin Contexts,
         \/ timer' = timer /\ t \in Goroutines
         \/ timer[x] = "armed" /\ timer' = [timer EXCEPT ![x] = "fired"] /\ t = Timer(x)
  PROVE  ContextInv'
<1>1. Shape(t, 1, 1, f, f) /\ calls' \in [Threads -> Seq(CallType)] /\ Depth(t) = 0
  BY StartsFact, FrameFact DEF ContextInv, ContextTypeOK
<1>2. FramesTyped /\ FramesTyped' /\ FramesWithin /\ FramesWithin'
  BY <1>1, ShapesFact
<1>3. timer \in [Contexts -> {"none", "armed", "fired", "stopped"}]
  BY DEF ContextInv, ContextTypeOK
<1>4. /\ timer' \in [Contexts -> {"none", "armed", "fired", "stopped"}]
      /\ \A c \in Contexts : c # x => timer'[c] = timer[c]
      /\ \A c \in Contexts : timer'[c] = "armed" => timer[c] = "armed"
      /\ \/ timer' = timer /\ t \in Goroutines
         \/ timer[x] # "none" /\ timer'[x] = "fired" /\ t = Timer(x)
  BY <1>3
<1>5. DoneInv' /\ done' \in [Contexts -> Contexts \cup {None, ClosedChan}]
  BY DoneKept DEF ContextInv, Quiet
<1>6. ContextTypeOK'
  BY <1>1, <1>4, <1>5 DEF ContextInv, ContextTypeOK, Quiet
<1>7. Grows /\ CallsInv' /\ LockInv' /\ ChainInv' /\ LinkInv' /\ ReleasesResources'
  <2>1. PICK d \in Nat, n \in 0 .. 2 : d = 1 /\ n = 1
    OBVIOUS
  <2>2. Depth(t) # d /\ n > 0 /\ n # 2 /\ Shape(t, d, n, f, f)
    BY <1>1, <2>1
  <2>3. f.at \notin {"children", "registered"}
    OBVIOUS
  <2>4. f.at \in {"arm", "armed"} => parent(f.ctx) \notin Contexts
    OBVIOUS
  <2>5. \A c \in Contexts : c \notin ready' \ ready
    OBVIOUS
  <2> HIDE DEF Cancels
  <2> QED BY <1>2, <1>4, <2>2, <2>3, <2>4, <2>5, QuietKept
<1>8. MakeInv'
  <2>1. err' = err /\ children' = children
    BY DEF Quiet
  <2>2. CASE f.at \in {"cancel", "wait"} /\ ~Untouched(x)
    BY <1>1, <1>2, <1>4, <2>1, <2>2, StartMake
  <2>3. CASE f.at \in {"arm", "propagate"} /\ Unmade(x) /\ ~Unmade(x)' /\ timer' = timer
    <3>1. t \in Goroutines
      BY <1>4, <2>3 DEF ContextInv, MakeInv, Untouched
    <3> QED BY <1>1, <1>2, <2>1, <2>3, <3>1, NewMake
  <2> QED BY <2>2, <2>3
<1> QED BY <1>5, <1>6, <1>7, <1>8 DEF ContextInv

\* The next call of a goroutine.
LEMMA CallKeeps ==
  ASSUME ContextInv, NEW t \in Goroutines, ContextCall(t)
  PROVE  ContextInv'
<1>1. /\ todo' \in [Goroutines -> Seq({"with", "cancel", "wait"} \X Contexts)]
      /\ MadeOnce'
      /\ \A c : Unmade(c)' => Unmade(c)
      /\ Head(todo[t])[2] \in Contexts
      /\ Head(todo[t])[1] = "with" =>
           Unmade(Head(todo[t])[2]) /\ \A c \in Contexts : c = Head(todo[t])[2] => ~Unmade(c)'
  BY TodoFact DEF ContextInv, ContextCall
<1>2. PICK x \in Contexts : x = Head(todo[t])[2]
  BY <1>1
<1>3. t \in Threads
  BY ThreadFact
<1>4. CASE Head(todo[t])[1] = "with" /\ With(t, x)
  <2>1. Unmade(x) /\ ~Unmade(x)'
    BY <1>1, <1>2, <1>4
  <2>2. PICK l \in {"arm", "propagate"} : l = IF parent(x) = Background THEN "arm" ELSE "propagate"
    OBVIOUS
  <2>3. PICK f \in CallType : f = Call(l, x)
    BY CallFact
  <2>4. f.at = l /\ f.ctx = x
    BY <2>3, CallFact
  <2>5. parent(x) \in Contexts \cup {Background}
    BY DEF ContextInv, ContextTypeOK, parent
  <2>6. CallOK(f) /\ (f.at = "arm" => parent(x) \notin Contexts)
    BY <2>2, <2>4, <2>5, ContextAssumption DEF CallOK, Cancels
  <2>7. calls[t] = <<>> /\ calls' = [calls EXCEPT ![t] = <<f>>]
    BY <1>4, <2>2, <2>3 DEF With
  <2>8. Quiet /\ ready' = ready /\ closed' = closed /\ done' = done /\ timer' = timer
    BY <1>4 DEF With, Quiet
  <2> QED BY <1>1, <1>3, <2>1, <2>2, <2>4, <2>6, <2>7, <2>8, QuietStart
<1>5. CASE Head(todo[t])[1] = "cancel" /\ CancelFunc(t, x)
  <2>1. x \in ready /\ calls[t] = <<>>
    BY <1>5 DEF CancelFunc
  <2>2. PICK f \in CallType : f = Cancelling(x, TRUE, "Canceled")
    BY CancellingFact
  <2>3. f.at = "cancel" /\ f.ctx = x /\ f.remove /\ f.err = "Canceled"
    BY <2>2 DEF Cancelling
  <2>4. CallOK(f)
    BY <2>3, ContextAssumption DEF CallOK
  <2>5. calls' = [calls EXCEPT ![t] = <<f>>]
    BY <1>5, <2>2 DEF CancelFunc
  <2>6. Quiet /\ ready' = ready /\ closed' = closed /\ done' = done /\ timer' = timer
    BY <1>5 DEF CancelFunc, Quiet
  <2>7. ~Untouched(x)
    BY <2>1 DEF Untouched
  <2> QED BY <1>1, <1>3, <2>1, <2>3, <2>4, <2>5, <2>6, <2>7, QuietStart
<1>6. CASE Head(todo[t])[1] = "wait" /\ Wait(t, x)
  <2>1. x \in ready /\ calls[t] = <<>> /\ done' = [done EXCEPT ![x] = IF @ = None THEN x ELSE @]
    BY <1>6 DEF Wait, Done
  <2>2. PICK ch : ch = done'[x]
    OBVIOUS
  <2>3. ch \in Contexts \cup {ClosedChan}
    <3>1. ch = IF done[x] = None THEN x ELSE done[x]
      BY <2>1, <2>2 DEF ContextInv, ContextTypeOK
    <3> QED BY <3>1 DEF ContextInv, ContextTypeOK
  <2>4. PICK cs \in Seq(Contexts \cup {ClosedChan}) : cs = <<ch>>
    BY <2>3, SingleFact
  <2>5. PICK k \in CallType : k = Call("wait", x) /\ k.at = "wait" /\ k.ctx = x
    BY CallFact
  <2>6. PICK f \in CallType : f = [k EXCEPT !.chans = cs]
    BY <2>5 DEF CallType
  <2>7. f.at = "wait" /\ f.ctx = x
    BY <2>5, <2>6 DEF CallType
  <2>8. CallOK(f)
    BY <2>7 DEF CallOK, Cancels
  <2>9. calls' = [calls EXCEPT ![t] = <<f>>]
    BY <1>6, <2>2, <2>4, <2>5, <2>6 DEF Wait
  <2>10. Quiet /\ ready' = ready /\ closed' = closed /\ timer' = timer
    BY <1>6 DEF Wait, Quiet
  <2>11. ~Untouched(x)
    BY <2>1 DEF Untouched
  <2> QED BY <1>1, <1>3, <2>1, <2>7, <2>8, <2>9, <2>10, <2>11, QuietStart
<1> QED BY <1>2, <1>4, <1>5, <1>6 DEF ContextCall

\* A deadline passes.
LEMMA PassesKeeps ==
  ASSUME ContextInv, NEW x \in Contexts, Passes(x)
  PROVE  ContextInv'
<1>1. /\ timer[x] = "armed" /\ timer' = [timer EXCEPT ![x] = "fired"] /\ todo' = todo
      /\ Quiet /\ ready' = ready /\ closed' = closed /\ done' = done
  BY DEF Passes, Fire, Quiet
<1>2. PICK t \in Threads : t = Timer(x)
  BY ThreadFact
<1>3. calls[t] = <<>>
  <2>1. Depth(Timer(x)) = 0
    BY <1>1 DEF ContextInv, MakeInv
  <2> QED BY <1>2, <2>1, FrameFact DEF ContextInv, ContextTypeOK
<1>4. PICK f \in CallType : f = Cancelling(x, TRUE, "DeadlineExceeded")
  BY CancellingFact
<1>5. f.at = "cancel" /\ f.ctx = x /\ f.remove /\ f.err = "DeadlineExceeded"
  BY <1>4 DEF Cancelling
<1>6. CallOK(f)
  BY <1>5, ContextAssumption DEF CallOK
<1>7. calls' = [calls EXCEPT ![t] = <<f>>]
  BY <1>2, <1>4 DEF Passes, Fire
<1>8. ~Untouched(x)
  BY <1>1 DEF Untouched
<1>9. /\ todo' \in [Goroutines -> Seq({"with", "cancel", "wait"} \X Contexts)]
      /\ MadeOnce' /\ \A c \in Contexts : Unmade(c)' => Unmade(c)
  BY <1>1, TodoSame DEF Unmade
<1> QED BY <1>1, <1>2, <1>3, <1>5, <1>6, <1>7, <1>8, <1>9, QuietStart

\* Nobody walks over the children of a context that is free.
LEMMA FreeFact ==
  ASSUME ContextInv, NEW p \in Contexts, Free(p)
  PROVE  \A h \in Threads : \A j \in 1 .. Depth(h) : Frame(h, j).at = "children" => Frame(h, j).ctx # p
<1> SUFFICES ASSUME NEW h \in Threads, NEW j \in 1 .. Depth(h), Frame(h, j).at = "children",
                    Frame(h, j).ctx = p
             PROVE  FALSE
  OBVIOUS
<1>1. Locks(Frame(h, j), p)
  BY DEF Locks
<1>2. owner[p] = h
  BY <1>1 DEF ContextInv, LockInv
<1> QED BY <1>2, ThreadFact DEF Free

\* Register keeps the invariant: it reads err of the parent under its lock.
LEMMA RegisterKeeps ==
  ASSUME ContextInv, NEW t \in Threads, Register(t), todo' = todo
  PROVE  ContextInv'
<1>1. calls[t] # <<>> /\ Top(t).at = "register"
  BY DEF Register, At
<1>2. PICK d \in Nat \ {0}, k \in CallType :
        d = Depth(t) /\ d \in 1 .. Depth(t) /\ Frame(t, d) = k /\ Top(t) = k /\ CallOK(k)
  BY <1>1, TopFact
<1>3. PICK x \in Contexts : x = k.ctx
  BY DEF CallType
<1>4. k.at = "register" /\ k.at \notin Cancels /\ k.at \in Makes /\ parent(x) \in Contexts /\ ~Foreign(x)
  BY <1>1, <1>2, <1>3 DEF Cancels, Makes, CallOK
<1>5. PICK p \in Contexts : p = parent(x)
  BY <1>4
<1>6. Untouched(x) /\ timer[x] = "none" /\ err[x] = None
  BY <1>2, <1>3, <1>4 DEF ContextInv, MakeInv, Untouched
<1>7. /\ Free(p) /\ tree' = tree /\ err' = err /\ done' = done /\ closed' = closed
      /\ timer' = timer /\ ready' = ready
  BY <1>2, <1>3, <1>5 DEF Register
<1>8. \A h \in Threads : \A j \in 1 .. Depth(h) : Frame(h, j).at = "children" => Frame(h, j).ctx # p
  BY <1>7, FreeFact
<1>9. DoneInv' /\ done' \in [Contexts -> Contexts \cup {None, ClosedChan}]
  BY <1>7, DoneKept DEF ContextInv
<1>10. Depth(t) = d /\ Frame(t, d).ctx = x /\ Frame(t, d).at = "register"
  BY <1>2, <1>3, <1>4
<1>11. ASSUME err[p] = None, children' = [children EXCEPT ![p] = @ \cup {x}], Goes(t, "arm"), owner' = owner
       PROVE  ContextInv'
  <2>1. PICK f \in CallType : f = [k EXCEPT !.at = "arm"]
    BY DEF CallType, Makes
  <2>2. f.at = "arm" /\ f.ctx = x
    BY <1>3, <2>1 DEF CallType
  <2>3. Becomes(t, <<f>>)
    BY <1>2, <1>11, <2>1 DEF Goes
  <2>4. Shape(t, d, 1, f, f) /\ calls' \in [Threads -> Seq(CallType)]
    BY <1>1, <1>2, <2>3, TurnsFact DEF ContextInv, ContextTypeOK
  <2>5. PICK n \in 0 .. 2 : n = 1 /\ n > 0 /\ n # 2 /\ Shape(t, d, n, f, f)
    BY <2>4
  <2>6. FramesTyped /\ FramesTyped' /\ FramesWithin /\ FramesWithin'
    BY <2>4, ShapesFact
  <2>7. /\ children' \in [Contexts -> SUBSET Contexts]
        /\ \A q, c \in Contexts : c \in children'[q] <=> c \in children[q] \/ (q = p /\ c = x)
        /\ \A q \in Contexts : q # p => children'[q] = children[q]
    BY <1>11 DEF ContextInv, ContextTypeOK
  <2>8. ContextTypeOK'
    BY <1>7, <1>9, <1>11, <2>4, <2>7, TodoSame DEF ContextInv, ContextTypeOK
  <2>9. Grows /\ \A c \in Contexts : Finished(c)' <=> Finished(c)
    BY <1>7, <1>10, <2>2, <2>5, <2>6, FinishedSame
  <2>10. CallsInv'
    <3>1. CallOK(f)
      BY <2>2 DEF CallOK, Cancels
    <3>2. CallOK(f)'
      BY <2>9, <3>1, CallOKKept DEF ContextInv
    <3> QED BY <2>5, <2>6, <2>9, <3>2, CallsKept DEF ContextInv
  <2>11. LockInv'
    <3>1. \A c \in Contexts : ~Locks(f, c)
      BY <2>2 DEF Locks
    <3> QED BY <1>7, <1>11, <2>5, <2>6, <3>1, LockKept DEF ContextInv
  <2>12. ChainInv'
    <3>1. Awaits(f)' = {}
      BY <2>2 DEF Awaits
    <3>2. \A h \in Threads : \A j \in 1 .. Depth(h) :
            Frame(h, j).at = "children" => children'[Frame(h, j).ctx] = children[Frame(h, j).ctx]
      BY <1>8, <2>6, <2>7 DEF FramesTyped, CallType
    <3>3. Frame(t, d).at \notin Cancels
      BY <1>2, <1>4
    <3> HIDE DEF Cancels
    <3> QED BY <2>2, <2>5, <2>6, <2>9, <3>1, <3>2, <3>3, ChainKept DEF ContextInv
  <2>13. LinkInv'
    <3>1. \A c \in Contexts : Linked(c)' => Linked(c) \/ c = x
      BY <1>7, <2>2, <2>5, <2>6, LinkedFact
    <3>2. x \in children'[p] /\ err'[p] = None
      BY <1>7, <1>11, <2>7
    <3> QED BY <1>4, <1>5, <1>7, <2>7, <2>9, <3>1, <3>2, LinkKept DEF ContextInv
  <2>14. ReleasesResources'
    <3>1. /\ \A c \in Contexts : err[c] # None => err'[c] # None
          /\ \A c \in Contexts : ~(err'[c] # None /\ err[c] = None)
          /\ \A q, c \in Contexts : c \in children'[q] => c \in children[q] \/ err'[c] = None
          /\ \A c \in Contexts : timer'[c] = "armed" => timer[c] = "armed"
      BY <1>6, <1>7, <2>7
    <3>2. Frame(t, d).at \notin {"children", "remove", "stop"}
      BY <1>10
    <3> QED BY <2>5, <2>6, <3>1, <3>2, ReleasesKept DEF ContextInv
  <2>15. MadeOnce' /\ MakeInv'
    <3>1. Frame(t, d).at \in Makes
      BY <1>2, <1>4
    <3>2. \A c \in Contexts : c # x => err'[c] = err[c] /\ timer'[c] = timer[c] /\ (c \in ready' => c \in ready)
      BY <1>7
    <3>3. \A q, c \in Contexts : c # x /\ c \in children'[q] => c \in children[q]
      BY <2>7
    <3>4. timer'[x] = "none" /\ timer[x] = "none"
      BY <1>6, <1>7
    <3> HIDE DEF Makes
    <3> QED BY <1>10, <2>2, <2>5, <2>6, <3>1, <3>2, <3>3, <3>4, TurnMake
  <2> QED BY <1>9, <2>8, <2>10, <2>11, <2>12, <2>13, <2>14, <2>15 DEF ContextInv
<1>12. ASSUME err[p] # None, children' = children, Lock(t, p),
              Becomes(t, <<Cancelling(x, FALSE, err[p]), [k EXCEPT !.at = "registered"]>>)
       PROVE  ContextInv'
  <2>1. PICK f \in CallType : f = [k EXCEPT !.at = "registered"]
    BY DEF CallType, Makes
  <2>2. f.at = "registered" /\ f.ctx = x
    BY <1>3, <2>1 DEF CallType
  <2>3. PICK e \in {None, "Canceled", "DeadlineExceeded"} : e = err[p] /\ e # None
    BY <1>12 DEF ContextInv, ContextTypeOK
  <2>4. PICK g \in CallType : g = Cancelling(x, FALSE, e)
    BY CancellingFact
  <2>5. g.at = "cancel" /\ g.ctx = x /\ g.err = e
    BY <2>4 DEF Cancelling
  <2>6. Becomes(t, <<g, f>>)
    BY <1>12, <2>1, <2>3, <2>4
  <2>7. Shape(t, d, 2, f, g) /\ calls' \in [Threads -> Seq(CallType)]
    BY <1>1, <1>2, <2>6, NestsFact DEF ContextInv, ContextTypeOK
  <2>8. PICK n \in 0 .. 2 : n = 2 /\ n > 0 /\ Shape(t, d, n, f, g)
    BY <2>7
  <2>9. FramesTyped /\ FramesTyped' /\ FramesWithin /\ FramesWithin'
    BY <2>7, ShapesFact
  <2>10. owner' = [owner EXCEPT ![p] = t]
    BY <1>12 DEF Lock
  <2>11. ContextTypeOK'
    BY <1>7, <1>9, <1>12, <2>7, <2>10, TodoSame DEF ContextInv, ContextTypeOK
  <2>12. Grows /\ \A c \in Contexts : Finished(c)' <=> Finished(c)
    BY <1>7, <1>10, <2>2, <2>5, <2>8, <2>9, FinishedSame
  <2>13. CallsInv'
    <3>1. CallOK(f)
      BY <1>4, <1>5, <1>12, <2>2 DEF CallOK, Cancels
    <3>2. CallOK(g)
      BY <1>5, <1>12, <2>3, <2>5 DEF CallOK
    <3>3. CallOK(f)' /\ CallOK(g)'
      BY <2>12, <3>1, <3>2, CallOKKept DEF ContextInv
    <3> QED BY <2>8, <2>9, <2>12, <3>3, CallsKept DEF ContextInv
  <2>14. LockInv'
    <3>1. \A c \in Contexts : (Locks(f, c) => c = p) /\ ~Locks(g, c)
      BY <1>5, <2>2, <2>5 DEF Locks
    <3> QED BY <1>7, <2>8, <2>9, <2>10, <3>1, LockTaken DEF ContextInv
  <2>15. ChainInv'
    <3>1. \A c \in Awaits(f)' : g.ctx = c
      BY <2>2, <2>5 DEF Awaits
    <3>2. Frame(t, d).at \notin Cancels
      BY <1>2, <1>4
    <3> HIDE DEF Cancels
    <3> QED BY <1>12, <2>2, <2>5, <2>8, <2>9, <2>12, <3>1, <3>2, ChainKept DEF ContextInv
  <2>16. LinkInv'
    <3>1. \A c \in Contexts : Linked(c)' => Linked(c)
      BY <1>7, <2>2, <2>5, <2>8, <2>9, LinkedFact
    <3> QED BY <1>7, <1>12, <2>12, <3>1, LinkKept DEF ContextInv
  <2>17. ReleasesResources'
    <3>1. /\ \A c \in Contexts : err[c] # None => err'[c] # None
          /\ \A c \in Contexts : ~(err'[c] # None /\ err[c] = None)
          /\ \A q, c \in Contexts : c \in children'[q] => c \in children[q] \/ err'[c] = None
          /\ \A c \in Contexts : timer'[c] = "armed" => timer[c] = "armed"
      BY <1>7, <1>12
    <3>2. Frame(t, d).at \notin {"children", "remove", "stop"}
      BY <1>10
    <3> QED BY <2>8, <2>9, <3>1, <3>2, ReleasesKept DEF ContextInv
  <2>18. MadeOnce' /\ MakeInv'
    <3>1. Frame(t, d).at \in Makes
      BY <1>2, <1>4
    <3>2. \A c \in Contexts : c # x => err'[c] = err[c] /\ timer'[c] = timer[c] /\ (c \in ready' => c \in ready)
      BY <1>7
    <3>3. \A q, c \in Contexts : c # x /\ c \in children'[q] => c \in children[q]
      BY <1>12
    <3>4. timer'[x] = "none" /\ timer[x] = "none"
      BY <1>6, <1>7
    <3> HIDE DEF Makes
    <3> QED BY <1>10, <2>2, <2>5, <2>8, <2>9, <3>1, <3>2, <3>3, <3>4, TurnMake
  <2> QED BY <1>9, <2>11, <2>13, <2>14, <2>15, <2>16, <2>17, <2>18 DEF ContextInv
<1> QED BY <1>2, <1>3, <1>5, <1>11, <1>12 DEF Register

\* The child of a cancelled parent has been cancelled.
LEMMA RegisteredKeeps ==
  ASSUME ContextInv, NEW t \in Threads, Registered(t), todo' = todo
  PROVE  ContextInv'
<1>1. calls[t] # <<>> /\ Top(t).at = "registered"
  BY DEF Registered, At
<1>2. PICK d \in Nat \ {0}, k \in CallType :
        d = Depth(t) /\ d \in 1 .. Depth(t) /\ Frame(t, d) = k /\ Top(t) = k /\ CallOK(k)
  BY <1>1, TopFact
<1>3. PICK x \in Contexts : x = k.ctx
  BY DEF CallType
<1>4. k.at = "registered" /\ k.at \notin Cancels /\ k.at \in Makes /\ parent(x) \in Contexts
  BY <1>1, <1>2, <1>3 DEF Cancels, Makes, CallOK
<1>5. PICK p \in Contexts : p = parent(x)
  BY <1>4
<1>6. PICK f \in CallType : f = [k EXCEPT !.at = "arm"]
  BY DEF CallType, Makes
<1>7. f.at = "arm" /\ f.ctx = x
  BY <1>3, <1>6 DEF CallType
<1>8. /\ owner' = [owner EXCEPT ![p] = Nobody] /\ tree' = tree /\ err' = err /\ done' = done
      /\ closed' = closed /\ timer' = timer /\ ready' = ready /\ children' = children
      /\ Becomes(t, <<f>>)
  BY <1>2, <1>3, <1>5, <1>6 DEF Registered, Unlock, Goes
<1>9. Shape(t, d, 1, f, f) /\ calls' \in [Threads -> Seq(CallType)]
  BY <1>1, <1>2, <1>8, TurnsFact DEF ContextInv, ContextTypeOK
<1>10. PICK n \in 0 .. 2 : n = 1 /\ n > 0 /\ n # 2 /\ Shape(t, d, n, f, f)
  BY <1>9
<1>11. FramesTyped /\ FramesTyped' /\ FramesWithin /\ FramesWithin'
  BY <1>9, ShapesFact
<1>12. Depth(t) = d /\ Frame(t, d).ctx = x /\ Frame(t, d).at = "registered"
  BY <1>2, <1>3, <1>4
<1>13. DoneInv' /\ done' \in [Contexts -> Contexts \cup {None, ClosedChan}]
  BY <1>8, DoneKept DEF ContextInv
<1>14. ContextTypeOK'
  BY <1>8, <1>9, <1>13, TodoSame DEF ContextInv, ContextTypeOK
<1>15. Grows /\ \A c \in Contexts : Finished(c)' <=> Finished(c)
  BY <1>7, <1>8, <1>10, <1>11, <1>12, FinishedSame
<1>16. CallsInv'
  <2>1. CallOK(f)
    BY <1>7 DEF CallOK, Cancels
  <2>2. CallOK(f)'
    BY <1>15, <2>1, CallOKKept DEF ContextInv
  <2> QED BY <1>10, <1>11, <1>15, <2>2, CallsKept DEF ContextInv
<1>17. LockInv'
  <2>1. \A c \in Contexts : ~Locks(f, c)
    BY <1>7 DEF Locks
  <2>2. Locks(Frame(t, d), p)
    BY <1>5, <1>12 DEF Locks
  <2>3. \A c \in Contexts : owner'[c] = owner[c] \/ c = p
    BY <1>8 DEF ContextInv, ContextTypeOK
  <2> QED BY <1>8, <1>10, <1>11, <1>12, <2>1, <2>2, <2>3, LockKept DEF ContextInv
<1>18. ChainInv'
  <2>1. Awaits(f)' = {}
    BY <1>7 DEF Awaits
  <2>2. Frame(t, d).at \notin Cancels
    BY <1>2, <1>4
  <2> HIDE DEF Cancels
  <2> QED BY <1>7, <1>8, <1>10, <1>11, <1>15, <2>1, <2>2, ChainKept DEF ContextInv
<1>19. LinkInv'
  <2>1. \A c \in Contexts : Linked(c)' => Linked(c) \/ c = x
    BY <1>7, <1>8, <1>10, <1>11, LinkedFact
  <2>2. Finished(x)
    <3>1. x \in Awaits(Frame(t, d)) /\ ~(d < Depth(t))
      BY <1>12 DEF Awaits
    <3> QED BY <1>2, <3>1 DEF ContextInv, ChainInv
  <2> QED BY <1>8, <1>15, <2>1, <2>2, LinkKept DEF ContextInv
<1>20. ReleasesResources'
  <2>1. /\ \A c \in Contexts : err[c] # None => err'[c] # None
        /\ \A c \in Contexts : ~(err'[c] # None /\ err[c] = None)
        /\ \A q, c \in Contexts : c \in children'[q] => c \in children[q] \/ err'[c] = None
        /\ \A c \in Contexts : timer'[c] = "armed" => timer[c] = "armed"
    BY <1>8
  <2>2. Frame(t, d).at \notin {"children", "remove", "stop"}
    BY <1>12
  <2> QED BY <1>10, <1>11, <2>1, <2>2, ReleasesKept DEF ContextInv
<1>21. MadeOnce' /\ MakeInv'
  <2>1. Frame(t, d).at \in Makes
    BY <1>2, <1>4
  <2>2. \A c \in Contexts : c # x => err'[c] = err[c] /\ timer'[c] = timer[c] /\ (c \in ready' => c \in ready)
    BY <1>8
  <2>3. \A q, c \in Contexts : c # x /\ c \in children'[q] => c \in children[q]
    BY <1>8
  <2>4. timer[x] = "none" /\ timer'[x] = "none"
    BY <1>2, <1>8, <1>12 DEF ContextInv, MakeInv
  <2> HIDE DEF Makes
  <2> QED BY <1>7, <1>10, <1>11, <1>12, <2>1, <2>2, <2>3, <2>4, TurnMake
<1> QED BY <1>13, <1>14, <1>16, <1>17, <1>18, <1>19, <1>20, <1>21 DEF ContextInv

\* cancel visits a child.
LEMMA CancelChildKeeps ==
  ASSUME ContextInv, NEW t \in Threads, CancelChild(t), todo' = todo
  PROVE  ContextInv'
<1>1. calls[t] # <<>> /\ Top(t).at = "children"
  BY DEF CancelChild, At
<1>2. PICK d \in Nat \ {0}, k \in CallType :
        d = Depth(t) /\ d \in 1 .. Depth(t) /\ Frame(t, d) = k /\ Top(t) = k /\ CallOK(k)
  BY <1>1, TopFact
<1>3. PICK x \in Contexts : x = k.ctx
  BY DEF CallType
<1>4. k.at = "children" /\ err[x] # None /\ k.err # None
  BY <1>1, <1>2, <1>3 DEF Cancels, CallOK
<1>5. PICK child \in k.left :
        Becomes(t, <<Cancelling(child, FALSE, k.err), [k EXCEPT !.left = @ \ {child}]>>)
  BY <1>2 DEF CancelChild
<1>6. /\ child \in Contexts /\ child \in children[x] /\ parent(child) = x /\ ~Foreign(child)
      /\ k.left \subseteq children[x]
  <2>1. k.left \subseteq children[x]
    BY <1>2, <1>3, <1>4 DEF ContextInv, ChainInv
  <2>2. child \in Contexts
    BY DEF CallType
  <2> QED BY <2>1, <2>2 DEF ContextInv, LinkInv
<1>7. PICK f \in CallType : f = [k EXCEPT !.left = @ \ {child}]
  BY DEF CallType
<1>8. f.at = "children" /\ f.ctx = x /\ f.left = k.left \ {child}
  BY <1>3, <1>4, <1>7 DEF CallType
<1>9. PICK e \in {None, "Canceled", "DeadlineExceeded"} : e = k.err
  BY DEF CallType
<1>10. PICK g \in CallType : g = Cancelling(child, FALSE, e)
  BY <1>6, CancellingFact
<1>11. g.at = "cancel" /\ g.ctx = child /\ g.err = e
  BY <1>10 DEF Cancelling
<1>12. Shape(t, d, 2, f, g) /\ calls' \in [Threads -> Seq(CallType)]
  BY <1>1, <1>2, <1>5, <1>7, <1>9, <1>10, NestsFact DEF ContextInv, ContextTypeOK
<1>13. PICK n \in 0 .. 2 : n = 2 /\ n > 0 /\ Shape(t, d, n, f, g)
  BY <1>12
<1>14. FramesTyped /\ FramesTyped' /\ FramesWithin /\ FramesWithin'
  BY <1>12, ShapesFact
<1>15. Depth(t) = d /\ Frame(t, d).ctx = x /\ Frame(t, d).at = "children"
  BY <1>2, <1>3, <1>4
<1>16. /\ owner' = owner /\ tree' = tree /\ err' = err /\ done' = done
       /\ closed' = closed /\ timer' = timer /\ ready' = ready /\ children' = children
  BY DEF CancelChild
<1>17. DoneInv' /\ done' \in [Contexts -> Contexts \cup {None, ClosedChan}]
  BY <1>16, DoneKept DEF ContextInv
<1>18. ContextTypeOK'
  BY <1>12, <1>16, <1>17, TodoSame DEF ContextInv, ContextTypeOK
<1>19. Grows /\ \A c \in Contexts : Finished(c)' <=> Finished(c)
  BY <1>8, <1>11, <1>13, <1>14, <1>15, <1>16, FinishedSame
<1>20. CallsInv'
  <2>1. f.err = k.err /\ f.remove = k.remove
    BY <1>7 DEF CallType
  <2>2. CallOK(f)
    BY <1>2, <1>3, <1>4, <1>8, <2>1 DEF CallOK, Cancels
  <2>3. CallOK(g)
    BY <1>4, <1>6, <1>9, <1>11 DEF CallOK
  <2>4. CallOK(f)' /\ CallOK(g)'
    BY <1>19, <2>2, <2>3, CallOKKept DEF ContextInv
  <2> QED BY <1>13, <1>14, <1>19, <2>4, CallsKept DEF ContextInv
<1>21. LockInv'
  <2>1. \A c \in Contexts : (Locks(f, c) <=> Locks(Frame(t, d), c)) /\ ~Locks(g, c)
    BY <1>8, <1>11, <1>15 DEF Locks
  <2> QED BY <1>13, <1>14, <1>15, <1>16, <2>1, LockKept DEF ContextInv
<1>22. ChainInv'
  <2>1. \A c \in Awaits(f)' : Finished(c)' \/ g.ctx = c
    <3>1. Awaits(f)' \subseteq Awaits(Frame(t, d)) \cup {child}
      BY <1>2, <1>3, <1>8, <1>15, <1>16 DEF Awaits
    <3>2. \A c \in Awaits(Frame(t, d)) : Finished(c)
      BY <1>2 DEF ContextInv, ChainInv
    <3>3. \A c \in Awaits(Frame(t, d)) : c \in Contexts
      BY <1>15 DEF Awaits, ContextInv, ContextTypeOK
    <3> QED BY <1>11, <1>19, <3>1, <3>2, <3>3
  <2>2. f.at \in Cancels /\ f.ctx = Frame(t, d).ctx
    BY <1>8, <1>15 DEF Cancels
  <2>3. f.left \subseteq children'[f.ctx]
    BY <1>6, <1>8, <1>16
  <2> HIDE DEF Cancels
  <2> QED BY <1>8, <1>11, <1>13, <1>14, <1>16, <1>19, <2>1, <2>2, <2>3, ChainKept DEF ContextInv
<1>23. LinkInv'
  <2>1. \A c \in Contexts : Linked(c)' => Linked(c)
    BY <1>8, <1>11, <1>13, <1>14, <1>16, LinkedFact
  <2> QED BY <1>16, <1>19, <2>1, LinkKept DEF ContextInv
<1>24. ReleasesResources'
  <2>1. /\ \A c \in Contexts : err[c] # None => err'[c] # None
        /\ \A c \in Contexts : ~(err'[c] # None /\ err[c] = None)
        /\ \A q, c \in Contexts : c \in children'[q] => c \in children[q] \/ err'[c] = None
        /\ \A c \in Contexts : timer'[c] = "armed" => timer[c] = "armed"
    BY <1>16
  <2>2. f.at \in {"children", "remove"} /\ f.at \in {"children", "remove", "stop"} /\ f.ctx = Frame(t, d).ctx
    BY <1>8, <1>15
  <2> QED BY <1>13, <1>14, <2>1, <2>2, ReleasesKept DEF ContextInv
<1>25. MadeOnce' /\ MakeInv'
  <2>1. ~Untouched(child)
    BY <1>6 DEF Untouched
  <2>2. f.at \notin Makes /\ f.at \notin {"propagate", "register", "registered", "arm"}
    BY <1>8 DEF Makes
  <2>3. \A c \in Contexts : c # x => err'[c] = err[c] /\ timer'[c] = timer[c] /\ (c \in ready' => c \in ready)
    BY <1>16
  <2>4. \A q, c \in Contexts : c # x /\ c \in children'[q] => c \in children[q]
    BY <1>16
  <2> HIDE DEF Makes
  <2> QED BY <1>8, <1>11, <1>13, <1>14, <1>15, <1>16, <2>1, <2>2, <2>3, <2>4, TurnMake
<1> QED BY <1>17, <1>18, <1>20, <1>21, <1>22, <1>23, <1>24, <1>25 DEF ContextInv

\* The walk over the children of x begins as x is cancelled.
LEMMA CancelFinished ==
  ASSUME ContextInv, FramesTyped, FramesTyped', FramesWithin, FramesWithin', tree' = tree,
         NEW t \in Threads, NEW d, NEW n \in 0 .. 2, NEW f, NEW g, Shape(t, d, n, f, g),
         n = 1, NEW x \in Contexts, f.at = "children", f.ctx = x,
         Depth(t) = d, Frame(t, d).at = "cancel", err[x] = None,
         \A c \in Contexts : c # x => err'[c] = err[c]
  PROVE  Grows /\ \A c \in Contexts : Finished(c)' <=> Finished(c)
<1>1. Within(x, {"children"})'
  BY WithinNew
<1>2. ASSUME NEW c \in Contexts, c # x
      PROVE  Within(c, {"children"})' <=> Within(c, {"children"})
  <2>1. Within(c, {"children"}) => Within(c, {"children"})'
    BY WithinKept
  <2>2. ASSUME Within(c, {"children"})'
        PROVE  Within(c, {"children"})
    <3>1. PICK h \in Threads :
            \E j \in 1 .. Depth(h)' : Frame(h, j)'.ctx = c /\ Frame(h, j)'.at \in {"children"}
      BY <2>2 DEF FramesWithin
    <3>2. PICK j \in 1 .. Depth(h)' : Frame(h, j)'.ctx = c /\ Frame(h, j)'.at = "children"
      BY <3>1
    <3>3. From(h, j, t, d, n, f, g)
      BY ShapeFact
    <3>4. j \in 1 .. Depth(h) /\ Frame(h, j)' = Frame(h, j)
      BY <1>2, <3>2, <3>3 DEF From, Launched, Call
    <3> QED BY <3>2, <3>4 DEF FramesWithin
  <2> QED BY <2>1, <2>2
<1>3. \A c \in Contexts : Finished(c)' <=> Finished(c)
  BY <1>1, <1>2 DEF Finished
<1>4. \A c \in Contexts : err[c] # None => err'[c] = err[c]
  OBVIOUS
<1> QED BY <1>3, <1>4 DEF Grows

\* Cancel keeps the invariant: it takes the lock until its walk over the children ends.
LEMMA CancelKeeps ==
  ASSUME ContextInv, NEW t \in Threads, Cancel(t), todo' = todo
  PROVE  ContextInv'
<1>1. calls[t] # <<>> /\ Top(t).at = "cancel"
  BY DEF Cancel, At
<1>2. PICK d \in Nat \ {0}, k \in CallType :
        d = Depth(t) /\ d \in 1 .. Depth(t) /\ Frame(t, d) = k /\ Top(t) = k /\ CallOK(k)
  BY <1>1, TopFact
<1>3. PICK x \in Contexts : x = k.ctx
  BY DEF CallType
<1>4. k.at = "cancel" /\ k.at \in Cancels /\ k.err # None
  BY <1>1, <1>2, <1>3 DEF Cancels, CallOK
<1>5. /\ Free(x) /\ err[x] = None /\ err' = [err EXCEPT ![x] = k.err] /\ Close(x)
      /\ owner' = [owner EXCEPT ![x] = t] /\ tree' = tree
      /\ timer' = timer /\ ready' = ready /\ children' = children
      /\ Becomes(t, <<[k EXCEPT !.at = "children", !.left = children[x]]>>)
  BY <1>2, <1>3 DEF Cancel, Lock
<1>6. children[x] \in SUBSET Contexts
  BY DEF ContextInv, ContextTypeOK
<1>7. PICK f \in CallType : f = [k EXCEPT !.at = "children", !.left = children[x]]
  BY <1>6 DEF CallType, Cancels
<1>8. f.at = "children" /\ f.ctx = x /\ f.left = children[x] /\ f.err = k.err /\ f.remove = k.remove
  BY <1>3, <1>7 DEF CallType
<1>9. Shape(t, d, 1, f, f) /\ calls' \in [Threads -> Seq(CallType)]
  BY <1>1, <1>2, <1>5, <1>7, TurnsFact DEF ContextInv, ContextTypeOK
<1>10. PICK n \in 0 .. 2 : n = 1 /\ n > 0 /\ n # 2 /\ Shape(t, d, n, f, f)
  BY <1>9
<1>11. FramesTyped /\ FramesTyped' /\ FramesWithin /\ FramesWithin'
  BY <1>9, ShapesFact
<1>12. Depth(t) = d /\ Frame(t, d).ctx = x /\ Frame(t, d).at = "cancel"
  BY <1>2, <1>3, <1>4
<1>13. /\ err' \in [Contexts -> {None, "Canceled", "DeadlineExceeded"}]
       /\ err'[x] = k.err /\ err'[x] # None
       /\ \A c \in Contexts : c # x => err'[c] = err[c]
  BY <1>4, <1>5 DEF ContextInv, ContextTypeOK, CallType
<1>14. /\ DoneInv' /\ done' \in [Contexts -> Contexts \cup {None, ClosedChan}]
       /\ closed' \subseteq Contexts
  <2>1. CASE done[x] = None /\ done' = [done EXCEPT ![x] = ClosedChan] /\ closed' = closed
    BY <1>5, <1>13, <2>1 DEF ContextInv, DoneInv, ContextTypeOK
  <2>2. CASE closed' = closed \cup {x} /\ done' = done
    BY <1>5, <1>13, <2>2 DEF ContextInv, DoneInv, ContextTypeOK
  <2> QED BY <1>5, <2>1, <2>2 DEF Close
<1>15. ContextTypeOK'
  BY <1>5, <1>9, <1>13, <1>14, TodoSame DEF ContextInv, ContextTypeOK
<1>16. Grows /\ \A c \in Contexts : Finished(c)' <=> Finished(c)
  BY <1>5, <1>8, <1>10, <1>11, <1>12, <1>13, CancelFinished
<1>17. CallsInv'
  <2>1. parent(x)' = parent(x) /\ Foreign(x)' = Foreign(x)
    BY <1>5 DEF parent, Foreign
  <2>2. f.remove \/ Foreign(x) \/ (parent(x) \in Contexts /\ err[parent(x)] # None)
    BY <1>2, <1>3, <1>4, <1>8 DEF CallOK
  <2>3. parent(x) \in Contexts /\ err[parent(x)] # None => err'[parent(x)] # None
    BY <1>16 DEF Grows
  <2>4. CallOK(f)'
    BY <1>4, <1>8, <1>13, <2>1, <2>2, <2>3 DEF CallOK
  <2> QED BY <1>10, <1>11, <1>16, <2>4, CallsKept DEF ContextInv
<1>18. LockInv'
  <2>1. \A c \in Contexts : Locks(f, c) => c = x
    BY <1>8 DEF Locks
  <2> QED BY <1>5, <1>10, <1>11, <2>1, LockTaken DEF ContextInv
<1>19. ChainInv'
  <2>1. Awaits(f)' = {}
    BY <1>5, <1>8 DEF Awaits
  <2>2. f.at \in Cancels /\ f.ctx = Frame(t, d).ctx
    BY <1>8, <1>12 DEF Cancels
  <2>3. f.left \subseteq children'[f.ctx]
    BY <1>5, <1>8
  <2> HIDE DEF Cancels
  <2> QED BY <1>5, <1>10, <1>11, <1>16, <2>1, <2>2, <2>3, ChainKept DEF ContextInv
<1>20. LinkInv'
  <2>1. \A c \in Contexts : Linked(c)' => Linked(c)
    BY <1>5, <1>8, <1>10, <1>11, LinkedFact
  <2> QED BY <1>5, <1>16, <2>1, LinkKept DEF ContextInv
<1>21. ReleasesResources'
  <2>1. /\ \A c \in Contexts : err[c] # None => err'[c] # None
        /\ \A c \in Contexts : err'[c] # None /\ err[c] = None => c = x
        /\ \A q, c \in Contexts : c \in children'[q] => c \in children[q]
        /\ \A c \in Contexts : timer'[c] = "armed" => timer[c] = "armed"
    BY <1>5, <1>13
  <2>2. Frame(t, d).at \notin {"children", "remove", "stop"}
    BY <1>12
  <2> QED BY <1>8, <1>10, <1>11, <2>1, <2>2, ReleasesKept DEF ContextInv
<1>22. MadeOnce' /\ MakeInv'
  <2>1. f.at \notin Makes /\ f.at \notin {"propagate", "register", "registered", "arm"}
    BY <1>8 DEF Makes
  <2>2. \A c \in Contexts : c # x => err'[c] = err[c] /\ timer'[c] = timer[c] /\ (c \in ready' => c \in ready)
    BY <1>5, <1>13
  <2>3. \A q, c \in Contexts : c # x /\ c \in children'[q] => c \in children[q]
    BY <1>5
  <2> HIDE DEF Makes
  <2> QED BY <1>5, <1>8, <1>10, <1>11, <1>12, <2>1, <2>2, <2>3, TurnMake
<1> QED BY <1>14, <1>15, <1>17, <1>18, <1>19, <1>20, <1>21, <1>22 DEF ContextInv

-----------------------------------------------------------------------------

\* The walk over the children of x ends.
LEMMA EndFinished ==
  ASSUME ContextInv, FramesTyped, FramesTyped', FramesWithin, FramesWithin', tree' = tree, err' = err,
         NEW t \in Threads, NEW d, NEW n \in 0 .. 2, NEW f, NEW g, Shape(t, d, n, f, g),
         n # 2, n > 0 => f.at # "children", NEW x \in Contexts,
         Depth(t) = d, Frame(t, d).at = "children", Frame(t, d).ctx = x
  PROVE  Grows /\ Finished(x)' /\ \A c \in Contexts : c # x => (Finished(c)' <=> Finished(c))
<1>0. d \in 1 .. Depth(t) /\ Locks(Frame(t, d), x)
  BY DEF Shape, Locks
<1>1. ASSUME NEW c, Within(c, {"children"})'
      PROVE  c # x /\ Within(c, {"children"})
  <2>1. PICK h \in Threads :
          \E j \in 1 .. Depth(h)' : Frame(h, j)'.ctx = c /\ Frame(h, j)'.at \in {"children"}
    BY <1>1 DEF FramesWithin
  <2>2. PICK j \in 1 .. Depth(h)' : Frame(h, j)'.ctx = c /\ Frame(h, j)'.at = "children"
    BY <2>1
  <2>3. From(h, j, t, d, n, f, g)
    BY ShapeFact
  <2>4. j \in 1 .. Depth(h) /\ Frame(h, j)' = Frame(h, j) /\ (h # t \/ j < d)
    BY <2>2, <2>3 DEF From, Launched, Call
  <2>5. Locks(Frame(h, j), c)
    BY <2>2, <2>4 DEF Locks
  <2>6. ~(h = t /\ j = d)
    BY <2>4 DEF Shape
  <2>7. c # x
    BY <1>0, <2>4, <2>5, <2>6 DEF ContextInv, LockInv
  <2> QED BY <2>2, <2>4, <2>7 DEF FramesWithin
<1>2. \A c \in Contexts : c # x /\ Within(c, {"children"}) => Within(c, {"children"})'
  BY WithinKept
<1>3. err[x] # None
  <2>1. CallOK(Frame(t, d))
    BY <1>0 DEF ContextInv, CallsInv
  <2> QED BY <2>1 DEF CallOK
<1>4. Finished(x)' /\ \A c \in Contexts : c # x => (Finished(c)' <=> Finished(c))
  BY <1>1, <1>2, <1>3 DEF Finished
<1> QED BY <1>4 DEF Grows

\* The last call of a cancel gives way to the calls that follow, if there are any.
LEMMA FollowFact ==
  ASSUME ContextInv, NEW t \in Threads, calls[t] # <<>>, NEW d \in Nat \ {0}, d = Depth(t),
         NEW k \in CallType, NEW cs, Becomes(t, cs),
         \/ cs = <<>>
         \/ \E f \in CallType : cs = <<f>> /\ f.at \in {"remove", "stop"} /\ f.ctx = k.ctx
                                /\ f.remove = k.remove /\ f.err = k.err
  PROVE  /\ calls' \in [Threads -> Seq(CallType)]
         /\ \E n \in 0 .. 2, f \in CallType :
              /\ Shape(t, d, n, f, f) /\ n # 2
              /\ \/ n = 0 /\ cs = <<>>
                 \/ /\ n > 0 /\ cs = <<f>> /\ f.at \in {"remove", "stop"} /\ f.ctx = k.ctx
                    /\ f.remove = k.remove /\ f.err = k.err
<1>1. CASE cs = <<>>
  <2>1. Shape(t, d, 0, k, k) /\ calls' \in [Threads -> Seq(CallType)]
    BY <1>1, PopsFact DEF ContextInv, ContextTypeOK
  <2>2. PICK n \in 0 .. 2 : n = 0 /\ n # 2 /\ Shape(t, d, n, k, k)
    BY <2>1
  <2> QED BY <1>1, <2>1, <2>2
<1>2. ASSUME NEW f \in CallType, cs = <<f>>, f.at \in {"remove", "stop"}, f.ctx = k.ctx,
             f.remove = k.remove, f.err = k.err
      PROVE  /\ calls' \in [Threads -> Seq(CallType)]
             /\ \E n \in 0 .. 2 : Shape(t, d, n, f, f) /\ n # 2 /\ n > 0
  <2>1. Shape(t, d, 1, f, f) /\ calls' \in [Threads -> Seq(CallType)]
    BY <1>2, TurnsFact DEF ContextInv, ContextTypeOK
  <2>2. 1 \in 0 .. 2 /\ 1 # 2 /\ 1 > 0
    OBVIOUS
  <2> QED BY <2>1, <2>2
<1> QED BY <1>1, <1>2

\* What holds a finished context x is still at it once its cancel has let go of it.
LEMMA AfterReleases ==
  ASSUME ContextInv, FramesTyped, FramesTyped', FramesWithin, FramesWithin',
         err' = err, timer' = timer,
         \A q, c \in Contexts : c \in children'[q] => c \in children[q],
         NEW t \in Threads, NEW d, NEW x \in Contexts, Frame(t, d).ctx = x,
         NEW n \in 0 .. 2, NEW f, Shape(t, d, n, f, f),
         \A q \in Contexts : x \in children'[q] => err[q] # None \/ (n > 0 /\ f.ctx = x /\ f.at = "remove"),
         HasDeadline(x) => n > 0 /\ f.ctx = x /\ f.at \in {"remove", "stop"}
  PROVE  ReleasesResources'
<1>1. \A c \in Contexts : err[c] # None => err'[c] # None
  OBVIOUS
<1>2. \A c \in Contexts : err'[c] # None /\ err[c] = None => n > 0 /\ f.ctx = c /\ f.at = "children"
  OBVIOUS
<1>3. \A p, c \in Contexts : c \in children'[p] => c \in children[p] \/ err'[c] = None
  OBVIOUS
<1>4. \A c \in Contexts : timer'[c] = "armed" => timer[c] = "armed" \/ err'[c] = None
  OBVIOUS
<1>5. \A p, c \in Contexts :
        /\ Depth(t) = d /\ Frame(t, d).ctx = c /\ Frame(t, d).at \in {"children", "remove"}
        /\ c \in children'[p]
        => err'[p] # None \/ (n > 0 /\ f.ctx = c /\ f.at \in {"children", "remove"})
  OBVIOUS
<1>6. \A c \in Contexts :
        /\ Depth(t) = d /\ Frame(t, d).ctx = c /\ Frame(t, d).at \in {"children", "remove", "stop"}
        /\ timer'[c] = "armed"
        => n > 0 /\ f.ctx = c /\ f.at \in {"children", "remove", "stop"}
  BY DEF ContextInv, LinkInv
<1>7. ReleasesResources /\ ContextTypeOK
  BY DEF ContextInv
<1> QED BY <1>1, <1>2, <1>3, <1>4, <1>5, <1>6, <1>7, ReleasesKept

\* A call of cancel at x, k, lets go of x or of its place in its parent, and f is left to do.
LetsGo(t, d, k, x, n, f) ==
  /\ calls' \in [Threads -> Seq(CallType)] /\ Grows
  /\ err' = err /\ timer' = timer /\ ready' = ready /\ done' = done /\ closed' = closed
  /\ owner' \in [Contexts -> Threads \cup {Nobody}]
  /\ children' \in [Contexts -> SUBSET Contexts]
  /\ \A q, c \in Contexts : c \in children'[q] => c \in children[q]
  /\ d = Depth(t) /\ Frame(t, d) = k /\ k.at \in {"children", "remove"} /\ k.ctx = x /\ Finished(x)'
  /\ Shape(t, d, n, f, f) /\ n # 2
  /\ n > 0 => f.at \in {"remove", "stop"} /\ f.ctx = x /\ f.remove = k.remove /\ f.err = k.err
  /\ n = 0 => ~HasDeadline(x)
  /\ \A q \in Contexts : x \in children'[q] => err[q] # None \/ (n > 0 /\ f.at = "remove")
  /\ \A h \in Threads : \A j \in 1 .. Depth(h) :
       Frame(h, j).at = "children" =>
         children'[Frame(h, j).ctx] = children[Frame(h, j).ctx] \/ (h = t /\ j = d)
  /\ \A c \in Contexts : owner'[c] = owner[c] \/ Locks(k, c)
  /\ \A q, c \in Contexts : c \in children[q] /\ ~Finished(q) =>
       Finished(c)' \/ (c \in children'[q] /\ ~Finished(q)')

\* That keeps the invariant.
LEMMA AfterCancel ==
  ASSUME ContextInv, FramesTyped, FramesTyped', FramesWithin, FramesWithin', todo' = todo,
         NEW t \in Threads, NEW d \in Nat \ {0}, NEW k \in CallType, NEW x \in Contexts,
         NEW n \in 0 .. 2, NEW f \in CallType, LetsGo(t, d, k, x, n, f)
  PROVE  ContextInv'
<1> USE DEF LetsGo
<1>1. Depth(t) = d /\ Frame(t, d).ctx = x /\ Frame(t, d).at \in {"children", "remove"}
      /\ d \in 1 .. Depth(t)
  OBVIOUS
<1>2. DoneInv' /\ done' \in [Contexts -> Contexts \cup {None, ClosedChan}]
  BY DoneKept DEF ContextInv
<1>3. ContextTypeOK'
  BY <1>2, TodoSame DEF ContextInv, ContextTypeOK, Grows
<1>4. CallsInv'
  <2>1. CallOK(k)
    BY <1>1 DEF ContextInv, CallsInv
  <2>2. /\ k.err # None
        /\ k.remove \/ Foreign(x) \/ (parent(x) \in Contexts /\ err[parent(x)] # None)
    BY <1>1, <2>1 DEF CallOK, Cancels
  <2>3. parent(x)' = parent(x) /\ Foreign(x)' = Foreign(x)
    BY DEF parent, Foreign, Grows
  <2>4. n > 0 => CallOK(f)'
    BY <2>2, <2>3 DEF CallOK
  <2> QED BY <2>4, CallsKept DEF ContextInv
<1>5. LockInv'
  <2>1. \A c \in Contexts : n > 0 => ~Locks(f, c)
    BY DEF Locks
  <2> QED BY <1>1, <2>1, LockKept DEF ContextInv, Grows
<1>6. ChainInv'
  <2>1. n > 0 => Awaits(f)' = {} /\ f.at \in Cancels /\ f.ctx = Frame(t, d).ctx /\ f.at # "children"
    BY <1>1 DEF Awaits, Cancels
  <2>2. \A y \in Contexts : y = Frame(t, d).ctx => Finished(y)'
    BY <1>1
  <2>3. n > 0 \/ n = 0
    OBVIOUS
  <2> HIDE DEF Cancels
  <2> QED BY <2>1, <2>2, <2>3, ChainKept DEF ContextInv
<1>7. LinkInv'
  <2>1. \A c \in Contexts : Linked(c)' => Linked(c)
    BY LinkedFact
  <2> QED BY <2>1, LinkKept DEF ContextInv
<1>8. ReleasesResources'
  <2>1. \A q \in Contexts : x \in children'[q] => err[q] # None \/ (n > 0 /\ f.ctx = x /\ f.at = "remove")
    OBVIOUS
  <2>2. HasDeadline(x) => n > 0 /\ f.ctx = x /\ f.at \in {"remove", "stop"}
    <3>1. n > 0 \/ n = 0
      OBVIOUS
    <3> QED BY <3>1
  <2> QED BY <1>1, <2>1, <2>2, AfterReleases
<1>9. MadeOnce' /\ MakeInv'
  <2>1. n > 0 => f.at \notin Makes /\ f.at \notin {"propagate", "register", "registered", "arm"}
    BY DEF Makes
  <2>2. \A c \in Contexts : c # x => err'[c] = err[c] /\ timer'[c] = timer[c] /\ (c \in ready' => c \in ready)
    OBVIOUS
  <2>3. \A q, c \in Contexts : c # x /\ c \in children'[q] => c \in children[q]
    OBVIOUS
  <2> HIDE DEF Makes
  <2> QED BY <1>1, <2>1, <2>2, <2>3, TurnMake
<1> QED BY <1>2, <1>3, <1>4, <1>5, <1>6, <1>7, <1>8, <1>9 DEF ContextInv

\* CancelEnd keeps the invariant: every child that it drops has been cancelled.
LEMMA CancelEndKeeps ==
  ASSUME ContextInv, NEW t \in Threads, CancelEnd(t), todo' = todo
  PROVE  ContextInv'
<1>1. calls[t] # <<>> /\ Top(t).at = "children"
  BY DEF CancelEnd, At
<1>2. PICK d \in Nat \ {0}, k \in CallType :
        d = Depth(t) /\ d \in 1 .. Depth(t) /\ Frame(t, d) = k /\ Top(t) = k /\ CallOK(k)
  BY <1>1, TopFact
<1>3. PICK x \in Contexts : x = k.ctx
  BY DEF CallType
<1>4. k.at = "children" /\ k.left = {} /\ Locks(k, x)
  BY <1>1, <1>2, <1>3 DEF CancelEnd, Locks
<1>5. /\ children' = [children EXCEPT ![x] = {}] /\ owner' = [owner EXCEPT ![x] = Nobody]
      /\ tree' = tree /\ err' = err /\ done' = done /\ closed' = closed /\ timer' = timer /\ ready' = ready
      /\ Becomes(t, Cancelled(k))
  BY <1>2, <1>3 DEF CancelEnd, Unlock
<1>6. PICK cs : cs = Cancelled(k)
  OBVIOUS
<1>7. \/ cs = <<>> /\ ~HasDeadline(x) /\ ~k.remove
      \/ \E f \in CallType : cs = <<f>> /\ (f.at = "remove" \/ (f.at = "stop" /\ ~k.remove))
                             /\ f.ctx = k.ctx /\ f.remove = k.remove /\ f.err = k.err
  BY <1>3, <1>6, CancelledFact
<1>8. Becomes(t, cs)
  BY <1>5, <1>6
<1>9. /\ calls' \in [Threads -> Seq(CallType)]
      /\ \E n \in 0 .. 2, f \in CallType :
           /\ Shape(t, d, n, f, f) /\ n # 2
           /\ \/ n = 0 /\ cs = <<>>
              \/ /\ n > 0 /\ cs = <<f>> /\ f.at \in {"remove", "stop"} /\ f.ctx = k.ctx
                 /\ f.remove = k.remove /\ f.err = k.err
  BY <1>1, <1>2, <1>7, <1>8, FollowFact
<1>10. PICK n \in 0 .. 2, f \in CallType :
         /\ Shape(t, d, n, f, f) /\ n # 2
         /\ \/ n = 0 /\ cs = <<>>
            \/ /\ n > 0 /\ cs = <<f>> /\ f.at \in {"remove", "stop"} /\ f.ctx = k.ctx
               /\ f.remove = k.remove /\ f.err = k.err
  BY <1>9
<1>11. FramesTyped /\ FramesTyped' /\ FramesWithin /\ FramesWithin'
  BY <1>9, ShapesFact
<1>12. /\ n > 0 => f.at \in {"remove", "stop"} /\ f.ctx = x /\ f.remove = k.remove /\ f.err = k.err
       /\ n = 0 => ~HasDeadline(x)
       /\ k.remove => n > 0 /\ f.at = "remove"
  <2>1. CASE n = 0 /\ cs = <<>>
    BY <1>7, <2>1
  <2>2. CASE n > 0 /\ cs = <<f>> /\ f.at \in {"remove", "stop"} /\ f.ctx = k.ctx
             /\ f.remove = k.remove /\ f.err = k.err
    <3>1. \A e : cs = <<e>> => e = f
      BY <2>2
    <3>2. cs # <<>>
      BY <2>2
    <3> QED BY <1>3, <1>7, <2>2, <3>1, <3>2
  <2> QED BY <1>10, <2>1, <2>2
<1>13. Grows /\ Finished(x)' /\ \A c \in Contexts : c # x => (Finished(c)' <=> Finished(c))
  <2>1. Depth(t) = d /\ Frame(t, d).at = "children" /\ Frame(t, d).ctx = x
    BY <1>2, <1>3, <1>4
  <2>2. n > 0 => f.at # "children"
    BY <1>12
  <2> QED BY <1>5, <1>10, <1>11, <2>1, <2>2, EndFinished
<1>14. /\ children' \in [Contexts -> SUBSET Contexts]
       /\ owner' \in [Contexts -> Threads \cup {Nobody}]
       /\ children'[x] = {} /\ \A c \in Contexts : c # x => children'[c] = children[c] /\ owner'[c] = owner[c]
  BY <1>5 DEF ContextInv, ContextTypeOK
<1>15. \A q \in Contexts : x \in children'[q] => err[q] # None \/ (n > 0 /\ f.at = "remove")
  <2> SUFFICES ASSUME NEW q \in Contexts, x \in children'[q], ~k.remove
               PROVE  err[q] # None
    BY <1>12
  <2>1. q = parent(x) /\ ~Foreign(x)
    BY <1>14 DEF ContextInv, LinkInv
  <2> QED BY <1>2, <1>3, <1>4, <2>1 DEF CallOK, Cancels
<1>16. \A h \in Threads : \A j \in 1 .. Depth(h) :
         Frame(h, j).at = "children" =>
           children'[Frame(h, j).ctx] = children[Frame(h, j).ctx] \/ (h = t /\ j = d)
  <2> SUFFICES ASSUME NEW h \in Threads, NEW j \in 1 .. Depth(h), Frame(h, j).at = "children",
                      Frame(h, j).ctx = x
               PROVE  h = t /\ j = d
    BY <1>11, <1>14 DEF FramesTyped, CallType
  <2>1. Locks(Frame(h, j), x) /\ Locks(Frame(t, d), x)
    BY <1>2, <1>4 DEF Locks
  <2> QED BY <1>2, <2>1 DEF ContextInv, LockInv
<1>17. \A q, c \in Contexts : c \in children[q] /\ ~Finished(q) =>
         Finished(c)' \/ (c \in children'[q] /\ ~Finished(q)')
  <2>1. \A c \in children[x] : Finished(c)
    <3>1. \A c \in children[x] : c \in Awaits(Frame(t, d)) /\ ~(d < Depth(t))
      BY <1>2, <1>3, <1>4 DEF Awaits
    <3> QED BY <1>2, <3>1 DEF ContextInv, ChainInv
  <2> QED BY <1>13, <1>14, <2>1 DEF Grows
<1>18. \A q, c \in Contexts : c \in children'[q] => c \in children[q]
  BY <1>14
<1>19. \A c \in Contexts : owner'[c] = owner[c] \/ Locks(k, c)
  BY <1>4, <1>14
<1>20. k.at \in {"children", "remove"}
  BY <1>4
<1>21. /\ d \in Nat \ {0} /\ d = Depth(t) /\ k \in CallType /\ Frame(t, d) = k
       /\ calls' \in [Threads -> Seq(CallType)] /\ Grows /\ Finished(x)' /\ Shape(t, d, n, f, f)
  BY <1>2, <1>9, <1>10, <1>13
<1>22. /\ n # 2
       /\ n > 0 => f.at \in {"remove", "stop"} /\ f.ctx = x /\ f.remove = k.remove /\ f.err = k.err
       /\ n = 0 => ~HasDeadline(x)
  BY <1>10, <1>12
<1>23. LetsGo(t, d, k, x, n, f)
  BY <1>3, <1>5, <1>14, <1>15, <1>16, <1>17, <1>18, <1>19, <1>20, <1>21, <1>22 DEF LetsGo
<1> QED BY <1>11, <1>23, AfterCancel

\* RemoveChild keeps the invariant: what it drops has been cancelled.
LEMMA RemoveChildKeeps ==
  ASSUME ContextInv, NEW t \in Threads, RemoveChild(t), todo' = todo
  PROVE  ContextInv'
<1>1. calls[t] # <<>> /\ Top(t).at = "remove"
  BY DEF RemoveChild, At
<1>2. PICK d \in Nat \ {0}, k \in CallType :
        d = Depth(t) /\ d \in 1 .. Depth(t) /\ Frame(t, d) = k /\ Top(t) = k /\ CallOK(k)
  BY <1>1, TopFact
<1>3. PICK x \in Contexts : x = k.ctx
  BY DEF CallType
<1>4. k.at = "remove" /\ Finished(x) /\ parent(x) \in Contexts \cup {Background}
  BY <1>1, <1>2, <1>3 DEF CallOK, ContextInv, ContextTypeOK, parent
<1>5. /\ \/ (Foreign(x) \/ parent(x) = Background) /\ children' = children
         \/ /\ parent(x) # Background /\ Free(parent(x))
            /\ children' = [children EXCEPT ![parent(x)] = @ \ {x}]
      /\ owner' = owner
      /\ tree' = tree /\ err' = err /\ done' = done /\ closed' = closed /\ timer' = timer /\ ready' = ready
      /\ Becomes(t, Stopping(k))
  BY <1>2, <1>3 DEF RemoveChild
<1>6. PICK cs : cs = Stopping(k)
  OBVIOUS
<1>7. \/ cs = <<>> /\ ~HasDeadline(x)
      \/ \E f \in CallType : cs = <<f>> /\ f.at = "stop"
                             /\ f.ctx = k.ctx /\ f.remove = k.remove /\ f.err = k.err
  BY <1>3, <1>6, StoppingFact
<1>8. Becomes(t, cs)
  BY <1>5, <1>6
<1>9. /\ calls' \in [Threads -> Seq(CallType)]
      /\ \E n \in 0 .. 2, f \in CallType :
           /\ Shape(t, d, n, f, f) /\ n # 2
           /\ \/ n = 0 /\ cs = <<>>
              \/ /\ n > 0 /\ cs = <<f>> /\ f.at \in {"remove", "stop"} /\ f.ctx = k.ctx
                 /\ f.remove = k.remove /\ f.err = k.err
  BY <1>1, <1>2, <1>7, <1>8, FollowFact
<1>10. PICK n \in 0 .. 2, f \in CallType :
         /\ Shape(t, d, n, f, f) /\ n # 2
         /\ \/ n = 0 /\ cs = <<>>
            \/ /\ n > 0 /\ cs = <<f>> /\ f.at \in {"remove", "stop"} /\ f.ctx = k.ctx
               /\ f.remove = k.remove /\ f.err = k.err
  BY <1>9
<1>11. FramesTyped /\ FramesTyped' /\ FramesWithin /\ FramesWithin'
  BY <1>9, ShapesFact
<1>12. /\ n > 0 => f.at \in {"remove", "stop"} /\ f.ctx = x /\ f.remove = k.remove /\ f.err = k.err
       /\ n = 0 => ~HasDeadline(x)
  <2>1. n = 0 => cs = <<>>
    BY <1>10
  <2>2. cs = <<>> => ~HasDeadline(x)
    BY <1>7
  <2> QED BY <1>3, <1>10, <2>1, <2>2
<1>13. Grows /\ Finished(x)' /\ \A c \in Contexts : Finished(c)' <=> Finished(c)
  <2>1. Depth(t) = d /\ Frame(t, d).at = "remove"
    BY <1>2, <1>4
  <2>2. n > 0 => f.at # "children"
    BY <1>12
  <2> QED BY <1>4, <1>5, <1>10, <1>11, <2>1, <2>2, FinishedSame
<1>14. /\ children' \in [Contexts -> SUBSET Contexts]
       /\ \A q, c \in Contexts : c \in children'[q] => c \in children[q]
       /\ \A q, c \in Contexts : c # x /\ c \in children[q] => c \in children'[q]
       /\ \A q \in Contexts : children'[q] = children[q] \/ Free(q)
       /\ \A q \in Contexts : x \in children'[q] => x \in children[q] /\ (Foreign(x) \/ parent(x) # q)
  <2>1. children \in [Contexts -> SUBSET Contexts]
    BY DEF ContextInv, ContextTypeOK
  <2>2. CASE (Foreign(x) \/ parent(x) = Background) /\ children' = children
    BY <2>1, <2>2, ContextAssumption
  <2>3. CASE /\ parent(x) # Background /\ Free(parent(x))
             /\ children' = [children EXCEPT ![parent(x)] = @ \ {x}]
    <3>1. PICK p \in Contexts : p = parent(x)
      BY <1>4, <2>3
    <3> QED BY <2>1, <2>3, <3>1
  <2> QED BY <1>5, <2>2, <2>3
<1>15. \A q \in Contexts : x \notin children'[q]
  BY <1>14 DEF ContextInv, LinkInv
<1>16. \A h \in Threads : \A j \in 1 .. Depth(h) :
         Frame(h, j).at = "children" =>
           children'[Frame(h, j).ctx] = children[Frame(h, j).ctx]
  <2> SUFFICES ASSUME NEW h \in Threads, NEW j \in 1 .. Depth(h), Frame(h, j).at = "children",
                      NEW q \in Contexts, q = Frame(h, j).ctx
               PROVE  children'[q] = children[q]
    BY <1>11 DEF FramesTyped, CallType
  <2>1. ~Free(q)
    BY FreeFact
  <2> QED BY <1>14, <2>1
<1>17. \A q, c \in Contexts : c \in children[q] /\ ~Finished(q) =>
         Finished(c)' \/ (c \in children'[q] /\ ~Finished(q)')
  BY <1>13, <1>14
<1>18. owner' \in [Contexts -> Threads \cup {Nobody}] /\ \A c \in Contexts : owner'[c] = owner[c]
  BY <1>5 DEF ContextInv, ContextTypeOK
<1>19. k.at \in {"children", "remove"}
  BY <1>4
<1>20. /\ d \in Nat \ {0} /\ d = Depth(t) /\ k \in CallType /\ Frame(t, d) = k
       /\ calls' \in [Threads -> Seq(CallType)] /\ Grows /\ Finished(x)' /\ Shape(t, d, n, f, f)
  BY <1>2, <1>9, <1>10, <1>13
<1>21. /\ n # 2
       /\ n > 0 => f.at \in {"remove", "stop"} /\ f.ctx = x /\ f.remove = k.remove /\ f.err = k.err
       /\ n = 0 => ~HasDeadline(x)
  BY <1>10, <1>12
<1>22. /\ \A q \in Contexts : x \in children'[q] => err[q] # None \/ (n > 0 /\ f.at = "remove")
       /\ \A h \in Threads : \A j \in 1 .. Depth(h) :
            Frame(h, j).at = "children" =>
              children'[Frame(h, j).ctx] = children[Frame(h, j).ctx] \/ (h = t /\ j = d)
       /\ \A c \in Contexts : owner'[c] = owner[c] \/ Locks(k, c)
  BY <1>15, <1>16, <1>18
<1>23. /\ err' = err /\ timer' = timer /\ ready' = ready /\ done' = done /\ closed' = closed
       /\ owner' \in [Contexts -> Threads \cup {Nobody}] /\ children' \in [Contexts -> SUBSET Contexts]
       /\ \A q, c \in Contexts : c \in children'[q] => c \in children[q]
  BY <1>5, <1>14, <1>18
<1>24. /\ k.at \in {"children", "remove"} /\ k.ctx = x
       /\ \A q, c \in Contexts : c \in children[q] /\ ~Finished(q) =>
            Finished(c)' \/ (c \in children'[q] /\ ~Finished(q)')
       /\ FramesTyped /\ FramesTyped' /\ FramesWithin /\ FramesWithin'
  BY <1>3, <1>11, <1>17, <1>19
<1>25. LetsGo(t, d, k, x, n, f)
  BY <1>20, <1>21, <1>22, <1>23, <1>24 DEF LetsGo
<1> QED BY <1>11, <1>25, AfterCancel

\* A program begins with contexts that nobody knows of, and no call.
LEMMA ContextStarts == ContextClientsInit(ContextPrograms) => ContextInv
<1> SUFFICES ASSUME ContextClientsInit(ContextPrograms)
             PROVE  ContextInv
  OBVIOUS
<1>1. PICK p \in ContextPrograms :
        /\ tree = [parent |-> p.parent, deadlines |-> p.deadlines, foreign |-> p.foreign]
        /\ todo = p.todo
  BY DEF ContextClientsInit
<1>2. /\ p.parent \in [Contexts -> Contexts \cup {Background}]
      /\ p.deadlines \subseteq Contexts /\ p.foreign \subseteq Contexts
      /\ p.todo \in [Goroutines -> Seq({"with", "cancel", "wait"} \X Contexts)]
      /\ \A g, h \in Goroutines : \A i \in DOMAIN p.todo[g], j \in DOMAIN p.todo[h] :
           p.todo[g][i][1] = "with" /\ p.todo[g][i] = p.todo[h][j] => g = h /\ i = j
  BY ContextProgramsAssumption
<1>3. /\ owner = [c \in Contexts |-> Nobody] /\ err = [c \in Contexts |-> None]
      /\ done = [c \in Contexts |-> None] /\ closed = {}
      /\ children = [c \in Contexts |-> {}] /\ timer = [c \in Contexts |-> "none"]
      /\ ready = {} /\ calls = [t \in Threads |-> <<>>]
  BY DEF ContextClientsInit, ContextInit
<1>4. ContextTypeOK
  <2>1. tree \in [parent : [Contexts -> Contexts \cup {Background}],
                  deadlines : SUBSET Contexts, foreign : SUBSET Contexts]
    BY <1>1, <1>2
  <2>2. calls \in [Threads -> Seq(CallType)]
    BY <1>3
  <2> QED BY <1>1, <1>2, <1>3, <2>1, <2>2 DEF ContextTypeOK
<1>5. \A t \in Threads : calls[t] = <<>> /\ Depth(t) = 0
  BY <1>3 DEF Depth
<1>6. \A t \in Threads : 1 .. Depth(t) = {}
  BY <1>5
<1>7. \A c, places : ~Within(c, places)
  BY <1>5 DEF Within
<1>8. \A c \in Contexts : ~Linked(c) /\ Untouched(c)
  BY <1>3, <1>5, <1>7 DEF Linked, Untouched, Threads
<1>9. DoneInv
  BY <1>3, ContextAssumption DEF DoneInv
<1>10. CallsInv /\ LockInv /\ ChainInv
  BY <1>6 DEF CallsInv, LockInv, ChainInv
<1>11. LinkInv /\ ReleasesResources
  BY <1>3, <1>8 DEF LinkInv, ReleasesResources
<1>12. MadeOnce
  BY <1>1, <1>2 DEF MadeOnce
<1>13. MakeInv
  BY <1>3, <1>5, <1>6, <1>8 DEF MakeInv, Threads
<1> QED BY <1>4, <1>9, <1>10, <1>11, <1>12, <1>13 DEF ContextInv

\* Every step of a program keeps the invariant.
LEMMA ContextInvStep == ContextInv /\ [ContextClientsNext]_contextClientVars => ContextInv'
<1> SUFFICES ASSUME ContextInv, [ContextClientsNext]_contextClientVars
             PROVE  ContextInv'
  OBVIOUS
<1>1. ASSUME NEW t \in Threads, ContextStep(t), todo' = todo
      PROVE  ContextInv'
  <2>1. CASE Propagate(t)
    BY <1>1, <2>1, PropagateKeeps
  <2>2. CASE Register(t)
    BY <1>1, <2>2, RegisterKeeps
  <2>3. CASE Registered(t)
    BY <1>1, <2>3, RegisteredKeeps
  <2>4. CASE Arm(t)
    BY <1>1, <2>4, ArmKeeps
  <2>5. CASE ArmLate(t)
    BY <1>1, <2>5, ArmLateKeeps
  <2>6. CASE Armed(t)
    BY <1>1, <2>6, ArmedKeeps
  <2>7. CASE Cancel(t)
    BY <1>1, <2>7, CancelKeeps
  <2>8. CASE CancelAgain(t)
    BY <1>1, <2>8, CancelAgainKeeps
  <2>9. CASE CancelChild(t)
    BY <1>1, <2>9, CancelChildKeeps
  <2>10. CASE CancelEnd(t)
    BY <1>1, <2>10, CancelEndKeeps
  <2>11. CASE RemoveChild(t)
    BY <1>1, <2>11, RemoveChildKeeps
  <2>12. CASE StopTimer(t)
    BY <1>1, <2>12, StopTimerKeeps
  <2>13. CASE Waited(t) \/ WatchChild(t)
    BY <1>1, <2>13, WaitedKeeps
  <2>14. CASE WatchDone(t)
    BY <1>1, <2>14, WatchDoneKeeps
  <2>15. CASE WatchParent(t)
    BY <1>1, <2>15, WatchParentKeeps
  <2> QED BY <1>1, <2>1, <2>2, <2>3, <2>4, <2>5, <2>6, <2>7, <2>8, <2>9, <2>10, <2>11, <2>12,
             <2>13, <2>14, <2>15 DEF ContextStep
<1>2. ASSUME NEW t \in Goroutines, ContextCall(t)
      PROVE  ContextInv'
  BY <1>2, CallKeeps
<1>3. ASSUME NEW c \in Contexts, Passes(c)
      PROVE  ContextInv'
  BY <1>3, PassesKeeps
<1>4. CASE UNCHANGED contextClientVars
  <2>1. /\ tree' = tree /\ owner' = owner /\ err' = err /\ done' = done /\ closed' = closed
        /\ children' = children /\ timer' = timer /\ ready' = ready /\ calls' = calls /\ todo' = todo
    BY <1>4 DEF contextClientVars, contextVars
  <2>2. /\ \A t : Depth(t)' = Depth(t) /\ \A j : Frame(t, j)' = Frame(t, j)
        /\ \A c : /\ parent(c)' = parent(c) /\ (Foreign(c)' <=> Foreign(c))
                 /\ (HasDeadline(c)' <=> HasDeadline(c))
        /\ \A c, places : Within(c, places)' <=> Within(c, places)
    BY <2>1 DEF Depth, Frame, Within, parent, Foreign, HasDeadline
  <2>3. \A c : /\ Finished(c)' <=> Finished(c)
               /\ Linked(c)' <=> Linked(c)
               /\ Unmade(c)' <=> Unmade(c)
               /\ Untouched(c)' <=> Untouched(c)
    BY <2>1, <2>2 DEF Finished, Linked, Unmade, Untouched
  <2>4. ContextTypeOK' /\ DoneInv' /\ MadeOnce' /\ ReleasesResources'
    BY <2>1, <2>2 DEF ContextInv, ContextTypeOK, DoneInv, MadeOnce, ReleasesResources
  <2>5. \A k : CallOK(k)' <=> CallOK(k)
    BY <2>1, <2>2, <2>3 DEF CallOK
  <2>6. CallsInv'
    BY <2>2, <2>5 DEF ContextInv, CallsInv
  <2>7. LockInv'
    BY <2>1, <2>2 DEF ContextInv, LockInv, Locks
  <2>8. ChainInv'
    <3>1. \A k : Awaits(k)' = Awaits(k)
      BY <2>1 DEF Awaits
    <3> QED BY <2>1, <2>2, <2>3, <3>1 DEF ContextInv, ChainInv
  <2>9. LinkInv'
    BY <2>1, <2>2, <2>3 DEF ContextInv, LinkInv
  <2>10. MakeInv'
    BY <2>1, <2>2, <2>3 DEF ContextInv, MakeInv
  <2> QED BY <2>4, <2>6, <2>7, <2>8, <2>9, <2>10 DEF ContextInv
<1> QED BY <1>1, <1>2, <1>3, <1>4 DEF ContextClientsNext, ContextClientsStep

\* The inductive invariant holds in every state of every program.
THEOREM ContextInvAlways == ContextBehavior => []ContextInv
BY ContextStarts, ContextInvStep, PTL DEF ContextBehavior

\* A context that is cancelled leaves neither a place in a live parent nor a
\* running timer behind, but while some call of cancel is still about to undo
\* them (removeChild and timerCtx.cancel, context.go:266-277, 434-447).
THEOREM ContextReleasesResources == ContextBehavior => []ReleasesResources
<1>1. ContextInv => ReleasesResources
  BY DEF ContextInv
<1> QED BY <1>1, ContextInvAlways, PTL

-----------------------------------------------------------------------------

\* What is above the parent of c is above c.
LEMMA AboveFact ==
  ASSUME ContextTypeOK, NEW c \in Contexts
  PROVE  /\ Link(c) \subseteq Above(c)
         /\ \A x \in Above(c) : Link(x) \subseteq Above(c)
<1>1. \A x \in Contexts : Link(x) \subseteq Contexts
  BY ContextAssumption DEF ContextTypeOK, Link, parent
<1>2. Link(c) \subseteq Above(c)
  BY <1>1 DEF Above
<1>3. ASSUME NEW x \in Above(c), NEW y \in Link(x)
      PROVE  y \in Above(c)
  <2>1. x \in Contexts /\ y \in Contexts
    BY <1>1, <1>3 DEF Above
  <2>2. ASSUME NEW S \in SUBSET Contexts, Link(c) \subseteq S, \A z \in S : Link(z) \subseteq S
        PROVE  y \in S
    BY <1>3, <2>2 DEF Above
  <2> QED BY <2>1, <2>2 DEF Above
<1> QED BY <1>2, <1>3

\* If everything above c is linked, the end of a cancel above it is the end of its own.
LEMMA FinishedBelow ==
  ASSUME ContextInv, NEW c \in Contexts, Linked(c), \A x \in Above(c) : Linked(x),
         NEW p \in Above(c), Finished(p)
  PROVE  Finished(c)
<1> SUFFICES ASSUME ~Finished(c)
             PROVE  FALSE
  OBVIOUS
<1> DEFINE S == {x \in Above(c) : ~Finished(x)}
<1>1. ASSUME NEW x \in Contexts, Linked(x), ~Finished(x), NEW y \in Link(x)
      PROVE  ~Finished(y)
  BY <1>1, ContextAssumption DEF ContextInv, LinkInv, ContextTypeOK, Link, parent
<1>2. Above(c) \subseteq Contexts
  BY DEF Above
<1>3. Link(c) \subseteq Above(c) /\ \A x \in Above(c) : Link(x) \subseteq Above(c)
  BY AboveFact DEF ContextInv
<1>4. Link(c) \subseteq S
  BY <1>1, <1>3
<1>5. \A x \in S : Link(x) \subseteq S
  BY <1>1, <1>2, <1>3
<1>6. p \in S
  BY <1>2, <1>4, <1>5 DEF Above
<1> QED BY <1>6

\* Once a cancel has let go of a context, every context registered below it is
\* cancelled, through any number of generations and however With... and other cancels
\* interleave with it, unless something between them is still being linked
\* (propagateCancel and cancelCtx.cancel, context.go:241-266, 339-366).
THEOREM ContextCancelReachesAll == ContextBehavior => []CancelReachesAll
<1>1. ASSUME ContextInv
      PROVE  CancelReachesAll
  <2> SUFFICES ASSUME NEW p \in Contexts, NEW c \in Contexts, err[p] # None, Free(p), err[c] = None,
                      Linked(c), p \in Above(c), \A x \in Above(c) : Linked(x)
               PROVE  FALSE
    BY DEF CancelReachesAll
  <2>1. Finished(p)
    BY <1>1, FreeFinished
  <2>2. Finished(c)
    BY <1>1, <2>1, FinishedBelow
  <2> QED BY <2>2 DEF Finished
<1> QED BY <1>1, ContextInvAlways, PTL

-----------------------------------------------------------------------------
(* singleflight.                                                           *)

USE FlightAssumption DEF FlightTypeOK

LEMMA FlightInitInv == FlightInit => FlightInv
BY DEF FlightInit, FlightInv, InFlight, Membership, OneUncounted, FreshUncounted, ToldAtEnd

LEMMA NewFlightFact ==
  ASSUME HasMemory
  PROVE  NewFlight \in Flights /\ stage[NewFlight] = "unused"
BY DEF HasMemory, NewFlight

\* A caller starts a flight: nobody is in it yet.
LEMMA DoStarts ==
  ASSUME FlightInv, NEW g \in Goroutines, NEW onChan \in BOOLEAN,
         Do(g, onChan), inflight = NoFlight
  PROVE  FlightInv'
<1> DEFINE c == NewFlight
<1>1. c \in Flights /\ stage[c] = "unused" /\ c # NoFlight
  BY NewFlightFact DEF Do
<1>2. /\ fpc[g] = "idle" /\ joined[g] = NoFlight /\ shared[g] = "unknown"
      /\ dups[c] = {} /\ chans[c] = {}
      /\ \A h \in Goroutines : joined[h] # c
  BY <1>1 DEF Do, FlightInv, Membership, FreshUncounted, ToldAtEnd
<1>3. /\ inflight' = c /\ stage' = [stage EXCEPT ![c] = "fn"]
      /\ joined' = [joined EXCEPT ![g] = c]
      /\ fpc' = [fpc EXCEPT ![g] = IF onChan THEN "receive" ELSE "lead"]
      /\ chans' = IF onChan THEN [chans EXCEPT ![c] = @ \cup {g}] ELSE chans
      /\ UNCHANGED <<dups, shared>>
  BY <1>1 DEF Do
<1>4. FlightTypeOK'
  BY <1>1, <1>3 DEF FlightInv
<1>5. \A h \in Goroutines : joined'[h] = IF h = g THEN c ELSE joined[h]
  BY <1>3 DEF FlightInv
<1>6. InFlight'
  BY <1>1, <1>3 DEF FlightInv, InFlight
<1>7. Membership'
  <2>1. \A h \in Goroutines, d \in Flights :
          h \in chans'[d] => (h \in chans[d] /\ h # g) \/ (h = g /\ d = c /\ onChan) \/ (h = g /\ stage[d] = "over")
    BY <1>1, <1>2, <1>3 DEF FlightInv, Membership
  <2> QED BY <1>1, <1>2, <1>3, <1>5, <2>1 DEF FlightInv, Membership
<1>8. OneUncounted'
  BY <1>2, <1>3, <1>5 DEF FlightInv, OneUncounted
<1>9. FreshUncounted'
  BY <1>1, <1>3 DEF FlightInv, FreshUncounted
<1>10. ToldAtEnd'
  BY <1>1, <1>2, <1>3, <1>5 DEF FlightInv, ToldAtEnd, Membership
<1> QED BY <1>4, <1>6, <1>7, <1>8, <1>9, <1>10 DEF FlightInv

\* A duplicate joins the flight under way and is counted.
LEMMA DoJoins ==
  ASSUME FlightInv, NEW g \in Goroutines, NEW onChan \in BOOLEAN,
         Do(g, onChan), inflight # NoFlight
  PROVE  FlightInv'
<1> DEFINE c == inflight
<1>1. c \in Flights /\ c # NoFlight /\ stage[c] \in {"fn", "finish"}
  BY DEF FlightInv, InFlight
<1>2. fpc[g] = "idle" /\ joined[g] = NoFlight /\ shared[g] = "unknown"
  BY DEF Do, FlightInv, Membership, ToldAtEnd
<1>3. /\ joined' = [joined EXCEPT ![g] = c]
      /\ fpc' = [fpc EXCEPT ![g] = IF onChan THEN "receive" ELSE "wait"]
      /\ chans' = IF onChan THEN [chans EXCEPT ![c] = @ \cup {g}] ELSE chans
      /\ dups' = [dups EXCEPT ![c] = @ \cup {g}]
      /\ UNCHANGED <<inflight, stage, shared>>
  BY DEF Do
<1>4. FlightTypeOK'
  BY <1>1, <1>3 DEF FlightInv
<1>5. /\ \A h \in Goroutines : joined'[h] = IF h = g THEN c ELSE joined[h]
      /\ \A d \in Flights : dups'[d] = IF d = c THEN dups[d] \cup {g} ELSE dups[d]
  BY <1>3 DEF FlightInv
<1>6. InFlight'
  BY <1>3 DEF FlightInv, InFlight
<1>7. Membership'
  <2>1. \A h \in Goroutines, d \in Flights :
          h \in chans'[d] => (h \in chans[d] /\ h # g) \/ (h = g /\ d = c /\ onChan) \/ (h = g /\ stage[d] = "over")
    BY <1>1, <1>2, <1>3 DEF FlightInv, Membership
  <2> QED BY <1>1, <1>2, <1>3, <1>5, <2>1 DEF FlightInv, Membership
<1>8. OneUncounted'
  <2> SUFFICES ASSUME NEW x \in Goroutines, NEW y \in Goroutines, x # y,
                      joined'[x] # NoFlight, joined'[x] = joined'[y]
               PROVE  x \in dups'[joined'[x]] \/ y \in dups'[joined'[x]]
    BY DEF OneUncounted
  <2>1. CASE x = g \/ y = g
    <3>1. joined'[x] = c /\ g \in dups'[c]
      BY <1>1, <1>5, <2>1
    <3> QED BY <2>1, <3>1
  <2>2. CASE x # g /\ y # g
    <3>1. joined'[x] = joined[x] /\ joined'[y] = joined[y] /\ joined[x] \in Flights /\ joined[x] = joined[y]
      BY <1>5, <2>2, SMT DEF FlightInv
    <3>2. {x, y} \cap dups[joined[x]] # {}
      BY <3>1, Zenon DEF FlightInv, OneUncounted
    <3>3. dups[joined[x]] \subseteq dups'[joined[x]]
      BY <1>5, <3>1
    <3> QED BY <3>1, <3>2, <3>3
  <2> QED BY <2>1, <2>2
<1>9. FreshUncounted'
  BY <1>1, <1>3 DEF FlightInv, FreshUncounted
<1>10. ToldAtEnd'
  BY <1>1, <1>2, <1>3, <1>5 DEF FlightInv, ToldAtEnd
<1> QED BY <1>4, <1>6, <1>7, <1>8, <1>9, <1>10 DEF FlightInv

LEMMA FinishInv ==
  ASSUME FlightInv, NEW c \in Flights, Finish(c)
  PROVE  FlightInv'
<1>1. /\ stage[c] = "fn" /\ \A d \in Flights : stage'[d] = IF d = c THEN "finish" ELSE stage[d]
      /\ UNCHANGED <<inflight, dups, chans, fpc, joined, shared>>
  BY DEF Finish, FlightInv
<1>2. FlightTypeOK'
  BY DEF Finish, FlightInv
<1>3. InFlight'
  BY <1>1 DEF FlightInv, InFlight
<1>4. Membership' /\ OneUncounted' /\ FreshUncounted' /\ ToldAtEnd'
  BY <1>1 DEF FlightInv, Membership, OneUncounted, FreshUncounted, ToldAtEnd
<1> QED BY <1>2, <1>3, <1>4 DEF FlightInv

\* The flight ends: from now on nobody joins it, and what those who wait on its
\* channels are told stays true.
LEMMA LandInv ==
  ASSUME FlightInv, NEW c \in Flights, Land(c)
  PROVE  FlightInv'
<1>1. /\ stage[c] = "finish" /\ inflight' = NoFlight
      /\ \A d \in Flights : stage'[d] = IF d = c THEN "over" ELSE stage[d]
      /\ \A g \in Goroutines : fpc'[g] = IF g \in chans[c] THEN "return" ELSE fpc[g]
      /\ \A g \in Goroutines : shared'[g] = IF g \in chans[c] THEN Told(c) ELSE shared[g]
      /\ UNCHANGED <<dups, chans, joined>>
  BY DEF Land, Answer, FlightInv
<1>2. Told(c) = IF dups[c] = {} THEN "no" ELSE "yes"
  BY DEF Told
<1>3. FlightTypeOK'
  BY <1>2 DEF Land, Answer, FlightInv
<1>4. \A g \in chans[c] : g \in Goroutines /\ fpc[g] = "receive" /\ joined[g] = c
  BY <1>1 DEF FlightInv, Membership
<1>5. InFlight'
  BY <1>1 DEF InFlight
<1>6. Membership'
  BY <1>1, <1>4 DEF FlightInv, Membership
<1>7. OneUncounted' /\ FreshUncounted'
  BY <1>1 DEF FlightInv, OneUncounted, FreshUncounted
<1>8. ToldAtEnd'
  BY <1>1, <1>2, <1>4 DEF FlightInv, ToldAtEnd, Membership
<1> QED BY <1>3, <1>5, <1>6, <1>7, <1>8 DEF FlightInv

LEMMA ReturnsInv ==
  ASSUME FlightInv, NEW g \in Goroutines, FlightWaited(g) \/ Led(g)
  PROVE  FlightInv'
<1> DEFINE c == joined[g]
<1>1. /\ fpc[g] \in {"wait", "lead"}
      /\ \A h \in Goroutines : fpc'[h] = IF h = g THEN "return" ELSE fpc[h]
      /\ UNCHANGED <<inflight, stage, dups, chans, joined>>
  BY DEF FlightWaited, Led, FlightInv
<1>2. c \in Flights /\ c # NoFlight
  BY <1>1 DEF FlightInv, Membership
<1>3. /\ \A h \in Goroutines : h # g => shared'[h] = shared[h]
      /\ \/ shared'[g] = "yes" /\ dups[c] # {}
         \/ shared'[g] = "no" /\ dups[c] = {} /\ stage[c] = "over"
  BY <1>2 DEF FlightWaited, Led, Told, FlightInv, Membership
<1>4. FlightTypeOK'
  BY <1>3 DEF FlightWaited, Led, FlightInv
<1>5. InFlight' /\ OneUncounted' /\ FreshUncounted'
  BY <1>1 DEF FlightInv, InFlight, OneUncounted, FreshUncounted
<1>6. Membership'
  BY <1>1 DEF FlightInv, Membership
<1>7. ToldAtEnd'
  BY <1>1, <1>3 DEF FlightInv, ToldAtEnd
<1> QED BY <1>4, <1>5, <1>6, <1>7 DEF FlightInv

LEMMA ForgetInv ==
  ASSUME FlightInv, NEW g \in Goroutines, ForgetUnshared(g)
  PROVE  FlightInv'
<1>1. /\ inflight' \in {inflight, NoFlight}
      /\ UNCHANGED <<stage, dups, chans, fpc, joined, shared>>
  BY DEF ForgetUnshared
<1> QED BY <1>1 DEF FlightInv, InFlight, Membership, OneUncounted, FreshUncounted, ToldAtEnd

\* A flight whose memory is taken back has nobody in it.
LEMMA FlightReturnInv ==
  ASSUME FlightInv, NEW g \in Goroutines, FlightReturn(g)
  PROVE  FlightInv'
<1> DEFINE free == {c \in Flights : stage[c] = "over" /\ \A h \in Goroutines : joined'[h] # c}
<1>1. /\ fpc[g] = "return" /\ inflight' = inflight
      /\ \A h \in Goroutines : fpc'[h] = IF h = g THEN "idle" ELSE fpc[h]
      /\ \A h \in Goroutines : joined'[h] = IF h = g THEN NoFlight ELSE joined[h]
      /\ \A h \in Goroutines : shared'[h] = IF h = g THEN "unknown" ELSE shared[h]
      /\ \A c \in Flights : stage'[c] = IF c \in free THEN "unused" ELSE stage[c]
      /\ \A c \in Flights : dups'[c] = IF c \in free THEN {} ELSE dups[c]
      /\ \A c \in Flights : chans'[c] = IF c \in free THEN {} ELSE chans[c]
  BY DEF FlightReturn, FlightInv
<1>2. FlightTypeOK'
  BY DEF FlightReturn, FlightInv
<1>3. \A c \in free : c \in Flights /\ stage[c] = "over" /\ \A h \in Goroutines : joined'[h] # c
  OBVIOUS
<1> HIDE DEF free
<1>4. InFlight'
  BY <1>1, <1>3 DEF FlightInv, InFlight
<1>5. Membership'
  BY <1>1, <1>3 DEF FlightInv, Membership
<1>6. OneUncounted'
  BY <1>1, <1>3 DEF FlightInv, OneUncounted
<1>7. FreshUncounted'
  BY <1>1, <1>3 DEF FlightInv, FreshUncounted
<1>8. ToldAtEnd'
  BY <1>1, <1>3 DEF FlightInv, ToldAtEnd, Membership
<1> QED BY <1>2, <1>4, <1>5, <1>6, <1>7, <1>8 DEF FlightInv

LEMMA FlightNextInv == FlightInv /\ [FlightClientsNext]_flightClientVars => FlightInv'
<1> SUFFICES ASSUME FlightInv, [FlightClientsNext]_flightClientVars
             PROVE  FlightInv'
  OBVIOUS
<1>1. ASSUME NEW g \in Goroutines, Ask(g)
      PROVE  FlightInv'
  BY <1>1, DoStarts, DoJoins DEF Ask
<1>2. ASSUME NEW g \in Goroutines, Forget(g) \/ FlightRun(g)
      PROVE  FlightInv'
  BY <1>2, ForgetInv, ReturnsInv, FlightReturnInv DEF Forget, FlightRun
<1>3. ASSUME NEW c \in Flights, Fly(c)
      PROVE  FlightInv'
  BY <1>3, FinishInv, LandInv DEF Fly
<1>4. CASE UNCHANGED flightClientVars
  BY <1>4 DEF flightClientVars, flightVars, FlightInv, InFlight, Membership, OneUncounted,
              FreshUncounted, ToldAtEnd
<1> QED BY <1>1, <1>2, <1>3, <1>4 DEF FlightClientsNext

\* Who is told that its result is not shared is the only one to get it, and stays so,
\* although Do reads the number of duplicates after the flight and without the
\* lock; who is told that it is shared has, or had, company.
THEOREM FlightSharing == FlightSpec => []SharedTellsTruth
<1>1. FlightClientsInit => FlightInv
  BY FlightInitInv DEF FlightClientsInit
<1>2. FlightInv => SharedTellsTruth
  <2> SUFFICES ASSUME FlightInv, NEW g \in Goroutines
               PROVE  /\ shared[g] = "no" => \A h \in Goroutines \ {g} : joined[h] # joined[g]
                      /\ shared[g] = "yes" => dups[joined[g]] # {}
    BY DEF SharedTellsTruth
  <2>1. shared[g] # "unknown" => joined[g] # NoFlight
    BY DEF FlightInv, ToldAtEnd, Membership
  <2> QED BY <2>1 DEF FlightInv, ToldAtEnd, OneUncounted
<1> QED BY <1>1, <1>2, FlightNextInv, PTL DEF FlightSpec

-----------------------------------------------------------------------------
(* Signals: what is queued is on its way to the receiver.                      *)

\* The handlers that are counted.
Counted == {h \in Handlers : hpc[h] # "idle"}

QueueTypeOK ==
  /\ mask \in SUBSET Signals /\ recv \in SUBSET Signals /\ exchange \in SUBSET Signals
  /\ state \in {"idle", "receiving", "sending"} /\ note \in {0, 1}
  /\ sending \in [Handlers -> Signals \cup {NoSignal}]
  /\ hpc \in [Handlers -> {"idle", "wanted", "queue", "send", "wake", "end"}]
  /\ \A h \in Handlers : hpc[h] # "idle" => sending[h] \in Signals
  /\ rpc \in {"serve", "return", "sleep", "clear", "update"}

HandlersCounted == IsFiniteSet(Counted) /\ delivering = Cardinality(Counted)

\* A handler that is to wake the receiver.
Waker(h) == hpc[h] = "wake"
Woke == \E h \in Handlers : Waker(h)

\* The receiver has said that it sleeps, or somebody has taken that back and it is
\* woken once.
NoteInv ==
  /\ \A h, k \in Handlers : Waker(h) /\ Waker(k) => h = k
  /\ Woke => note = 0 /\ rpc = "sleep" /\ state # "receiving"
  /\ note = 1 => rpc \in {"sleep", "clear"} /\ state # "receiving"
  /\ state = "receiving" => rpc = "sleep"
  /\ rpc = "sleep" => state = "receiving" \/ note = 1 \/ Woke
  /\ rpc = "clear" => note = 1
  /\ rpc \in {"sleep", "clear"} => recv = {}

\* The receiver is going to take s over from the queue before it sleeps again.
Announced(s) == state = "sending" \/ note = 1 \/ Woke \/ (rpc = "update" /\ s \in exchange)
Coming(s) == s \in recv \/ (rpc = "return" /\ received = s) \/ (s \in mask /\ Announced(s))

Sender == \E h \in Handlers : hpc[h] = "send"
QueueInv == \A s \in mask : Announced(s) \/ Sender

QueueOK == QueueTypeOK /\ HandlersCounted /\ NoteInv /\ QueueInv

\* Or it is queued and somebody will announce it, or it is about to be queued.
OnItsWay(s) ==
  \/ s \in recv \/ (rpc = "return" /\ received = s) \/ s \in mask
  \/ \E h \in Handlers : hpc[h] = "queue" /\ sending[h] = s

\* What a step does to the queue of signals.
QueueKept ==
  /\ QueueOK'
  /\ \A s : Coming(s) => Coming(s)'
  /\ \A s : OnItsWay(s) => OnItsWay(s)'

\* A handler that goes on as it was counted.
LEMMA CountedKept ==
  ASSUME QueueOK, NEW h \in Handlers, hpc[h] # "idle", delivering' = delivering,
         NEW label \in {"queue", "send", "wake", "end"}, HGoto(h, label)
  PROVE  /\ HandlersCounted'
         /\ hpc' \in [Handlers -> {"idle", "wanted", "queue", "send", "wake", "end"}]
         /\ hpc'[h] = label /\ \A k \in Handlers : k # h => hpc'[k] = hpc[k]
         /\ sending' = sending
         /\ \A k \in Handlers : hpc'[k] # "idle" => sending'[k] \in Signals
<1>1. /\ hpc'[h] = label /\ \A k \in Handlers : k # h => hpc'[k] = hpc[k]
      /\ hpc' \in [Handlers -> {"idle", "wanted", "queue", "send", "wake", "end"}]
      /\ sending' = sending
  BY DEF HGoto, QueueOK, QueueTypeOK
<1>2. Counted' = Counted
  BY <1>1 DEF Counted
<1>3. HandlersCounted'
  BY <1>2 DEF HandlersCounted, QueueOK
<1>4. \A k \in Handlers : hpc'[k] # "idle" => sending'[k] \in Signals
  BY <1>1 DEF QueueOK, QueueTypeOK
<1> QED BY <1>1, <1>3, <1>4

\* A signal reaches the handler of the process, which does not count yet.
LEMMA SigsendKeeps ==
  ASSUME QueueOK, NEW h \in Handlers, NEW s \in Signals, Sigsend(h, s)
  PROVE  QueueKept
<1>1. /\ hpc[h] = "idle" /\ hpc'[h] = "wanted" /\ sending'[h] = s
      /\ \A k \in Handlers : k # h => hpc'[k] = hpc[k] /\ sending'[k] = sending[k]
      /\ UNCHANGED <<mask, state, note, recv, rpc, exchange, received>>
      /\ delivering' = delivering + 1
  BY DEF Sigsend, QueueOK, QueueTypeOK, wantVars, receiverVars
<1>2. QueueTypeOK'
  BY <1>1 DEF Sigsend, QueueOK, QueueTypeOK
<1>3. HandlersCounted'
  <2>1. Counted' = Counted \cup {h} /\ h \notin Counted
    BY <1>1 DEF Counted
  <2>2. IsFiniteSet(Counted) /\ delivering = Cardinality(Counted)
    BY DEF QueueOK, HandlersCounted
  <2>3. /\ IsFiniteSet(Counted \cup {h})
        /\ Cardinality(Counted \cup {h}) = Cardinality(Counted) + 1
    BY <2>1, <2>2, FS_AddElement
  <2> QED BY <1>1, <2>1, <2>2, <2>3 DEF HandlersCounted
<1>4. /\ \A k \in Handlers : Waker(k)' <=> Waker(k)
      /\ Woke' <=> Woke
      /\ Sender' <=> Sender
  BY <1>1 DEF Waker, Woke, Sender
<1>5. NoteInv'
  BY <1>1, <1>4 DEF NoteInv, QueueOK
<1>6. \A x : (Announced(x)' <=> Announced(x)) /\ (Coming(x) <=> Coming(x)')
  BY <1>1, <1>4 DEF Announced, Coming
<1>7. QueueInv'
  BY <1>1, <1>4, <1>6 DEF QueueInv, QueueOK
<1>8. \A x : OnItsWay(x) => OnItsWay(x)'
  BY <1>1 DEF OnItsWay
<1> QED BY <1>2, <1>3, <1>5, <1>6, <1>7, <1>8 DEF QueueOK, QueueKept

\* The handler is counted if somebody wants the signal.
LEMMA SendWantedKeeps ==
  ASSUME QueueOK, NEW h \in Handlers, SendWanted(h)
  PROVE  QueueKept
<1>1. PICK label \in {"queue", "end"} : HGoto(h, label)
  BY DEF SendWanted
<1>2. /\ hpc[h] = "wanted" /\ delivering' = delivering
      /\ UNCHANGED <<mask, state, note, recv, rpc, exchange, received>>
  BY DEF SendWanted, wantVars, receiverVars
<1>3. /\ HandlersCounted'
      /\ hpc' \in [Handlers -> {"idle", "wanted", "queue", "send", "wake", "end"}]
      /\ hpc'[h] = label /\ \A k \in Handlers : k # h => hpc'[k] = hpc[k]
      /\ sending' = sending
      /\ \A k \in Handlers : hpc'[k] # "idle" => sending'[k] \in Signals
  BY <1>1, <1>2, CountedKept
<1>4. QueueTypeOK'
  BY <1>2, <1>3 DEF QueueOK, QueueTypeOK
<1>5. /\ \A k \in Handlers : Waker(k)' <=> Waker(k)
      /\ Woke' <=> Woke
      /\ Sender' <=> Sender
  BY <1>2, <1>3 DEF Waker, Woke, Sender
<1>6. NoteInv'
  BY <1>2, <1>5 DEF NoteInv, QueueOK
<1>7. \A x : (Announced(x)' <=> Announced(x)) /\ (Coming(x) <=> Coming(x)')
  BY <1>2, <1>5 DEF Announced, Coming
<1>8. QueueInv'
  BY <1>2, <1>5, <1>7 DEF QueueInv, QueueOK
<1>9. \A x : OnItsWay(x) => OnItsWay(x)'
  BY <1>2, <1>3 DEF OnItsWay
<1> QED BY <1>3, <1>4, <1>6, <1>7, <1>8, <1>9 DEF QueueOK, QueueKept

\* It queues the signal, or finds it queued and ends: then somebody will announce it.
LEMMA SendQueueKeeps ==
  ASSUME QueueOK, NEW h \in Handlers, SendQueue(h)
  PROVE  QueueKept
<1>1. PICK label \in {"send", "end"} :
        HGoto(h, label) /\ (label = "end" => sending[h] \in mask)
  BY DEF SendQueue
<1>2. /\ hpc[h] = "queue" /\ delivering' = delivering
      /\ mask' = mask \cup {sending[h]}
      /\ UNCHANGED <<state, note, recv, rpc, exchange, received>>
  BY DEF SendQueue, wantVars, receiverVars
<1>3. /\ HandlersCounted'
      /\ hpc' \in [Handlers -> {"idle", "wanted", "queue", "send", "wake", "end"}]
      /\ hpc'[h] = label /\ \A k \in Handlers : k # h => hpc'[k] = hpc[k]
      /\ sending' = sending
      /\ \A k \in Handlers : hpc'[k] # "idle" => sending'[k] \in Signals
  BY <1>1, <1>2, CountedKept
<1>4. QueueTypeOK'
  BY <1>2, <1>3 DEF QueueOK, QueueTypeOK
<1>5. /\ \A k \in Handlers : Waker(k)' <=> Waker(k)
      /\ Woke' <=> Woke
      /\ Sender => Sender'
      /\ label = "send" => Sender'
  BY <1>2, <1>3 DEF Waker, Woke, Sender
<1>6. NoteInv'
  BY <1>2, <1>5 DEF NoteInv, QueueOK
<1>7. \A x : (Announced(x)' <=> Announced(x)) /\ (Coming(x) => Coming(x)')
  BY <1>2, <1>5 DEF Announced, Coming
<1>8. QueueInv'
  BY <1>1, <1>2, <1>5, <1>7 DEF QueueInv, QueueOK
<1>9. \A x : OnItsWay(x) => OnItsWay(x)'
  BY <1>2, <1>3 DEF OnItsWay
<1> QED BY <1>3, <1>4, <1>6, <1>7, <1>8, <1>9 DEF QueueOK, QueueKept

\* It announces what it has queued: it takes back that the receiver sleeps and is to
\* wake it, or another has announced it already.
LEMMA SendStateKeeps ==
  ASSUME QueueOK, NEW h \in Handlers, SendState(h)
  PROVE  QueueKept
<1>1. PICK label \in {"wake", "end"} :
        /\ HGoto(h, label)
        /\ \/ label = "wake" /\ state = "receiving" /\ state' = "idle"
           \/ label = "end" /\ state # "receiving" /\ state' = "sending"
  <2>1. CASE state = "receiving"
    <3>1. state' = "idle" /\ HGoto(h, "wake")
      BY <2>1 DEF SendState
    <3> QED BY <2>1, <3>1
  <2>2. CASE state # "receiving"
    <3>1. state' = "sending" /\ HGoto(h, "end")
      BY <2>2 DEF SendState
    <3> QED BY <2>2, <3>1
  <2> QED BY <2>1, <2>2
<1>2. /\ hpc[h] = "send" /\ delivering' = delivering
      /\ UNCHANGED <<mask, note, recv, rpc, exchange, received>>
  BY DEF SendState, wantVars, receiverVars
<1>3. /\ HandlersCounted'
      /\ hpc' \in [Handlers -> {"idle", "wanted", "queue", "send", "wake", "end"}]
      /\ hpc'[h] = label /\ \A k \in Handlers : k # h => hpc'[k] = hpc[k]
      /\ sending' = sending
      /\ \A k \in Handlers : hpc'[k] # "idle" => sending'[k] \in Signals
  BY <1>1, <1>2, CountedKept
<1>4. QueueTypeOK'
  BY <1>1, <1>2, <1>3 DEF QueueOK, QueueTypeOK
<1>5. CASE label = "wake"
  <2>1. /\ rpc = "sleep" /\ note = 0 /\ ~Woke
        /\ \A k \in Handlers : Waker(k)' <=> k = h
        /\ Woke'
    <3>1. rpc = "sleep" /\ note = 0 /\ ~Woke
      BY <1>1, <1>5 DEF QueueOK, QueueTypeOK, NoteInv
    <3> QED BY <1>3, <1>5, <3>1 DEF Waker, Woke
  <2>2. NoteInv'
    BY <1>1, <1>2, <1>5, <2>1 DEF NoteInv, QueueOK
  <2>3. \A x : Announced(x)' /\ (Coming(x) => Coming(x)')
    BY <1>2, <2>1 DEF Announced, Coming
  <2>4. QueueInv'
    BY <2>3 DEF QueueInv
  <2> QED BY <2>2, <2>3, <2>4, <1>2, <1>3, <1>4 DEF QueueOK, QueueKept, OnItsWay
<1>6. CASE label = "end"
  <2>1. /\ \A k \in Handlers : Waker(k)' <=> Waker(k)
        /\ Woke' <=> Woke
    BY <1>2, <1>3, <1>6 DEF Waker, Woke
  <2>2. NoteInv'
    BY <1>1, <1>2, <1>6, <2>1 DEF NoteInv, QueueOK
  <2>3. \A x : Announced(x)' /\ (Coming(x) => Coming(x)')
    BY <1>1, <1>2, <1>6 DEF Announced, Coming
  <2>4. QueueInv'
    BY <2>3 DEF QueueInv
  <2> QED BY <2>2, <2>3, <2>4, <1>2, <1>3, <1>4 DEF QueueOK, QueueKept, OnItsWay
<1> QED BY <1>5, <1>6

\* It wakes the receiver, which finds the announcement in the note.
LEMMA SendWakeKeeps ==
  ASSUME QueueOK, NEW h \in Handlers, SendWake(h)
  PROVE  QueueKept
<1>1. /\ Waker(h) /\ hpc[h] = "wake" /\ Woke /\ note = 0
  BY DEF SendWake, QueueOK, NoteInv, Woke, Waker
<1>2. /\ HGoto(h, "end") /\ note' = 1 /\ delivering' = delivering
      /\ UNCHANGED <<mask, state, recv, rpc, exchange, received>>
  BY <1>1 DEF SendWake, wantVars, receiverVars
<1>3. /\ HandlersCounted'
      /\ hpc' \in [Handlers -> {"idle", "wanted", "queue", "send", "wake", "end"}]
      /\ hpc'[h] = "end" /\ \A k \in Handlers : k # h => hpc'[k] = hpc[k]
      /\ sending' = sending
      /\ \A k \in Handlers : hpc'[k] # "idle" => sending'[k] \in Signals
  BY <1>1, <1>2, CountedKept
<1>4. QueueTypeOK'
  BY <1>2, <1>3 DEF QueueOK, QueueTypeOK
<1>5. \A k \in Handlers : ~Waker(k)'
  BY <1>1, <1>3 DEF Waker, QueueOK, NoteInv
<1>6. ~Woke'
  BY <1>5 DEF Woke
<1>7. NoteInv'
  BY <1>1, <1>2, <1>5, <1>6 DEF NoteInv, QueueOK
<1>8. \A x : Announced(x)' /\ (Coming(x) => Coming(x)')
  BY <1>2 DEF Announced, Coming
<1>9. QueueInv'
  BY <1>8 DEF QueueInv
<1>10. \A x : OnItsWay(x) => OnItsWay(x)'
  BY <1>1, <1>2, <1>3 DEF OnItsWay
<1> QED BY <1>3, <1>4, <1>7, <1>8, <1>9, <1>10 DEF QueueOK, QueueKept

\* It is counted no more; what it brought has been announced.
LEMMA SendEndKeeps ==
  ASSUME QueueOK, NEW h \in Handlers, SendEnd(h)
  PROVE  QueueKept
<1>1. /\ hpc[h] = "end" /\ hpc'[h] = "idle"
      /\ \A k \in Handlers : k # h => hpc'[k] = hpc[k] /\ sending'[k] = sending[k]
      /\ UNCHANGED <<mask, state, note, recv, rpc, exchange, received>>
      /\ delivering' = delivering - 1
  BY DEF SendEnd, QueueOK, QueueTypeOK, wantVars, receiverVars
<1>2. QueueTypeOK'
  BY <1>1 DEF SendEnd, QueueOK, QueueTypeOK
<1>3. HandlersCounted'
  <2>1. Counted' = Counted \ {h} /\ h \in Counted
    BY <1>1 DEF Counted
  <2>2. IsFiniteSet(Counted) /\ delivering = Cardinality(Counted)
    BY DEF QueueOK, HandlersCounted
  <2>3. /\ IsFiniteSet(Counted \ {h})
        /\ Cardinality(Counted \ {h}) = Cardinality(Counted) - 1
    BY <2>1, <2>2, FS_RemoveElement
  <2> QED BY <1>1, <2>1, <2>2, <2>3 DEF HandlersCounted
<1>4. /\ \A k \in Handlers : Waker(k)' <=> Waker(k)
      /\ Woke' <=> Woke
      /\ Sender' <=> Sender
  BY <1>1 DEF Waker, Woke, Sender
<1>5. NoteInv'
  BY <1>1, <1>4 DEF NoteInv, QueueOK
<1>6. \A x : (Announced(x)' <=> Announced(x)) /\ (Coming(x) <=> Coming(x)')
  BY <1>1, <1>4 DEF Announced, Coming
<1>7. QueueInv'
  BY <1>1, <1>4, <1>6 DEF QueueInv, QueueOK
<1>8. \A x : OnItsWay(x) => OnItsWay(x)'
  BY <1>1 DEF OnItsWay
<1> QED BY <1>2, <1>3, <1>5, <1>6, <1>7, <1>8 DEF QueueOK, QueueKept

\* The receiver returns a signal.
LEMMA ServeKeeps ==
  ASSUME QueueOK, Serve
  PROVE  QueueKept
<1>1. PICK s \in recv : recv' = recv \ {s} /\ received' = s
  BY DEF Serve
<1>2. /\ rpc = "serve" /\ rpc' = "return"
      /\ UNCHANGED <<mask, state, delivering, note, exchange, sending, hpc>>
  BY DEF Serve, handlerVars
<1>3. QueueTypeOK'
  BY <1>1, <1>2 DEF QueueOK, QueueTypeOK
<1>4. /\ \A k \in Handlers : Waker(k)' <=> Waker(k)
      /\ Woke' <=> Woke
      /\ Sender' <=> Sender
      /\ Counted' = Counted
  BY <1>2 DEF Waker, Woke, Sender, Counted
<1>5. HandlersCounted' /\ NoteInv'
  BY <1>2, <1>4 DEF NoteInv, HandlersCounted, QueueOK
<1>6. \A x : Announced(x) => Announced(x)'
  BY <1>2, <1>4 DEF Announced
<1>7. \A x : Coming(x) => Coming(x)'
  BY <1>1, <1>2, <1>6 DEF Coming
<1>8. QueueInv'
  BY <1>2, <1>4, <1>6 DEF QueueInv, QueueOK
<1>9. \A x : OnItsWay(x) => OnItsWay(x)'
  BY <1>1, <1>2 DEF OnItsWay
<1> QED BY <1>3, <1>5, <1>7, <1>8, <1>9 DEF QueueOK, QueueKept

\* The receiver says that it sleeps, or takes note that somebody has sent.
LEMMA ReceiveKeeps ==
  ASSUME QueueOK, Receive
  PROVE  QueueKept
<1>1. /\ rpc = "serve" /\ recv = {}
      /\ UNCHANGED <<mask, recv, delivering, note, received, sending, hpc>>
  BY DEF Receive, handlerVars
<1>2. /\ \A k \in Handlers : Waker(k)' <=> Waker(k)
      /\ Woke' <=> Woke
      /\ Sender' <=> Sender
      /\ Counted' = Counted
  BY <1>1 DEF Waker, Woke, Sender, Counted
<1>3. HandlersCounted'
  BY <1>1, <1>2 DEF HandlersCounted, QueueOK
<1>4. ~Woke /\ note = 0
  BY <1>1 DEF QueueOK, QueueTypeOK, NoteInv
<1>5. \A x : OnItsWay(x) => OnItsWay(x)'
  BY <1>1 DEF OnItsWay
<1>6. CASE state = "idle"
  <2>1. state' = "receiving" /\ rpc' = "sleep" /\ exchange' = exchange
    BY <1>6 DEF Receive
  <2>2. QueueTypeOK'
    BY <1>1, <2>1 DEF QueueOK, QueueTypeOK
  <2>3. NoteInv'
    BY <1>1, <1>2, <1>4, <2>1 DEF QueueOK, NoteInv
  <2>4. \A x : ~Announced(x)
    BY <1>1, <1>4, <1>6 DEF Announced
  <2>5. \A x : Coming(x) => Coming(x)'
    BY <1>1, <2>4 DEF Coming
  <2>6. QueueInv'
    BY <1>1, <1>2, <2>4 DEF QueueInv, QueueOK
  <2> QED BY <1>3, <1>5, <2>2, <2>3, <2>5, <2>6 DEF QueueOK, QueueKept
<1>7. CASE state # "idle"
  <2>1. state' = "idle" /\ rpc' = "update" /\ exchange' = Signals
    BY <1>7 DEF Receive
  <2>2. QueueTypeOK'
    BY <1>1, <2>1 DEF QueueOK, QueueTypeOK
  <2>3. NoteInv'
    BY <1>1, <1>2, <1>4, <2>1 DEF QueueOK, NoteInv
  <2>4. \A x \in mask : Announced(x)'
    BY <2>1 DEF Announced, QueueOK, QueueTypeOK
  <2>5. \A x : Coming(x) => Coming(x)'
    BY <1>1, <2>4 DEF Coming
  <2>6. QueueInv'
    BY <1>1, <2>4 DEF QueueInv
  <2> QED BY <1>3, <1>5, <2>2, <2>3, <2>5, <2>6 DEF QueueOK, QueueKept
<1> QED BY <1>6, <1>7

\* The receiver is woken.
LEMMA WokenKeeps ==
  ASSUME QueueOK, ReceiveSleep \/ ReceiveClear
  PROVE  QueueKept
<1>1. UNCHANGED <<mask, recv, state, delivering, received, sending, hpc>>
  BY DEF ReceiveSleep, ReceiveClear, handlerVars
<1>2. /\ \A k \in Handlers : Waker(k)' <=> Waker(k)
      /\ Woke' <=> Woke
      /\ Sender' <=> Sender
      /\ Counted' = Counted
  BY <1>1 DEF Waker, Woke, Sender, Counted
<1>3. HandlersCounted'
  BY <1>1, <1>2 DEF HandlersCounted, QueueOK
<1>4. \/ rpc = "sleep" /\ note = 1 /\ rpc' = "clear" /\ note' = note /\ exchange' = exchange
      \/ rpc = "clear" /\ note' = 0 /\ rpc' = "update" /\ exchange' = Signals
  BY DEF ReceiveSleep, ReceiveClear
<1>5. ~Woke /\ state # "receiving" /\ recv = {} /\ rpc # "return" /\ rpc' # "return"
  BY <1>4 DEF QueueOK, NoteInv
<1>6. QueueTypeOK'
  BY <1>1, <1>4 DEF QueueOK, QueueTypeOK
<1>7. NoteInv'
  BY <1>1, <1>2, <1>4, <1>5 DEF QueueOK, NoteInv
<1>8. \A x \in mask : Announced(x)'
  BY <1>4 DEF Announced, QueueOK, QueueTypeOK
<1>9. \A x : Coming(x) => Coming(x)'
  BY <1>1, <1>5, <1>8 DEF Coming
<1>10. QueueInv'
  BY <1>1, <1>8 DEF QueueInv
<1>11. \A x : OnItsWay(x) => OnItsWay(x)'
  BY <1>1, <1>5 DEF OnItsWay
<1> QED BY <1>3, <1>6, <1>7, <1>9, <1>10, <1>11 DEF QueueOK, QueueKept

\* The receiver takes over a word of the queue.
LEMMA UpdateKeeps ==
  ASSUME QueueOK, ReceiveUpdate
  PROVE  QueueKept
<1>1. PICK s \in exchange :
        /\ recv' = recv \cup (mask \cap {s})
        /\ mask' = mask \ {s}
        /\ exchange' = exchange \ {s}
  BY DEF ReceiveUpdate
<1>2. /\ rpc = "update" /\ rpc' \in {"serve", "update"}
      /\ exchange' # {} => rpc' = "update"
      /\ UNCHANGED <<state, delivering, note, received, sending, hpc>>
  BY DEF ReceiveUpdate, handlerVars
<1>3. QueueTypeOK'
  BY <1>1, <1>2 DEF QueueOK, QueueTypeOK
<1>4. /\ \A k \in Handlers : Waker(k)' <=> Waker(k)
      /\ Woke' <=> Woke
      /\ Sender' <=> Sender
      /\ Counted' = Counted
  BY <1>2 DEF Waker, Woke, Sender, Counted
<1>5. HandlersCounted'
  BY <1>2, <1>4 DEF HandlersCounted, QueueOK
<1>6. NoteInv'
  BY <1>2, <1>4 DEF NoteInv, QueueOK
<1>7. \A x : x # s /\ Announced(x) => Announced(x)'
  BY <1>1, <1>2, <1>4 DEF Announced
<1>8. \A x : Coming(x) => Coming(x)'
  BY <1>1, <1>2, <1>7 DEF Coming
<1>9. QueueInv'
  BY <1>1, <1>4, <1>7 DEF QueueInv, QueueOK
<1>10. \A x : OnItsWay(x) => OnItsWay(x)'
  BY <1>1, <1>2 DEF OnItsWay
<1> QED BY <1>3, <1>5, <1>6, <1>8, <1>9, <1>10 DEF QueueOK, QueueKept

\* The receiver comes back for the next signal.
LEMMA AgainKeeps ==
  ASSUME QueueOK, ReceiveAgain
  PROVE  /\ QueueOK'
         /\ \A s : s # received /\ Coming(s) => Coming(s)'
         /\ \A s : s # received /\ OnItsWay(s) => OnItsWay(s)'
<1>1. /\ rpc = "return" /\ rpc' = "serve"
      /\ UNCHANGED <<mask, recv, state, delivering, note, exchange, sending, hpc>>
  BY DEF ReceiveAgain, handlerVars
<1>2. QueueTypeOK'
  BY <1>1 DEF QueueOK, QueueTypeOK
<1>3. /\ \A k \in Handlers : Waker(k)' <=> Waker(k)
      /\ Woke' <=> Woke
      /\ Sender' <=> Sender
      /\ Counted' = Counted
  BY <1>1 DEF Waker, Woke, Sender, Counted
<1>4. HandlersCounted' /\ NoteInv'
  BY <1>1, <1>3 DEF NoteInv, HandlersCounted, QueueOK
<1>5. \A x : Announced(x) => Announced(x)'
  BY <1>1, <1>3 DEF Announced
<1>6. \A x : x # received /\ Coming(x) => Coming(x)'
  BY <1>1, <1>5 DEF Coming
<1>7. QueueInv'
  BY <1>1, <1>3, <1>5 DEF QueueInv, QueueOK
<1>8. \A x : x # received /\ OnItsWay(x) => OnItsWay(x)'
  BY <1>1 DEF OnItsWay
<1> QED BY <1>2, <1>4, <1>6, <1>7, <1>8 DEF QueueOK

\* A step of a handler or of the receiver.
LEMMA QueueStep ==
  ASSUME QueueOK,
         \/ \E h \in Handlers : HandlerStep(h) \/ \E s \in Signals : Sigsend(h, s)
         \/ ReceiverStep
  PROVE  QueueKept
<1>1. ASSUME NEW h \in Handlers, HandlerStep(h)
      PROVE  QueueKept
  BY <1>1, SendWantedKeeps, SendQueueKeeps, SendStateKeeps, SendWakeKeeps, SendEndKeeps DEF HandlerStep
<1>2. ASSUME NEW h \in Handlers, NEW s \in Signals, Sigsend(h, s)
      PROVE  QueueKept
  BY <1>2, SigsendKeeps
<1>3. ASSUME ReceiverStep
      PROVE  QueueKept
  BY <1>3, ServeKeeps, ReceiveKeeps, WokenKeeps, UpdateKeeps DEF ReceiverStep
<1> QED BY <1>1, <1>2, <1>3

\* Package os/signal leaves the queue alone.
LEMMA QueueSame ==
  ASSUME QueueOK, UNCHANGED queueVars
  PROVE  /\ QueueOK'
         /\ \A s : Coming(s)' <=> Coming(s)
         /\ \A s : OnItsWay(s)' <=> OnItsWay(s)
<1>1. UNCHANGED <<mask, recv, state, delivering, note, exchange, sending, hpc, rpc, received>>
  BY DEF queueVars, receiverVars, handlerVars
<1>2. QueueTypeOK'
  BY <1>1 DEF QueueOK, QueueTypeOK
<1>3. /\ \A k \in Handlers : Waker(k)' <=> Waker(k)
      /\ Woke' <=> Woke
      /\ Sender' <=> Sender
      /\ Counted' = Counted
  BY <1>1 DEF Waker, Woke, Sender, Counted
<1>4. HandlersCounted' /\ NoteInv'
  BY <1>1, <1>3 DEF NoteInv, HandlersCounted, QueueOK
<1>5. \A x : Announced(x)' <=> Announced(x)
  BY <1>1, <1>3 DEF Announced
<1>6. \A x : Coming(x)' <=> Coming(x)
  BY <1>1, <1>5 DEF Coming
<1>7. QueueInv'
  BY <1>1, <1>3, <1>5 DEF QueueInv, QueueOK
<1>8. \A x : OnItsWay(x)' <=> OnItsWay(x)
  BY <1>1 DEF OnItsWay
<1> QED BY <1>2, <1>4, <1>6, <1>7, <1>8 DEF QueueOK

\* When no handler is counted, what is queued has been announced; when the receiver
\* has said that it sleeps, nothing has.
LEMMA WaitedFact ==
  ASSUME QueueOK
  PROVE  /\ NothingDelivered => \A s : OnItsWay(s) => Coming(s)
         /\ Receiving => \A s : ~Coming(s)
<1>1. ASSUME NothingDelivered, NEW s, OnItsWay(s)
      PROVE  Coming(s)
  <2>1. IsFiniteSet(Counted) /\ Cardinality(Counted) = 0
    BY <1>1 DEF QueueOK, HandlersCounted, NothingDelivered
  <2>2. Counted = {}
    BY <2>1, FS_EmptySet
  <2>3. \A h \in Handlers : hpc[h] = "idle"
    BY <2>2 DEF Counted
  <2>4. ~Sender
    BY <2>3 DEF Sender
  <2> QED BY <1>1, <2>3, <2>4 DEF OnItsWay, Coming, QueueOK, QueueInv
<1>2. ASSUME Receiving, NEW s
      PROVE  ~Coming(s)
  <2>1. state = "receiving" /\ rpc = "sleep" /\ recv = {} /\ note # 1 /\ ~Woke
    BY <1>2 DEF Receiving, QueueOK, NoteInv
  <2> QED BY <2>1 DEF Coming, Announced
<1> QED BY <1>1, <1>2

-----------------------------------------------------------------------------
(* Signals: how long the Stops of a channel wait.                              *)

Stopped == [c : Chans, h : SUBSET Signals]

StopTypeOK ==
  /\ handlers \in [Chans -> SUBSET Signals]
  /\ stopping \in Seq(Stopped)
  /\ spc \in [Goroutines -> {"idle", "disable", "delivering", "receiving", "remove"}]
  /\ schan \in [Goroutines -> Chans \cup {NoChan}]
  /\ disabling \in [Goroutines -> SUBSET Signals]
  /\ pending \in [Goroutines -> Seq(SignalCalls)]
  /\ owed \in [Chans -> SUBSET Signals]

Stops(g) == spc[g] # "idle"

\* What is owed and on its way will have been relayed when g goes on to remove.
Waits(g, s) == spc[g] \in {"disable", "delivering"} \/ (spc[g] = "receiving" /\ Coming(s))

\* Every Stop has an entry of its channel in handlers.stopping to itself; that of the
\* one that holds the lock is the last.  As a Stop removes the first entry of its
\* channel, another may have to be content with a later one than it has added.
Ordered(f) ==
  /\ \A g \in Goroutines : Stops(g) => /\ f[g] \in DOMAIN stopping /\ schan[g] \in Chans
                                       /\ stopping[f[g]].c = schan[g]
  /\ \A g, k \in Goroutines : Stops(g) /\ Stops(k) /\ f[g] = f[k] => g = k
  /\ \A g \in Goroutines :
       /\ spc[g] = "disable" => /\ hlock = g /\ f[g] = Len(stopping)
                                /\ disabling[g] \subseteq stopping[f[g]].h
       /\ spc[g] # "disable" => disabling[g] = {}

\* s gets to c by an entry that no Stop of c removes before it has waited for s: those
\* with this entry or a later one still wait, and the others remove an earlier one.
CoveredAt(f, c, s) ==
  \E q \in DOMAIN stopping :
    /\ stopping[q].c = c /\ s \in stopping[q].h
    /\ \A g \in Goroutines : Stops(g) /\ schan[g] = c /\ f[g] >= q => Waits(g, s)

Covered(f) == \A c \in Chans : \A s \in owed[c] \ handlers[c] : CoveredAt(f, c, s)

OwedInv == \A c \in Chans : \A s \in owed[c] : OnItsWay(s)

StopInv == \E f \in [Goroutines -> Nat] : Ordered(f) /\ Covered(f)

SignalInv == QueueOK /\ StopTypeOK /\ OwedInv /\ StopInv

\* What a channel is owed is still sent to it: it has a handler or an entry of a Stop.
LEMMA CoveredFact ==
  ASSUME NEW f, Covered(f), NEW c \in Chans, NEW s \in owed[c]
  PROVE  /\ s \in handlers[c] \/ \E q \in DOMAIN stopping : stopping[q].c = c /\ s \in stopping[q].h
         /\ c \in Recipients(s)
<1>1. s \in handlers[c] \/ \E q \in DOMAIN stopping : stopping[q].c = c /\ s \in stopping[q].h
  BY DEF Covered, CoveredAt
<1>2. CASE s \in handlers[c]
  BY <1>1, <1>2 DEF Recipients
<1>3. CASE \E q \in DOMAIN stopping : stopping[q].c = c /\ s \in stopping[q].h
  <2>1. PICK d : d \in ToSet(stopping) /\ d.c = c /\ s \in d.h
    BY <1>3 DEF ToSet
  <2> QED BY <1>1, <2>1 DEF Recipients
<1> QED BY <1>1, <1>2, <1>3

\* A step that changes no entry, after which a Stop waits for s as before, or removes
\* no entry that s may need.
LEMMA CoveredAtKept ==
  ASSUME NEW f, NEW c, NEW s, CoveredAt(f, c, s), stopping' = stopping,
         \A g \in Goroutines : Stops(g)' /\ schan'[g] = c =>
           Stops(g) /\ schan[g] = c /\ (Waits(g, s) => Waits(g, s)')
  PROVE  CoveredAt(f, c, s)'
BY DEF CoveredAt

\* What is owed from now on is owed to a registered channel, or to one whose Stop still
\* releases the signal.
LEMMA WantingFact ==
  ASSUME StopTypeOK, NEW f \in [Goroutines -> Nat], Ordered(f), NEW s, NEW c \in Chans, c \in Wanting(s)
  PROVE  s \in handlers[c] \/ CoveredAt(f, c, s)
<1>1. CASE s \in handlers[c]
  BY <1>1
<1>2. CASE s \notin handlers[c]
  <2>1. PICK g \in Goroutines : schan[g] = c /\ s \in disabling[g]
    BY <1>2 DEF Wanting
  <2>2. spc[g] = "disable" /\ Stops(g) /\ f[g] = Len(stopping) /\ s \in stopping[f[g]].h
    BY <2>1 DEF Ordered, Stops
  <2>3. f[g] \in DOMAIN stopping /\ stopping[f[g]].c = c
    BY <2>1, <2>2 DEF Ordered
  <2>4. ASSUME NEW k \in Goroutines, Stops(k), f[k] >= f[g]
        PROVE  Waits(k, s)
    <3>1. f[k] \in DOMAIN stopping
      BY <2>4 DEF Ordered
    <3>2. DOMAIN stopping = 1 .. Len(stopping) /\ Len(stopping) \in Nat
      BY DEF StopTypeOK
    <3>3. f[k] = f[g]
      BY <2>2, <2>4, <3>1, <3>2
    <3>4. k = g
      BY <2>2, <2>4, <3>3 DEF Ordered
    <3> QED BY <2>2, <3>4 DEF Waits
  <2> QED BY <2>1, <2>2, <2>3, <2>4 DEF CoveredAt
<1> QED BY <1>1, <1>2

\* A step that leaves the channels and the Stops alone keeps what is owed covered.
LEMMA CoverageKept ==
  ASSUME NEW f, Ordered(f), Covered(f), UNCHANGED <<handlers, stopping, hlock, spc, schan, disabling>>,
         \A c \in Chans : \A s \in owed'[c] :
           (s \in owed[c] \/ s \in handlers[c] \/ CoveredAt(f, c, s)) /\ (Coming(s) => Coming(s)')
  PROVE  Ordered(f)' /\ Covered(f)'
<1>1. \A g : Stops(g)' <=> Stops(g)
  BY DEF Stops
<1>2. Ordered(f)'
  BY <1>1 DEF Ordered
<1>3. ASSUME NEW c \in Chans, NEW s \in owed'[c], s \notin handlers'[c]
      PROVE  CoveredAt(f, c, s)'
  <2>1. CoveredAt(f, c, s)
    BY <1>3 DEF Covered
  <2>2. \A g \in Goroutines : Waits(g, s) => Waits(g, s)'
    BY <1>3 DEF Waits
  <2> QED BY <1>1, <2>1, <2>2, CoveredAtKept
<1> QED BY <1>2, <1>3 DEF Covered

-----------------------------------------------------------------------------
(* Signals: the steps of the queue.                                            *)

\* The threads on which signals arrive, and the receiver.
LEMMA QueueStepKeeps ==
  ASSUME SignalInv, UNCHANGED <<handlers, stopping, hlock, stopVars, pending, owed>>,
         \/ \E h \in Handlers : \E s \in Signals : Sigsend(h, s)
         \/ ReceiverStep
  PROVE  SignalInv'
<1>1. QueueKept
  BY QueueStep DEF SignalInv
<1>2. UNCHANGED <<handlers, stopping, hlock, spc, schan, disabling, pending, owed>>
  BY DEF stopVars
<1>3. StopTypeOK' /\ OwedInv'
  BY <1>1, <1>2 DEF SignalInv, StopTypeOK, OwedInv, QueueKept
<1>4. PICK f \in [Goroutines -> Nat] : Ordered(f) /\ Covered(f)
  BY DEF SignalInv, StopInv
<1>5. Ordered(f)' /\ Covered(f)'
  BY <1>1, <1>2, <1>4, CoverageKept DEF QueueKept
<1> QED BY <1>1, <1>3, <1>5 DEF SignalInv, StopInv, QueueKept

\* A handler that goes on owes the signal to who wants it when it decides to queue it.
LEMMA HandlerSendsKeeps ==
  ASSUME SignalInv, NEW h \in Handlers, HandlerSends(h)
  PROVE  SignalInv'
<1>1. QueueKept
  BY QueueStep DEF SignalInv, HandlerSends
<1>2. UNCHANGED <<handlers, stopping, hlock, spc, schan, disabling, pending>>
  BY DEF stopVars, HandlerSends
<1>3. \A c \in Chans : \A s \in owed'[c] :
        s \in owed[c] \/ (s = sending[h] /\ hpc'[h] = "queue" /\ c \in Wanting(s))
  BY DEF HandlerSends
<1>4. hpc'[h] = "queue" => sending' = sending /\ sending[h] \in Signals
  <2>1. ASSUME hpc'[h] = "queue"
        PROVE  hpc[h] = "wanted" /\ sending' = sending
    <3>1. SendWanted(h)
      <4>1. ~SendQueue(h)
        BY <2>1 DEF SendQueue, HGoto, SignalInv, QueueOK, QueueTypeOK
      <4>2. ~SendState(h)
        BY <2>1 DEF SendState, HGoto, SignalInv, QueueOK, QueueTypeOK
      <4>3. ~SendWake(h)
        BY <2>1 DEF SendWake, HGoto, SignalInv, QueueOK, QueueTypeOK
      <4>4. ~SendEnd(h)
        BY <2>1 DEF SendEnd, SignalInv, QueueOK, QueueTypeOK
      <4> QED BY <4>1, <4>2, <4>3, <4>4 DEF HandlerSends, HandlerStep
    <3> QED BY <3>1 DEF SendWanted, HGoto
  <2> QED BY <2>1 DEF SignalInv, QueueOK, QueueTypeOK
<1>5. StopTypeOK'
  <2>1. owed' \in [Chans -> SUBSET Signals]
    <3>1. owed' = [c \in Chans |->
                     IF hpc'[h] = "queue" /\ c \in Wanting(sending[h])
                     THEN owed[c] \cup {sending[h]} ELSE owed[c]]
      BY DEF HandlerSends
    <3>2. owed \in [Chans -> SUBSET Signals]
      BY DEF SignalInv, StopTypeOK
    <3> QED BY <1>4, <3>1, <3>2
  <2> QED BY <1>2, <2>1 DEF SignalInv, StopTypeOK
<1>6. OwedInv'
  <2>1. ASSUME NEW c \in Chans, NEW s \in owed'[c]
        PROVE  OnItsWay(s)'
    <3>1. CASE s \in owed[c]
      BY <1>1, <3>1 DEF SignalInv, OwedInv, QueueKept
    <3>2. CASE s = sending[h] /\ hpc'[h] = "queue"
      BY <1>4, <3>2 DEF OnItsWay
    <3> QED BY <1>3, <3>1, <3>2
  <2> QED BY <2>1 DEF OwedInv
<1>7. PICK f \in [Goroutines -> Nat] : Ordered(f) /\ Covered(f)
  BY DEF SignalInv, StopInv
<1>8. \A c \in Chans : \A s \in owed'[c] : s \in owed[c] \/ s \in handlers[c] \/ CoveredAt(f, c, s)
  BY <1>3, <1>7, WantingFact DEF SignalInv
<1>9. Ordered(f)' /\ Covered(f)'
  BY <1>1, <1>2, <1>7, <1>8, CoverageKept DEF QueueKept
<1> QED BY <1>1, <1>5, <1>6, <1>9 DEF SignalInv, StopInv, QueueKept

\* The goroutine of loop relays the signal to all that it is owed to.
LEMMA RelayKeeps ==
  ASSUME SignalInv, Relay
  PROVE  SignalInv'
<1>1. /\ QueueOK'
      /\ \A s : s # received /\ Coming(s) => Coming(s)'
      /\ \A s : s # received /\ OnItsWay(s) => OnItsWay(s)'
  BY AgainKeeps DEF SignalInv, Relay, Process
<1>2. UNCHANGED <<handlers, stopping, hlock, spc, schan, disabling, pending>>
  BY DEF stopVars, Relay, Process
<1>3. PICK f \in [Goroutines -> Nat] : Ordered(f) /\ Covered(f)
  BY DEF SignalInv, StopInv
<1>4. ASSUME NEW c \in Chans, NEW s \in owed'[c]
      PROVE  s \in owed[c] /\ s # received
  <2>1. owed'[c] = IF c \in Recipients(received) THEN owed[c] \ {received} ELSE owed[c]
    BY DEF Relay
  <2>2. s \in owed[c]
    BY <1>4, <2>1
  <2>3. c \in Recipients(s)
    BY <1>3, <2>2, CoveredFact
  <2> QED BY <1>4, <2>1, <2>2, <2>3
<1>5. StopTypeOK'
  <2>1. owed' = [c \in Chans |->
                   IF c \in Recipients(received) THEN owed[c] \ {received} ELSE owed[c]]
    BY DEF Relay
  <2>2. owed' \in [Chans -> SUBSET Signals]
    BY <2>1 DEF SignalInv, StopTypeOK
  <2> QED BY <1>2, <2>2 DEF SignalInv, StopTypeOK
<1>6. OwedInv'
  BY <1>1, <1>4 DEF SignalInv, OwedInv
<1>7. Ordered(f)' /\ Covered(f)'
  BY <1>1, <1>2, <1>3, <1>4, CoverageKept
<1> QED BY <1>1, <1>5, <1>6, <1>7 DEF SignalInv, StopInv

-----------------------------------------------------------------------------
(* Signals: the calls of package os/signal.                                    *)

\* A call that adds channels for a signal, or gives up what it takes from them.
LEMMA RegistrationKeeps ==
  ASSUME SignalInv, UNCHANGED <<stopping, hlock, stopVars, queueVars>>,
         handlers' \in [Chans -> SUBSET Signals], owed' \in [Chans -> SUBSET Signals],
         pending' \in [Goroutines -> Seq(SignalCalls)],
         \A c \in Chans : \A s \in owed'[c] :
           s \in owed[c] /\ (s \in handlers[c] => s \in handlers'[c])
  PROVE  SignalInv'
<1>1. /\ QueueOK'
      /\ \A s : Coming(s)' <=> Coming(s)
      /\ \A s : OnItsWay(s)' <=> OnItsWay(s)
  BY QueueSame DEF SignalInv
<1>2. UNCHANGED <<stopping, hlock, spc, schan, disabling>>
  BY DEF stopVars
<1>3. StopTypeOK'
  BY <1>2 DEF SignalInv, StopTypeOK
<1>4. OwedInv'
  BY <1>1 DEF SignalInv, OwedInv
<1>5. PICK f \in [Goroutines -> Nat] : Ordered(f) /\ Covered(f)
  BY DEF SignalInv, StopInv
<1>6. \A g : Stops(g)' <=> Stops(g)
  BY <1>2 DEF Stops
<1>7. Ordered(f)'
  BY <1>2, <1>5, <1>6 DEF Ordered
<1>8. ASSUME NEW c \in Chans, NEW s \in owed'[c], s \notin handlers'[c]
      PROVE  CoveredAt(f, c, s)'
  <2>1. CoveredAt(f, c, s)
    BY <1>5, <1>8 DEF Covered
  <2>2. \A g \in Goroutines : Waits(g, s) => Waits(g, s)'
    BY <1>1, <1>2 DEF Waits
  <2> QED BY <1>2, <1>6, <2>1, <2>2, CoveredAtKept
<1>9. Covered(f)'
  BY <1>8 DEF Covered
<1> QED BY <1>1, <1>3, <1>4, <1>7, <1>9 DEF SignalInv, StopInv

\* A Stop of a registered channel.
LEMMA StopKeeps ==
  ASSUME SignalInv, NEW g \in Goroutines, NEW c \in Chans, Stop(g, c), UNCHANGED owed,
         pending' \in [Goroutines -> Seq(SignalCalls)]
  PROVE  SignalInv'
<1> DEFINE n == Len(stopping)
           d == [c |-> c, h |-> handlers[c]]
<1>1. /\ QueueOK'
      /\ \A s : Coming(s)' <=> Coming(s)
      /\ \A s : OnItsWay(s)' <=> OnItsWay(s)
  BY QueueSame DEF SignalInv, Stop
<1>2. /\ StopTypeOK /\ handlers[c] \in SUBSET Signals /\ d \in Stopped
  BY DEF SignalInv, StopTypeOK, Stopped
<1>3. /\ handlers'[c] = {} /\ \A x \in Chans : x # c => handlers'[x] = handlers[x]
      /\ disabling'[g] = handlers[c] /\ spc'[g] = "disable" /\ schan'[g] = c /\ hlock' = g
      /\ \A k \in Goroutines : k # g => /\ disabling'[k] = disabling[k] /\ spc'[k] = spc[k]
                                        /\ schan'[k] = schan[k]
      /\ spc[g] = "idle" /\ hlock = NoOne
      /\ stopping' = Append(stopping, d)
  BY <1>2 DEF Stop, Unlocked, StopTypeOK
<1>4. /\ n \in Nat /\ DOMAIN stopping = 1 .. n /\ d.c = c /\ d.h = handlers[c]
      /\ stopping' \in Seq(Stopped) /\ Len(stopping') = n + 1 /\ DOMAIN stopping' = 1 .. n + 1
      /\ stopping'[n + 1] = d /\ \A q \in 1 .. n : stopping'[q] = stopping[q]
  <2>1. stopping \in Seq(Stopped)
    BY <1>2 DEF StopTypeOK
  <2>2. /\ Append(stopping, d) \in Seq(Stopped) /\ Len(Append(stopping, d)) = n + 1
        /\ Append(stopping, d)[n + 1] = d
        /\ \A q \in 1 .. n : Append(stopping, d)[q] = stopping[q]
    BY <1>2, <2>1, AppendProperties
  <2>3. n \in Nat /\ DOMAIN stopping = 1 .. n
    BY <2>1, LenProperties
  <2>4. d.c = c /\ d.h = handlers[c]
    OBVIOUS
  <2>5. stopping' \in Seq(Stopped) => DOMAIN stopping' = 1 .. Len(stopping')
    BY LenProperties
  <2> HIDE DEF n, d
  <2> QED BY <1>3, <2>2, <2>3, <2>4, <2>5
<1> HIDE DEF d, n
<1>5. StopTypeOK'
  BY <1>2, <1>4 DEF Stop, StopTypeOK
<1>6. OwedInv'
  BY <1>1 DEF SignalInv, OwedInv
<1>7. PICK f \in [Goroutines -> Nat] : Ordered(f) /\ Covered(f)
  BY DEF SignalInv, StopInv
<1>8. PICK e \in [Goroutines -> Nat] : e[g] = n + 1 /\ \A k \in Goroutines : k # g => e[k] = f[k]
  <2> DEFINE e == [f EXCEPT ![g] = n + 1]
  <2>1. e \in [Goroutines -> Nat] /\ e[g] = n + 1 /\ \A k \in Goroutines : k # g => e[k] = f[k]
    BY <1>4
  <2> QED BY <2>1
<1>9. /\ Stops(g)' /\ \A k \in Goroutines : k # g => (Stops(k)' <=> Stops(k))
      /\ \A k \in Goroutines : Stops(k) => k # g /\ f[k] \in 1 .. n
      /\ \A k \in Goroutines : spc[k] # "disable"
      /\ \A k \in Goroutines : k # g => spc'[k] # "disable"
  <2>1. \A k \in Goroutines : spc[k] # "disable"
    BY <1>3, <1>7, SignalAssumption DEF Ordered
  <2>2. \A k \in Goroutines : Stops(k) => f[k] \in 1 .. n
    BY <1>4, <1>7 DEF Ordered
  <2> QED BY <1>3, <2>1, <2>2 DEF Stops
<1>10. Ordered(e)'
  <2>1. ASSUME NEW k \in Goroutines, Stops(k)'
        PROVE  e[k] \in DOMAIN stopping' /\ schan'[k] \in Chans /\ stopping'[e[k]].c = schan'[k]
    <3>1. CASE k = g
      <4>1. n + 1 \in 1 .. n + 1
        BY <1>4
      <4> QED BY <1>3, <1>4, <1>8, <3>1, <4>1
    <3>2. CASE k # g
      <4>1. Stops(k) /\ e[k] = f[k] /\ f[k] \in 1 .. n /\ schan'[k] = schan[k]
        BY <1>3, <1>8, <1>9, <2>1, <3>2
      <4>2. f[k] \in 1 .. n + 1 /\ stopping'[f[k]] = stopping[f[k]]
        BY <1>4, <4>1
      <4>3. schan[k] \in Chans /\ stopping[f[k]].c = schan[k]
        BY <1>7, <4>1 DEF Ordered
      <4> QED BY <1>4, <4>1, <4>2, <4>3
    <3> QED BY <3>1, <3>2
  <2>2. ASSUME NEW k \in Goroutines, NEW l \in Goroutines, Stops(k)', Stops(l)', e[k] = e[l]
        PROVE  k = l
    <3>1. n + 1 \notin 1 .. n
      BY <1>4
    <3>2. CASE k = g \/ l = g
      BY <1>8, <1>9, <2>2, <3>1, <3>2
    <3>3. CASE k # g /\ l # g
      BY <1>7, <1>8, <1>9, <2>2, <3>3 DEF Ordered
    <3> QED BY <3>2, <3>3
  <2>3. ASSUME NEW k \in Goroutines
        PROVE  /\ spc'[k] = "disable" => /\ hlock' = k /\ e[k] = Len(stopping')
                                         /\ disabling'[k] \subseteq stopping'[e[k]].h
               /\ spc'[k] # "disable" => disabling'[k] = {}
    <3>1. CASE k = g
      BY <1>3, <1>4, <1>8, <3>1
    <3>2. CASE k # g
      BY <1>3, <1>7, <1>9, <3>2 DEF Ordered
    <3> QED BY <3>1, <3>2
  <2> QED BY <2>1, <2>2, <2>3 DEF Ordered
<1>11. ASSUME NEW x \in Chans, NEW s \in owed'[x], s \notin handlers'[x]
       PROVE  CoveredAt(e, x, s)'
  <2>1. \A k \in Goroutines : k # g /\ Waits(k, s) => Waits(k, s)'
    BY <1>1, <1>3 DEF Waits
  <2>2. Waits(g, s)'
    BY <1>3 DEF Waits
  <2>3. CASE s \in handlers[x]
    <3>1. x = c /\ n + 1 \in DOMAIN stopping' /\ stopping'[n + 1].c = x /\ s \in stopping'[n + 1].h
      BY <1>3, <1>4, <1>11, <2>3
    <3>2. ASSUME NEW k \in Goroutines, Stops(k)', e[k] >= n + 1
          PROVE  Waits(k, s)'
      <4>1. CASE k # g
        <5>1. f[k] \in 1 .. n /\ e[k] = f[k]
          BY <1>8, <1>9, <3>2, <4>1
        <5> QED BY <1>4, <3>2, <5>1
      <4> QED BY <2>2, <4>1
    <3> QED BY <3>1, <3>2 DEF CoveredAt
  <2>4. CASE s \notin handlers[x]
    <3>1. PICK q \in DOMAIN stopping :
            /\ stopping[q].c = x /\ s \in stopping[q].h
            /\ \A k \in Goroutines : Stops(k) /\ schan[k] = x /\ f[k] >= q => Waits(k, s)
      BY <1>7, <1>11, <2>4 DEF Covered, CoveredAt
    <3>2. q \in DOMAIN stopping' /\ stopping'[q] = stopping[q]
      BY <1>4
    <3>3. ASSUME NEW k \in Goroutines, Stops(k)', schan'[k] = x, e[k] >= q
          PROVE  Waits(k, s)'
      BY <1>3, <1>8, <1>9, <2>1, <2>2, <3>1, <3>3
    <3> QED BY <3>1, <3>2, <3>3 DEF CoveredAt
  <2> QED BY <2>3, <2>4
<1>12. Covered(e)'
  BY <1>11 DEF Covered
<1> QED BY <1>1, <1>5, <1>6, <1>8, <1>10, <1>12 DEF SignalInv, StopInv

\* What all calls of a program have in common.
LEMMA SignalCallFact ==
  ASSUME StopTypeOK, NEW g \in Goroutines, pending[g] # <<>>,
         pending' = [pending EXCEPT ![g] = Tail(@)]
  PROVE  /\ pending' \in [Goroutines -> Seq(SignalCalls)]
         /\ Head(pending[g]) \in SignalCalls
<1>1. pending[g] \in Seq(SignalCalls)
  BY DEF StopTypeOK
<1>2. Head(pending[g]) \in SignalCalls /\ Tail(pending[g]) \in Seq(SignalCalls)
  BY <1>1, HeadTailProperties
<1> QED BY <1>2 DEF StopTypeOK

\* Each call that a program makes.
LEMMA SignalCallKeeps ==
  ASSUME SignalInv, NEW g \in Goroutines, SignalCall(g)
  PROVE  SignalInv'
<1> DEFINE call == Head(pending[g])
<1>1. pending' \in [Goroutines -> Seq(SignalCalls)] /\ call \in SignalCalls
  BY SignalCallFact DEF SignalCall, SignalInv
<1>2. StopTypeOK
  BY DEF SignalInv
<1> HIDE DEF call
<1>3. ASSUME call[1] = "notify", Notify(call[2], call[3]), UNCHANGED owed
      PROVE  SignalInv'
  <2>1. call[2] \in Chans /\ call[3] \in Signals
    BY <1>1, <1>3 DEF SignalCalls
  <2>2. /\ handlers' = [handlers EXCEPT ![call[2]] = @ \cup {call[3]}]
        /\ UNCHANGED <<stopping, hlock, stopVars, queueVars>>
    BY <1>3 DEF Notify
  <2>3. /\ handlers' \in [Chans -> SUBSET Signals]
        /\ \A c \in Chans : handlers[c] \subseteq handlers'[c]
    BY <1>2, <2>1, <2>2 DEF StopTypeOK
  <2>4. owed' \in [Chans -> SUBSET Signals] /\ owed' = owed
    BY <1>2, <1>3 DEF StopTypeOK
  <2> QED BY <1>1, <2>2, <2>3, <2>4, RegistrationKeeps
<1>4. ASSUME call[1] = "stop", Stop(g, call[2]), UNCHANGED owed
      PROVE  SignalInv'
  <2>1. call[2] \in Chans
    BY <1>1, <1>4 DEF SignalCalls
  <2> QED BY <1>1, <1>4, <2>1, StopKeeps
<1>5. ASSUME call[1] = "stop", StopNothing(call[2]), UNCHANGED owed
      PROVE  SignalInv'
  <2>1. UNCHANGED <<handlers, stopping, hlock, stopVars, queueVars>>
    BY <1>5 DEF StopNothing
  <2>2. handlers' \in [Chans -> SUBSET Signals] /\ owed' \in [Chans -> SUBSET Signals]
    BY <1>2, <1>5, <2>1 DEF StopTypeOK
  <2> QED BY <1>1, <1>5, <2>1, <2>2, RegistrationKeeps
<1>6. ASSUME NEW s, Deregister(s), GiveUp(s), UNCHANGED <<stopping, hlock, stopVars, queueVars>>
      PROVE  SignalInv'
  <2>1. /\ handlers' = [c \in Chans |-> handlers[c] \ {s}]
        /\ owed' = [c \in Chans |-> IF s \in handlers[c] THEN owed[c] \ {s} ELSE owed[c]]
    BY <1>6 DEF Deregister, GiveUp
  <2>2. handlers' \in [Chans -> SUBSET Signals] /\ owed' \in [Chans -> SUBSET Signals]
    BY <1>2, <2>1 DEF StopTypeOK
  <2>3. \A c \in Chans : \A x \in owed'[c] :
          x \in owed[c] /\ (x \in handlers[c] => x \in handlers'[c])
    BY <2>1
  <2> QED BY <1>1, <1>6, <2>2, <2>3, RegistrationKeeps
<1>7. ASSUME Reset(call[2]) \/ Ignore(call[2]), GiveUp(call[2])
      PROVE  SignalInv'
  BY <1>6, <1>7 DEF Reset, Ignore
<1> QED BY <1>3, <1>4, <1>5, <1>7 DEF SignalCall, call

-----------------------------------------------------------------------------
(* Signals: the steps of Stop.                                                 *)

\* A Stop that has the lock releases a signal, or gives the lock back, or has waited:
\* then nothing that it waited for is still owed.
LEMMA StopWaitKeeps ==
  ASSUME SignalInv, NEW g \in Goroutines, UNCHANGED <<pending, owed>>,
         StopDisable(g) \/ StopUnlock(g) \/ StopDelivering(g) \/ StopReceiving(g)
  PROVE  SignalInv'
<1>1. UNCHANGED <<handlers, stopping, schan, queueVars>>
  BY DEF StopDisable, StopUnlock, StopDelivering, StopReceiving, SGoto
<1>2. /\ QueueOK'
      /\ \A s : Coming(s)' <=> Coming(s)
      /\ \A s : OnItsWay(s)' <=> OnItsWay(s)
  BY <1>1, QueueSame DEF SignalInv
<1>3. OwedInv' /\ StopTypeOK
  BY <1>2 DEF SignalInv, OwedInv
<1>4. PICK f \in [Goroutines -> Nat] : Ordered(f) /\ Covered(f)
  BY DEF SignalInv, StopInv
<1>5. ASSUME NEW k \in Goroutines, k # g
      PROVE  spc'[k] = spc[k] /\ disabling'[k] = disabling[k]
  BY <1>3, <1>5 DEF StopDisable, StopUnlock, StopDelivering, StopReceiving, SGoto, StopTypeOK
<1>6. \/ /\ spc[g] = "disable" /\ spc'[g] = "disable" /\ hlock' = hlock
         /\ disabling'[g] \subseteq disabling[g]
      \/ /\ spc[g] = "disable" /\ spc'[g] = "delivering" /\ disabling[g] = {} /\ disabling'[g] = {}
      \/ /\ spc[g] = "delivering" /\ spc'[g] = "receiving" /\ disabling'[g] = disabling[g]
         /\ NothingDelivered /\ hlock' = hlock
      \/ /\ spc[g] = "receiving" /\ spc'[g] = "remove" /\ disabling'[g] = disabling[g]
         /\ Receiving /\ hlock' = hlock
  <2>1. CASE StopDisable(g)
    BY <1>3, <2>1 DEF StopDisable, StopTypeOK
  <2>2. CASE StopUnlock(g)
    BY <1>3, <2>2 DEF StopUnlock, SGoto, StopTypeOK
  <2>3. CASE StopDelivering(g)
    BY <1>3, <2>3 DEF StopDelivering, SGoto, StopTypeOK
  <2>4. CASE StopReceiving(g)
    BY <1>3, <2>4 DEF StopReceiving, SGoto, StopTypeOK
  <2> QED BY <2>1, <2>2, <2>3, <2>4
<1>7. /\ spc' \in [Goroutines -> {"idle", "disable", "delivering", "receiving", "remove"}]
      /\ disabling' \in [Goroutines -> SUBSET Signals]
  BY <1>3 DEF StopDisable, StopUnlock, StopDelivering, StopReceiving, SGoto, StopTypeOK
<1>8. StopTypeOK'
  BY <1>1, <1>3, <1>7 DEF StopTypeOK
<1>9. \A k \in Goroutines : Stops(k)' <=> Stops(k)
  BY <1>5, <1>6 DEF Stops
<1>10. Ordered(f)'
  <2>1. ASSUME NEW k \in Goroutines
        PROVE  /\ spc'[k] = "disable" => /\ hlock' = k /\ f[k] = Len(stopping')
                                         /\ disabling'[k] \subseteq stopping'[f[k]].h
               /\ spc'[k] # "disable" => disabling'[k] = {}
    <3>1. CASE k = g
      BY <1>1, <1>4, <1>6, <3>1 DEF Ordered
    <3>2. CASE k # g
      <4>1. spc[k] = "disable" => hlock' = hlock
        <5>1. spc[k] = "disable" /\ spc[g] = "disable" => k = g
          BY <1>4 DEF Ordered
        <5> QED BY <1>6, <3>2, <5>1
      <4> QED BY <1>1, <1>4, <1>5, <3>2, <4>1 DEF Ordered
    <3> QED BY <3>1, <3>2
  <2>2. \A k \in Goroutines : Stops(k)' => /\ f[k] \in DOMAIN stopping' /\ schan'[k] \in Chans
                                           /\ stopping'[f[k]].c = schan'[k]
    BY <1>1, <1>4, <1>9 DEF Ordered
  <2>3. \A k, l \in Goroutines : Stops(k)' /\ Stops(l)' /\ f[k] = f[l] => k = l
    BY <1>4, <1>9 DEF Ordered
  <2> QED BY <2>1, <2>2, <2>3 DEF Ordered
<1>11. ASSUME NEW c \in Chans, NEW s \in owed[c], NEW k \in Goroutines, Waits(k, s)
       PROVE  Waits(k, s)'
  <2>1. CASE k # g
    BY <1>2, <1>5, <1>11, <2>1 DEF Waits
  <2>2. CASE k = g
    <3>1. CASE spc'[g] \in {"disable", "delivering"}
      BY <2>2, <3>1 DEF Waits
    <3>2. CASE spc'[g] = "receiving" /\ NothingDelivered
      <4>1. OnItsWay(s)
        BY <1>11 DEF SignalInv, OwedInv
      <4>2. Coming(s)
        BY <3>2, <4>1, WaitedFact DEF SignalInv
      <4> QED BY <1>2, <2>2, <3>2, <4>2 DEF Waits
    <3>3. CASE spc[g] = "receiving" /\ Receiving
      <4>1. ~Coming(s)
        BY <3>3, WaitedFact DEF SignalInv
      <4> QED BY <1>11, <2>2, <3>3, <4>1 DEF Waits
    <3> QED BY <1>6, <3>1, <3>2, <3>3
  <2> QED BY <2>1, <2>2
<1>12. ASSUME NEW c \in Chans, NEW s \in owed'[c], s \notin handlers'[c]
       PROVE  CoveredAt(f, c, s)'
  <2>1. CoveredAt(f, c, s)
    BY <1>1, <1>4, <1>12 DEF Covered
  <2>2. \A k \in Goroutines : Waits(k, s) => Waits(k, s)'
    BY <1>11, <1>12
  <2> QED BY <1>1, <1>9, <2>1, <2>2, CoveredAtKept
<1>13. Covered(f)'
  BY <1>12 DEF Covered
<1> QED BY <1>2, <1>3, <1>8, <1>10, <1>13 DEF SignalInv, StopInv

\* A sequence with one place left out.
LEMMA PlaceRemoved ==
  ASSUME NEW T, NEW q \in Seq(T), NEW i \in DOMAIN q, NEW n, n = Len(q)
  PROVE  /\ n \in Nat /\ DOMAIN q = 1 .. n
         /\ RemoveAt(q, i) \in Seq(T) /\ DOMAIN RemoveAt(q, i) = 1 .. n - 1
         /\ \A k \in 1 .. n : k < i => RemoveAt(q, i)[k] = q[k]
         /\ \A k \in 1 .. n : k > i => RemoveAt(q, i)[k - 1] = q[k]
<1> DEFINE a == SubSeq(q, 1, i - 1)
           b == SubSeq(q, i + 1, n)
           rest == a \o b
<1>1. n \in Nat /\ DOMAIN q = 1 .. n /\ i \in 1 .. n
  OBVIOUS
<1>2. /\ a \in Seq(T) /\ Len(a) = i - 1 /\ \A k \in 1 .. i - 1 : a[k] = q[k]
  <2>1. 1 \in Int /\ i - 1 \in Int /\ \A k \in 1 .. i - 1 : q[k] \in T
    BY <1>1
  <2>2. /\ a \in Seq(T)
        /\ Len(a) = IF 1 <= i - 1 THEN i - 1 - 1 + 1 ELSE 0
        /\ \A k \in 1 .. i - 1 - 1 + 1 : a[k] = q[1 + k - 1]
    BY <2>1, SubSeqProperties
  <2> HIDE DEF a
  <2>3. Len(a) = i - 1
    BY <1>1, <2>2
  <2>4. \A k \in 1 .. i - 1 : k \in 1 .. i - 1 - 1 + 1 /\ 1 + k - 1 = k
    BY <1>1
  <2> QED BY <2>2, <2>3, <2>4
<1>3. b \in Seq(T) /\ Len(b) = n - i /\ \A k \in 1 .. n - i : b[k] = q[i + k]
  <2>1. i + 1 \in Int /\ n \in Int /\ \A k \in i + 1 .. n : q[k] \in T
    BY <1>1
  <2>2. /\ b \in Seq(T)
        /\ Len(b) = IF i + 1 <= n THEN n - (i + 1) + 1 ELSE 0
        /\ \A k \in 1 .. n - (i + 1) + 1 : b[k] = q[i + 1 + k - 1]
    BY <2>1, SubSeqProperties
  <2> HIDE DEF b
  <2>3. Len(b) = n - i
    BY <1>1, <2>2
  <2>4. \A k \in 1 .. n - i : k \in 1 .. n - (i + 1) + 1 /\ i + 1 + k - 1 = i + k
    BY <1>1
  <2> QED BY <2>2, <2>3, <2>4
<1> HIDE DEF a, b
<1>4. /\ rest \in Seq(T) /\ Len(rest) = i - 1 + (n - i)
      /\ \A k \in 1 .. i - 1 + (n - i) : rest[k] = IF k <= i - 1 THEN a[k] ELSE b[k - (i - 1)]
  <2>1. /\ rest \in Seq(T) /\ Len(rest) = Len(a) + Len(b)
        /\ \A k \in 1 .. Len(a) + Len(b) : rest[k] = IF k <= Len(a) THEN a[k] ELSE b[k - Len(a)]
    BY <1>2, <1>3, ConcatProperties
  <2> HIDE DEF rest
  <2> QED BY <1>2, <1>3, <2>1
<1>5. RemoveAt(q, i) = rest
  BY DEF RemoveAt, a, b
<1> HIDE DEF rest
<1>6. DOMAIN rest = 1 .. n - 1
  BY <1>1, <1>4, LenProperties
<1>7. ASSUME NEW k \in 1 .. n, k < i
      PROVE  rest[k] = q[k]
  <2>1. k \in 1 .. i - 1 + (n - i) /\ k <= i - 1 /\ k \in 1 .. i - 1
    BY <1>1, <1>7
  <2> QED BY <1>2, <1>4, <2>1
<1>8. ASSUME NEW k \in 1 .. n, k > i
      PROVE  rest[k - 1] = q[k]
  <2>1. /\ k - 1 \in 1 .. i - 1 + (n - i) /\ ~(k - 1 <= i - 1)
        /\ k - 1 - (i - 1) \in 1 .. n - i /\ i + (k - 1 - (i - 1)) = k
    BY <1>1, <1>8
  <2> QED BY <1>3, <1>4, <2>1
<1> QED BY <1>1, <1>4, <1>5, <1>6, <1>7, <1>8

\* The entries q without the first one of c.
WithoutFirst(q, c) == RemoveFirstMatch(q, LAMBDA d : d.c = c)

\* The entry of c that is removed is the first one.
LEMMA FirstRemoved ==
  ASSUME NEW q \in Seq(Stopped), NEW c, NEW j \in DOMAIN q, q[j].c = c
  PROVE  \E i \in DOMAIN q :
           /\ q[i].c = c /\ i <= j
           /\ WithoutFirst(q, c) = RemoveAt(q, i)
<1> DEFINE I == {k \in 1 .. Len(q) : q[k].c = c}
           i == Min(I)
<1>1. Len(q) \in Nat /\ DOMAIN q = 1 .. Len(q)
  OBVIOUS
<1>2. j \in I /\ I \in SUBSET Nat
  BY <1>1
<1>3. i \in I /\ \A k \in I : i <= k
  <2>1. \E m \in I : \A k \in I : m <= k
    <3> DEFINE R == {p \in Nat \X Nat : p[1] < p[2]}
    <3> HIDE DEF I
    <3>1. R = OpToRel(<, Nat)
      BY DEF OpToRel
    <3> HIDE DEF R
    <3>2. IsWellFoundedOn(R, Nat)
      BY <3>1, NatLessThanWellFounded
    <3>3. PICK m \in I : \A k \in I : ~(<<k, m>> \in R)
      BY <1>2, <3>2, WFMin
    <3>4. \A k \in I : ~(k < m)
      BY <1>2, <3>3 DEF R
    <3> QED BY <1>2, <3>4
  <2> QED BY <2>1 DEF Min
<1>4. WithoutFirst(q, c) = RemoveAt(q, i)
  BY <1>1, <1>2 DEF WithoutFirst, RemoveFirstMatch, SelectInSeq
<1> QED BY <1>1, <1>2, <1>3, <1>4

\* Where the entry at place k goes when that at place p is removed.
Moved(p, k) == IF k > p THEN k - 1 ELSE k

\* Places stay distinct and in order.
LEMMA MovedFact ==
  ASSUME NEW p \in Nat \ {0}, NEW k \in Nat \ {0}, NEW l \in Nat \ {0}, k # p, l # p
  PROVE  /\ Moved(p, k) \in Nat \ {0}
         /\ Moved(p, k) = Moved(p, l) => k = l
         /\ Moved(p, k) >= Moved(p, l) <=> k >= l
BY DEF Moved

\* A Stop that has waited removes the first entry of its channel.  If that was counted
\* as the entry of another Stop, then this one gets the later entry instead.
LEMMA StopRemoveKeeps ==
  ASSUME SignalInv, NEW g \in Goroutines, UNCHANGED <<pending, owed>>, StopRemove(g)
  PROVE  SignalInv'
<1> DEFINE c == schan[g]
           n == Len(stopping)
<1>1. /\ QueueOK'
      /\ \A s : Coming(s)' <=> Coming(s)
      /\ \A s : OnItsWay(s)' <=> OnItsWay(s)
  BY QueueSame DEF SignalInv, StopRemove
<1>2. OwedInv' /\ StopTypeOK
  BY <1>1 DEF SignalInv, OwedInv
<1>3. /\ spc[g] = "remove" /\ hlock = NoOne /\ spc'[g] = "idle"
      /\ \A k \in Goroutines : k # g => spc'[k] = spc[k] /\ schan'[k] = schan[k]
      /\ handlers' = handlers /\ disabling' = disabling /\ hlock' = hlock
      /\ spc' \in [Goroutines -> {"idle", "disable", "delivering", "receiving", "remove"}]
      /\ schan' \in [Goroutines -> Chans \cup {NoChan}]
  BY <1>2 DEF StopRemove, StopTypeOK, Unlocked
<1>4. PICK f \in [Goroutines -> Nat] : Ordered(f) /\ Covered(f)
  BY DEF SignalInv, StopInv
<1>5. Stops(g) /\ f[g] \in DOMAIN stopping /\ c \in Chans /\ stopping[f[g]].c = c
  BY <1>3, <1>4 DEF Ordered, Stops
<1>6. PICK p \in DOMAIN stopping :
        /\ stopping[p].c = c /\ p <= f[g]
        /\ stopping' = RemoveAt(stopping, p)
  <2>1. stopping \in Seq(Stopped)
    BY <1>2 DEF StopTypeOK
  <2>2. stopping' = WithoutFirst(stopping, c)
    BY DEF StopRemove, WithoutFirst
  <2> HIDE DEF c
  <2> QED BY <1>5, <2>1, <2>2, FirstRemoved
<1>7. /\ n \in Nat /\ DOMAIN stopping = 1 .. n
      /\ stopping' \in Seq(Stopped) /\ DOMAIN stopping' = 1 .. n - 1
      /\ \A k \in 1 .. n : k # p => stopping'[Moved(p, k)] = stopping[k]
  <2>1. stopping \in Seq(Stopped)
    BY <1>2 DEF StopTypeOK
  <2>2. /\ n \in Nat /\ DOMAIN stopping = 1 .. n
        /\ stopping' \in Seq(Stopped) /\ DOMAIN stopping' = 1 .. n - 1
        /\ \A k \in 1 .. n : k < p => stopping'[k] = stopping[k]
        /\ \A k \in 1 .. n : k > p => stopping'[k - 1] = stopping[k]
    BY <1>6, <2>1, PlaceRemoved
  <2> HIDE DEF n
  <2> QED BY <2>2 DEF Moved
<1> HIDE DEF n
<1>8. /\ p \in Nat \ {0} /\ p <= n /\ f[g] \in Nat \ {0} /\ f[g] <= n
      /\ \A k \in 1 .. n : k # p => Moved(p, k) \in 1 .. n - 1
  BY <1>5, <1>6, <1>7 DEF Moved
<1>9. StopTypeOK'
  BY <1>2, <1>3, <1>7 DEF StopTypeOK
<1>10. /\ ~Stops(g)' /\ \A k \in Goroutines : k # g => (Stops(k)' <=> Stops(k))
       /\ \A k \in Goroutines : spc[k] # "disable" /\ spc'[k] # "disable"
  <2>1. \A k \in Goroutines : spc[k] # "disable"
    BY <1>3, <1>4, SignalAssumption DEF Ordered
  <2> QED BY <1>3, <2>1 DEF Stops
\* The entry that counts as that of k before it moves.
<1>11. PICK e \in [Goroutines -> Nat] : \A k \in Goroutines : e[k] = IF f[k] = p THEN f[g] ELSE f[k]
  <2> DEFINE e == [k \in Goroutines |-> IF f[k] = p THEN f[g] ELSE f[k]]
  <2>1. e \in [Goroutines -> Nat] /\ \A k \in Goroutines : e[k] = IF f[k] = p THEN f[g] ELSE f[k]
    OBVIOUS
  <2> QED BY <2>1
<1>12. ASSUME NEW k \in Goroutines, k # g, Stops(k)
       PROVE  /\ e[k] \in 1 .. n /\ e[k] \in Nat \ {0} /\ e[k] # p
              /\ schan[k] \in Chans /\ stopping[e[k]].c = schan[k]
  <2>1. f[k] \in 1 .. n /\ schan[k] \in Chans /\ stopping[f[k]].c = schan[k] /\ f[k] # f[g]
    BY <1>4, <1>5, <1>7, <1>12 DEF Ordered
  <2> QED BY <1>5, <1>6, <1>7, <1>11, <2>1
<1>13. ASSUME NEW k \in Goroutines, NEW l \in Goroutines, k # g, l # g, Stops(k), Stops(l), e[k] = e[l]
       PROVE  k = l
  <2>1. f[k] # f[g] /\ f[l] # f[g] /\ (f[k] = f[l] => k = l)
    BY <1>4, <1>5, <1>13 DEF Ordered
  <2> QED BY <1>11, <1>13, <2>1
<1>14. PICK m \in [Goroutines -> Nat] : \A k \in Goroutines : k # g /\ Stops(k) => m[k] = Moved(p, e[k])
  <2> DEFINE m == [k \in Goroutines |-> IF k # g /\ Stops(k) THEN Moved(p, e[k]) ELSE 0]
  <2>1. \A k \in Goroutines : k # g /\ Stops(k) => Moved(p, e[k]) \in Nat
    BY <1>8, <1>12
  <2>2. m \in [Goroutines -> Nat] /\ \A k \in Goroutines : k # g /\ Stops(k) => m[k] = Moved(p, e[k])
    BY <2>1
  <2> QED BY <2>2
<1>15. Ordered(m)'
  <2>1. ASSUME NEW k \in Goroutines, Stops(k)'
        PROVE  m[k] \in DOMAIN stopping' /\ schan'[k] \in Chans /\ stopping'[m[k]].c = schan'[k]
    <3>1. k # g /\ Stops(k) /\ schan'[k] = schan[k]
      BY <1>3, <1>10, <2>1
    <3>2. m[k] = Moved(p, e[k]) /\ Moved(p, e[k]) \in 1 .. n - 1
      BY <1>8, <1>12, <1>14, <3>1
    <3>3. stopping'[Moved(p, e[k])] = stopping[e[k]]
      BY <1>7, <1>12, <3>1
    <3> QED BY <1>7, <1>12, <3>1, <3>2, <3>3
  <2>2. ASSUME NEW k \in Goroutines, NEW l \in Goroutines, Stops(k)', Stops(l)', m[k] = m[l]
        PROVE  k = l
    <3>1. k # g /\ Stops(k) /\ l # g /\ Stops(l)
      BY <1>10, <2>2
    <3>2. Moved(p, e[k]) = Moved(p, e[l])
      BY <1>14, <2>2, <3>1
    <3>3. e[k] = e[l]
      BY <1>8, <1>12, <3>1, <3>2, MovedFact
    <3> QED BY <1>13, <3>1, <3>3
  <2>3. \A k \in Goroutines : spc'[k] # "disable" /\ disabling'[k] = {}
    BY <1>3, <1>4, <1>10 DEF Ordered
  <2> QED BY <2>1, <2>2, <2>3 DEF Ordered
<1>16. ASSUME NEW x \in Chans, NEW s \in owed'[x], s \notin handlers'[x]
       PROVE  CoveredAt(m, x, s)'
  <2>1. PICK q \in DOMAIN stopping :
          /\ stopping[q].c = x /\ s \in stopping[q].h
          /\ \A k \in Goroutines : Stops(k) /\ schan[k] = x /\ f[k] >= q => Waits(k, s)
    BY <1>3, <1>4, <1>16 DEF Covered, CoveredAt
  <2>2. q \in 1 .. n /\ q \in Nat \ {0}
    BY <1>7
  <2>3. x = c => f[g] < q
    <3>1. ~Waits(g, s)
      BY <1>3 DEF Waits
    <3> QED BY <1>5, <1>8, <2>1, <2>2, <3>1
  <2>4. q # p
    BY <1>6, <1>8, <2>1, <2>2, <2>3
  <2>5. PICK r : r = Moved(p, q)
    OBVIOUS
  <2>6. r \in DOMAIN stopping' /\ stopping'[r] = stopping[q]
    BY <1>7, <1>8, <2>2, <2>4, <2>5
  <2>7. ASSUME NEW k \in Goroutines, Stops(k)', schan'[k] = x, m[k] >= r
        PROVE  Waits(k, s)'
    <3>1. k # g /\ Stops(k) /\ schan[k] = x /\ spc'[k] = spc[k]
      BY <1>3, <1>10, <2>7
    <3>2. m[k] = Moved(p, e[k]) /\ e[k] \in Nat \ {0} /\ e[k] # p
      BY <1>12, <1>14, <3>1
    <3>3. e[k] >= q
      BY <1>8, <2>2, <2>4, <2>5, <2>7, <3>2, MovedFact
    <3>4. f[k] # p
      <4>1. f[k] = p => x = c /\ e[k] = f[g]
        BY <1>4, <1>6, <1>11, <3>1 DEF Ordered
      <4> QED BY <1>8, <2>2, <2>3, <3>3, <4>1
    <3>5. f[k] >= q
      BY <1>11, <3>3, <3>4
    <3>6. Waits(k, s)
      BY <2>1, <3>1, <3>5
    <3> QED BY <1>1, <3>1, <3>6 DEF Waits
  <2> QED BY <2>1, <2>6, <2>7 DEF CoveredAt
<1>17. Covered(m)'
  BY <1>16 DEF Covered
<1> QED BY <1>1, <1>2, <1>9, <1>15, <1>17 DEF SignalInv, StopInv

-----------------------------------------------------------------------------
(* Signals: the theorem.                                                       *)

\* Nothing is queued, owed or stopped at first.
LEMMA SignalStarts == SignalClientsInit(SignalPrograms) => SignalInv
<1> SUFFICES ASSUME SignalClientsInit(SignalPrograms)
             PROVE  SignalInv
  OBVIOUS
<1>1. SigQueueInit /\ OSSignalInit
  BY DEF SignalClientsInit, OSSignalInit
<1>2. QueueTypeOK /\ \A h \in Handlers : hpc[h] = "idle"
  BY <1>1 DEF SigQueueInit, QueueTypeOK
<1>3. HandlersCounted
  <2>1. Counted = {}
    BY <1>2 DEF Counted
  <2> QED BY <1>1, <2>1, FS_EmptySet DEF HandlersCounted, SigQueueInit
<1>4. NoteInv /\ QueueInv
  <2>1. ~Woke /\ \A h \in Handlers : ~Waker(h)
    BY <1>2 DEF Woke, Waker
  <2> QED BY <1>1, <2>1 DEF NoteInv, QueueInv, SigQueueInit
<1>5. StopTypeOK
  <2>1. pending \in [Goroutines -> Seq(SignalCalls)]
    BY SignalAssumption DEF SignalClientsInit
  <2>2. <<>> \in Seq(Stopped)
    OBVIOUS
  <2> QED BY <1>1, <2>1, <2>2 DEF StopTypeOK, OSSignalInit, SignalClientsInit
<1>6. OwedInv
  BY DEF SignalClientsInit, OwedInv
<1>7. StopInv
  <2>1. PICK f \in [Goroutines -> Nat] : TRUE
    <3>1. [g \in Goroutines |-> 0] \in [Goroutines -> Nat]
      OBVIOUS
    <3> QED BY <3>1
  <2>2. \A g \in Goroutines : spc[g] = "idle" /\ disabling[g] = {} /\ ~Stops(g)
    BY <1>1 DEF OSSignalInit, Stops
  <2>3. Ordered(f)
    BY <2>2 DEF Ordered
  <2>4. Covered(f)
    BY DEF Covered, SignalClientsInit
  <2> QED BY <2>3, <2>4 DEF StopInv
<1> QED BY <1>2, <1>3, <1>4, <1>5, <1>6, <1>7 DEF SignalInv, QueueOK

\* Every step of the queue, of the relay and of the programs.
LEMMA SignalInvStep == SignalInv /\ [SignalClientsNext]_signalClientVars => SignalInv'
<1> SUFFICES ASSUME SignalInv, [SignalClientsNext]_signalClientVars
             PROVE  SignalInv'
  OBVIOUS
<1>1. ASSUME NEW h \in Handlers, Arrive(h)
      PROVE  SignalInv'
  BY <1>1, QueueStepKeeps DEF Arrive
<1>2. ASSUME NEW h \in Handlers, HandlerSends(h)
      PROVE  SignalInv'
  BY <1>2, HandlerSendsKeeps
<1>3. CASE ReceiverReceives
  BY <1>3, QueueStepKeeps DEF ReceiverReceives
<1>4. CASE Relay
  BY <1>4, RelayKeeps
<1>5. ASSUME NEW g \in Goroutines, SignalCall(g)
      PROVE  SignalInv'
  BY <1>5, SignalCallKeeps
<1>6. ASSUME NEW g \in Goroutines, StopGoesOn(g)
      PROVE  SignalInv'
  BY <1>6, StopWaitKeeps, StopRemoveKeeps DEF StopGoesOn, StopStep
<1>7. CASE UNCHANGED signalClientVars
  <2>1. UNCHANGED <<handlers, stopping, hlock, stopVars, queueVars, pending, owed>>
    BY <1>7 DEF signalClientVars, osSignalVars, sigQueueVars, stopVars, queueVars, receiverVars, handlerVars
  <2>2. StopTypeOK
    BY DEF SignalInv
  <2>3. /\ handlers' \in [Chans -> SUBSET Signals] /\ owed' \in [Chans -> SUBSET Signals]
        /\ pending' \in [Goroutines -> Seq(SignalCalls)]
    BY <2>1, <2>2 DEF StopTypeOK
  <2> QED BY <2>1, <2>3, RegistrationKeeps
<1> QED BY <1>1, <1>2, <1>3, <1>4, <1>5, <1>6, <1>7 DEF SignalClientsNext

\* A signal that is queued for a channel is relayed to it, whatever other goroutines
\* stop, reset and register meanwhile: Stop keeps an entry of the channel until the
\* handlers have ended and the receiver has run dry, although the entry that it removes
\* may be that of another Stop of the same channel.
THEOREM SignalStopLosesNothing == SignalBehavior => []StopLosesNothing
<1>1. SignalInv => StopLosesNothing
  <2> SUFFICES ASSUME SignalInv, NEW c \in Chans, NEW s \in owed[c]
               PROVE  s \in handlers[c] \cup UNION {d.h : d \in {x \in ToSet(stopping) : x.c = c}}
    BY DEF StopLosesNothing
  <2>1. s \in handlers[c] \/ \E q \in DOMAIN stopping : stopping[q].c = c /\ s \in stopping[q].h
    BY CoveredFact DEF SignalInv, StopInv
  <2>2. ASSUME NEW q \in DOMAIN stopping, stopping[q].c = c, s \in stopping[q].h
        PROVE  s \in UNION {d.h : d \in {x \in ToSet(stopping) : x.c = c}}
    <3>1. PICK d : d = stopping[q]
      OBVIOUS
    <3>2. d \in {x \in ToSet(stopping) : x.c = c} /\ s \in d.h
      BY <2>2, <3>1 DEF ToSet
    <3> QED BY <3>2
  <2> QED BY <2>1, <2>2
<1> QED BY <1>1, SignalStarts, SignalInvStep, PTL DEF SignalBehavior
=============================================================================
