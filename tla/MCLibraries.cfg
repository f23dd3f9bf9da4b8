\* sync.Map: two goroutines call it without end, with two keys; six entries are
\* enough, two in the maps and two that each of them holds.
\* Contexts: a chain and a fork of three, the deadlines and foreign parents of
\* MCLibraries.  Signals: two arrivals on two threads.  Flights: as many as
\* goroutines that can be in one.
SPECIFICATION Spec

CONSTANTS
  g1 = g1
  g2 = g2
  g3 = g3
  Goroutines = {g1, g2, g3}
  Packages = {"map", "context", "signal", "singleflight"}
  k1 = k1
  k2 = k2
  Keys = {k1, k2}
  Entries = {e1, e2, e3, e4, e5, e6}
  NoValue = NoValue
  NoHolder = NoHolder
  Expunged = Expunged
  NoEntry = NoEntry
  NoCall = NoCall
  MapCalls <- TheMapCalls
  root = root
  mid = mid
  leaf = leaf
  Contexts = {root, mid, leaf}
  Background = Background
  ClosedChan = ClosedChan
  None = None
  Nobody = Nobody
  ContextPrograms <- TheContextPrograms
  s1 = s1
  s2 = s2
  c1 = c1
  c2 = c2
  Signals = {s1, s2}
  Handlers = {m1, m2}
  Chans = {c1, c2}
  NoSignal = NoSignal
  NoChan = NoChan
  NoOne = NoOne
  SignalPrograms <- TheSignalPrograms
  MaxArrivals = 2
  Flights = {f1, f2, f3}
  NoFlight = NoFlight
  MaxAsked = 4

INVARIANTS
  EntriesAlive
  CancelReachesAll
  ReleasesResources
  StopLosesNothing
  SharedTellsTruth

PROPERTIES
  ImplementsMap
  CallsSettle

CHECK_DEADLOCK FALSE
