CONSTANTS
  Goroutines = {g1, g2, g3}
  WriterSem = ws
  ReaderSem = rs
  WaitSema = as
  r1 = r1
  Addrs <- Words
  RootOf <- OneRoot
  Nobody = Nobody
  MaxReaders = 7
  MaxOwn = 2
  Modulus = 6
  MaxLag = 3
  Sudogs = {w1, w2, w3, w4}
  Elems = {1, 2, 3}
  Tickets = {1, 3, 5}
  NoSudog = NoSudog
  Primitives = {"RWMutex", "WaitGroup", "Once", "Cond", "semaRoot"}
SPECIFICATION Spec
INVARIANTS
  WriterAlone
  ReadersAccounted
  WaitersOwed
  OnceBeforeAll
  TicketsHeld
PROPERTIES
  WaitsForZero
  SignalExcused
  ImplementsCond
  ImplementsWaitQueues
  BlockedCallsReturn
CHECK_DEADLOCK FALSE
