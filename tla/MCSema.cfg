CONSTANTS
  Goroutines = {g1, g2, g3}
  a1 = a1
  a2 = a2
  r1 = r1
  Addrs = {a1, a2}
  RootOf <- OneRoot
  Nobody = Nobody
  MaxReleases <- TwoAndOne
SPECIFICATION Spec
INVARIANTS
  NoMissedWakeup
  NwaitExact
  ParkedOnce
PROPERTIES
  ImplementsSemaphore
  PermitReachesSleeper
CHECK_DEADLOCK FALSE
