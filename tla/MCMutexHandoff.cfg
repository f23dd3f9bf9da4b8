CONSTANTS
  Goroutines = {g1, g2, g3}
  MutexSema = s
  r1 = r1
  Addrs <- OneAddr
  RootOf <- OneRoot
  Nobody = Nobody
  ActiveSpin = 1
SPECIFICATION Spec
PROPERTIES
  HandoffToFront
