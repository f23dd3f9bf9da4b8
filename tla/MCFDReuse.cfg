CONSTANTS
  g1 = g1
  g2 = g2
  g3 = g3
  f1 = f1
  f2 = f2
  Goroutines = {g1, g2, g3}
  Files = {f1, f2}
  PollDescs = {p1}
  TimerProcs = {t1}
  Pollers = {n1}
  Nobody = Nobody
  Addrs <- FileWords
  CountLimit = 8
  Programs <- Reused
SPECIFICATION Spec
PROPERTIES
  StaleNotificationsDetected
CHECK_DEADLOCK FALSE
