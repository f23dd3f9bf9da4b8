CONSTANTS
  Goroutines = {g1, g2, g3}
  Nobody = Nobody
  Chans <- TwoChans
  Cap <- TheCap
  Programs <- Crossed
  MaxCalls = 2
SPECIFICATION ProgramSpec
PROPERTIES
  CallsSettle
CHECK_DEADLOCK FALSE
