CONSTANTS
  Goroutines = {g1, g2, g3}
  Nobody = Nobody
  Chans <- TheChans
  Cap <- TheCap
  Programs <- ThePrograms
SPECIFICATION Spec
INVARIANTS
  SleepersBlocked
  SudogsOwned
  QueueShape
  WokenForAReason
  DefaultJustified
PROPERTIES
  ImplementsChanSpec
SYMMETRY Symmetry
CHECK_DEADLOCK FALSE
