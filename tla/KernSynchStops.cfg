SPECIFICATION Spec
CONSTANTS
  p1 = p1
  Thread <- MCThread
  Chan <- MCThread
  NULL = NULL
  Modes <- AllModes
  MaxSignal <- TwoStops
  MaxWakers = 2
INVARIANT SelfStopAssertion
CHECK_DEADLOCK FALSE
