SPECIFICATION MCSpec
CONSTANTS
  p1 = p1
  p2 = p2
  p3 = p3
  NULL = NULL
  Thread <- MCThread
  Chan <- MCChan
  EnterFlags <- AnyFlags
  Signals = {"INTR"}
INVARIANTS MutualExclusion OwnerWord WaitCounters NotStranded
PROPERTIES ImplementsRwLockSpec CallsReturn
