SPECIFICATION LostSpec
CONSTANTS
  p1 = p1
  p2 = p2
  p3 = p3
  NULL = NULL
  Thread <- MCThread
  Chan <- MCChan
  EnterFlags <- Interruptible
  Signals = {"INTR"}
SYMMETRY Symmetry
INVARIANT NotStranded
