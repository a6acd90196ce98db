SPECIFICATION MCSpec
CONSTANTS
  w1 = w1
  w2 = w2
  k1 = k1
  NULL = NULL
  Value = {0, 1}
  Thread <- MCThread
  Chan <- MCThread
  Addr <- MCAddr
  BadAddr <- MCBadAddr
  Slpque <- MCSlpque
  Calls <- MCCalls
  Signals <- MCSignals
INVARIANTS FutexesListed NoLostWake WakeOutranksError NoLockCycle
PROPERTY WaitEnds
