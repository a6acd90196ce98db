SPECIFICATION FairSpec
CONSTANTS
  wk1 = wk1
  wk2 = wk2
  c1 = c1
  c2 = c2
  x1 = x1
  x2 = x2
  NULL = NULL
  Creator = Creator
  Worker = {wk1, wk2}
  Client = {c1, c2}
  Task = {x1}
  tq_nthreads = 2
  Adders <- OneAdder
  InTask = {x1}
  MayFail = FALSE
  DestroyWhen <- Orderly
  MaxGen = 1
CHECK_DEADLOCK FALSE
PROPERTIES QueuedIsTaken BarrierReturns DestroyReturns
