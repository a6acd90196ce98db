SPECIFICATION Spec
CONSTANTS
  wk1 = wk1
  wk2 = wk2
  c1 = c1
  c2 = c2
  x1 = x1
  x2 = x2
  NULL = NULL
  Creator = Creator
  Worker = {wk1, wk2}
  Client = {c1, c2}
  Task = {x1, x2}
  tq_nthreads = 2
  Adders <- MCAdders
  InTask = {x2}
  MayFail = TRUE
  DestroyWhen <- Orderly
  MaxGen = 2
SYMMETRY Symmetry
CHECK_DEADLOCK FALSE
INVARIANTS BarrierWaits DelBarrierStops OnQueueOnce DestroyDrains
