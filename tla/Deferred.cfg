SPECIFICATION Spec
CONSTANTS
  t1 = t1
  t2 = t2
  t3 = t3
  u1 = u1
  m1 = m1
  m2 = m2
  To = {t1, t2, t3, u1}
  Caller = {m1, m2}
  NIL = NIL
  WHEELSIZE = 4
  Sub = 2
  Flags <- MCFlags
  Kclock <- MCKclock
  Workloads <- MCWorkloads
  Reader = {"r1"}
  Updater = {"u1"}
  softclock_gc = "gc"
  Srp = {"s1", "s2"}
  Val = {"a", "b"}
  NoVal = NoVal
  HAZARD_NUM = 2
  Updates = {"update", "finalize"}
  ConsumerDrains = TRUE
  SmrCPU = {"c1", "c2"}
  SmrReader = {"c1"}
  SmrWriter = {"c2"}
  Obj = {"a", "b"}
  NoObj = NoObj
  Expedite = {TRUE, FALSE}
  Periods = 4
INVARIANTS Linked NotLate RunHasEnded NoneForgotten
  UsedIsLive RetiredOnce HeldIsLive NoEntryLingers
