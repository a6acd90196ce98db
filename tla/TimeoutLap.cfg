SPECIFICATION TmoSpec
CONSTANTS
  t1 = t1
  t2 = t2
  t3 = t3
  u1 = u1
  m1 = m1
  m2 = m2
  To = {t1, t2, t3, u1}
  Caller = {m1, m2}
  NIL = NIL
  WHEELSIZE = 4
  Sub = 2
  Flags <- MCFlags
  Kclock <- MCKclock
  Workloads <- MCLap
INVARIANT NotLate
CHECK_DEADLOCK FALSE
