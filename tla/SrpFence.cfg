SPECIFICATION SrpSpec
CONSTANTS
  Reader = {"r1"}
  Updater = {"u1"}
  softclock_gc = "gc"
  Srp = {"s1", "s2"}
  Val = {"a", "b"}
  NoVal = NoVal
  HAZARD_NUM = 2
  Updates = {"update"}
  ConsumerDrains = FALSE
INVARIANT UsedIsLive
