SPECIFICATION SynchSpec
CONSTANTS
  p1 = p1
  p2 = p2
  p3 = p3
  NULL = NULL
  NIL = NIL
  Thread <- MCThread
  Chan <- MCThread
  Modes <- AllModes
  MaxSignal <- OneOfEach
  MaxWakers = 2
  CPU = {p1, p2, p3}
  Mtx = {1, 2}
  Users <- MCUsers
  Lot = {1}
  Park <- MCPark
  mtx_wantipl <- MCIpl
  MaxSpins = 1
  Processor = {p1, p2, p3}
  Tickets = 4
  MaxDepth = 2
  Producer = {"p1", "p2"}
  Consumer = {"r1"}
  Lap = 4
  Interlock = {TRUE, FALSE}
INVARIANTS NoPanic QueueMatchesWchan NoLostWakeup SignalEndsSleep TimeoutHandshake
  MtxExclusion IplRestored TicketsServed Snapshot
PROPERTIES SignalledReturns FreeIsTaken
