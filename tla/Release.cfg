SPECIFICATION MCSpec
CONSTANTS
  Commands <- AllCommands
  MaxSrc = 2
  Contents = {"c1", "c2"}
  Absent = Absent
  Empty = Empty
  Torn = Torn
  Intents <- AnyIntent
  Sidecars <- AnySidecars
INVARIANTS ReleaseIsCoherent OnlyPinnedTree CiGate
