SPECIFICATION Spec
CONSTANTS
  MaxSigs = 2
  Lens = {0, 31, 32}
CHECK_DEADLOCK FALSE
INVARIANT AcceptsConforming
