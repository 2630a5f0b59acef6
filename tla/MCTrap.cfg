SPECIFICATION TrapSpec
CONSTANTS
  p1 = p1
  p2 = p2
  Procs = {p1, p2}
  INPUT_BUF = 2
  IdxMod = 4
  Chars = {"x", "cr", "D", "U", "H", "P"}
  Keys <- SomeKeys
  ROWS = 2
  COLS = 2
  ReadSizes = {2}
  May <- SomeCalls
  None = None
  TickMod = 4
  Sleeps <- SomeSleeps
  Devices <- EachDevice
CHECK_DEADLOCK FALSE
INVARIANTS
  ReaderSleepsForAReason
PROPERTIES
  SleepsEnough
  IsLineDiscipline
