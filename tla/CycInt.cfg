CONSTANTS
  null = null
  vbl = vbl
  blitter = blitter
  timerA = timerA
  nil = nil
  Ids <- MC_Ids
  INTERRUPT_NULL = null
  VBL = vbl
  Blitter = blitter
  Timers <- MC_Timers
  Nil = nil
  NullCycles = 50
  CycleExact = TRUE
  Delays = {2}
  Periods = {1, 2}
  Shifts <- MC_Shifts
  MaxInstr = 2
  MaxPass = 1
  MaxClock = 5
SPECIFICATION FairSpec
INVARIANTS
  TypeOK
  ListOK
  ScanFindsPlace
  NothingOverdue
PROPERTIES
  NoDrift
  ImplementsQueue
  LoopTerminates
