CONSTANTS
  null = null
  vbl = vbl
  blitter = blitter
  autosend = autosend
  nil = nil
  Ids <- MC_Ids
  INTERRUPT_NULL = null
  VBL = vbl
  Blitter = blitter
  INTERRUPT_IKBD_AUTOSEND = autosend
  Timers = {}
  Nil = nil
  NullCycles = 50
  CycleExact = TRUE
  Delays = {1, 2}
  Periods = {}
  Shifts = {}
  MaxInstr = 2
  MaxPass = 1
  MaxClock = 5
SPECIFICATION SpecWithUser
PROPERTY AcknowledgesItself
