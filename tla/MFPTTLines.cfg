CONSTANTS
  Main = Main
  TT = TT
  IsTT = TRUE
  CycleExact = FALSE
  AccurateIPL = FALSE
  Channels <- OneChannel
  Enables <- Always
  Masks <- AllOrNone
  Keeps <- NoKeep
  Repeats <- OneChannel
  Never = 99
  IRQ_DELAY_TO_CPU = 1
  IACK_START = 1
  WRITE_CYCLES = 1
  EClock <- JustBefore
  MaxInstr = 2
  MaxClock = 4
SPECIFICATION Spec
INVARIANT LineNotForgotten
