CONSTANTS
  Main = Main
  TT = TT
  IsTT = FALSE
  CycleExact = TRUE
  AccurateIPL = TRUE
  Channels <- TwoChannels
  Enables <- AllOrNone
  Masks <- AnyKeep
  Keeps <- AnyKeep
  Repeats <- OneChannel
  Never = 99
  IRQ_DELAY_TO_CPU = 1
  IACK_START = 1
  WRITE_CYCLES = 1
  EClock <- JustBefore
  MaxInstr = 2
  MaxClock = 5
SPECIFICATION Spec
INVARIANTS
  IRQJustified
  UpdateNotForgotten
  LineNotForgotten
  NoLostRequest
  DelayNotNegative
  PinFollows
PROPERTIES
  AcknowledgesAllowed
