CONSTANTS
  d1 = d1
  Moves = 3
  Nothing = Nothing
  Drives <- OneDrive
  Commands <- AllOps
  BYTE = 3
  FDC_PHYSICAL_MAX_TRACK = 1
  TracksPerDisk = 1
  SidesPerDisk = 1
  SectorsPerTrack = 2
  FDC_DELAY_IP_SPIN_UP = 1
  FDC_DELAY_IP_MOTOR_OFF = 1
  FDC_DELAY_IP_ADDRESS_ID = 1
  ID_SIZE = 1
  SECTOR_SIZE = 4
  TRACK_SIZE = 5
  FDC_DMA_SECTOR_SIZE = 4
  FDC_DMA_FIFO_SIZE = 2
  MaxCount = 1
SPECIFICATION MCSpec
INVARIANTS
  FdcTypeOK
  Able
  WithinGrant
  SectorMeant
PROPERTIES
  ImplementsPort
  LoopEnds
  CommandsEnd
CHECK_DEADLOCK FALSE
