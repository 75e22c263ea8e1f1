CONSTANTS
  b1 = b1
  b2 = b2
  b3 = b3
  f1 = f1
  f2 = f2
  a1 = a1
  a2 = a2
  None = None
  Nil = Nil
  Basepages <- OneBase
  Files <- TwoFiles
  OpenModes <- BothModes
  BASE_FILEHANDLE = 64
  MAX_FILE_HANDLES = 2
  MAX_STD = 1
  MAX_PARENTS = 2
  MaxDepth = 1
  DTAs <- TwoDTAs
  DTA_CACHE_MIN_INC = 1
  DTA_CACHE_MAX_INC = 1
  DTA_CACHE_MAX_SIZE = 3
  MaxEntries = 2
SPECIFICATION Spec
PROPERTY RestoreKeeps
CONSTRAINT OneKind
