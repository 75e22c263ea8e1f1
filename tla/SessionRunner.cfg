CONSTANTS
  first = first
  second = second
  Runners <- MC_Runners
  Concurrent = FALSE
  SIGTERM = 15
  SIGINT = 2
  Codes <- MC_Codes
  Deaths <- MC_Deaths
  MaxSignals = 2
SPECIFICATION FairSpec
INVARIANTS
  NoOrphan
  CompletedHonest
  Able
PROPERTIES
  EvidenceKept
  AskedEnds
CHECK_DEADLOCK FALSE
