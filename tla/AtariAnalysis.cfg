CONSTANTS
  Sectors <- MC_Sectors
  Boot = 1
  Accesses <- MC_Accesses
  Modulus = 16
  Settings <- MC_Settings
  MaxOps = 3
SPECIFICATION Spec
INVARIANTS
  MediaEvidence
  MemoryEvidence
  ProbeOnce
  ProbeExplained
