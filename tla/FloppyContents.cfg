CONSTANTS
  p = p
  q = q
  zip = zip
  Images <- TwoImages
  None = None
  Recognized <- TwoImages
  Savable <- TwoImages
  ReadOnly <- Nobody
  PartnerB <- NoPartner
  Sectors <- OneSector
  Boot = 0
  Values <- ThreeValues
  BadBoots <- Two
  DELAY = 3
  POLL = 2
  UserDelay = 0
  Frontends <- ShortcutOrRetro
  MaxVBL = 0
SPECIFICATION Spec
INVARIANTS
  TypeOK
  NothingLost
