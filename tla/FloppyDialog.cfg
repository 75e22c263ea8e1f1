CONSTANTS
  p = p
  q = q
  zip = zip
  Images <- AllThree
  None = None
  Recognized <- AllThree
  Savable <- TwoImages
  ReadOnly <- OnlyZip
  PartnerB <- QAfterP
  Sectors <- OneSector
  Boot = 0
  Values <- OneValue
  BadBoots <- Nobody
  DELAY = 3
  POLL = 2
  UserDelay = 3
  Frontends <- DialogOrShortcut
  MaxVBL = 7
SPECIFICATION Spec
INVARIANTS
  NamesMatch
  TransitionEnds
PROPERTY ChangeSeen
