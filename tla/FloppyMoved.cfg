CONSTANTS
  p = p
  q = q
  zip = zip
  Images <- TwoImages
  None = None
  Recognized <- TwoImages
  Savable <- TwoImages
  ReadOnly <- Nobody
  PartnerB <- NoPartner
  Sectors <- OneSector
  Boot = 0
  Values <- Bits
  BadBoots <- Nobody
  DELAY = 3
  POLL = 2
  UserDelay = 0
  Frontends <- Dialog
  MaxVBL = 0
SPECIFICATION Spec
INVARIANT NothingLost
