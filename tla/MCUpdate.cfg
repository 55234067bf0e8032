CONSTANTS
  IMAGES = {good, hanging, foreign}
  HANGING = {hanging}
  FOREIGN = {foreign}
  SIZE = 2
  ERASED = ERASED
  JUNK = JUNK
  MAX_FAULTS = 2
SPECIFICATION FairSpec
INVARIANTS
  BootBankComplete
  FallbackIntact
PROPERTIES
  ImplementsProtocol
  TrialEnds
