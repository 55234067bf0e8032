CONSTANTS
  CFG_RECORDS = 3
  CFG_TYPES = 2
  VALUES = {v1}
  NONE = NONE
  BLANK = BLANK
  TORN = TORN
  GEN_MAX = 4
  MAX_DISTURBANCES = 3
SPECIFICATION FairSpec
INVARIANTS
  JournalInv
  NoStaleReplay
  ReadableWhilePending
  TailIsBlank
PROPERTIES
  EpochNeverRegresses
  RecoveryCompletes
