CONSTANTS
  CFG_RECORDS = 3
  CFG_TYPES = 2
  VALUES = {v1, v2}
  NONE = NONE
  BLANK = BLANK
  TORN = TORN
  GEN_MAX = 3
  MAX_DISTURBANCES = 2
SPECIFICATION Spec
SYMMETRY ValueSymmetry
PROPERTY ImplementsStore
