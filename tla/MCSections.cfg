CONSTANTS
  VALUES = {low, high}
  DEFAULT = low
  UNKNOWN = unknown
  I2C_RETRIES = 2
SPECIFICATION FairSpec
INVARIANTS
  SectionTruth
  MatrixShows
PROPERTIES
  CommandEnds
