CONSTANTS
  RELAYS = {r1, r2}
  GROUPS <- Pair
  LINES = {c1}
  BUSES = {busA}
  CALS = {cal1, cal2}
  NONE = NONE
SPECIFICATION FairSpec
INVARIANTS
  OutputsInv
  SafeMeansOff
  EraseMeansOff
  VoltageIsMeant
  NoConflict
PROPERTIES
  SafeEndsOff
  FaultTrips
