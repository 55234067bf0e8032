CONSTANTS
  SCRIPT <- Script
  NONE = NONE
  JOBS = {"script", "update"}
  MAX_SAFES = 2
  MAX_TASKS = 2
  MAX_ANSWERS = 1
  MAX_SESSIONS = 3
SPECIFICATION FairSpec
INVARIANTS
  InStep
  NoOldIntention
  AckIsTrue
  VerdictIsTrue
PROPERTIES
  SafeIsSent
  StopEnds
CHECK_DEADLOCK FALSE
