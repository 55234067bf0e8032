CONSTANTS
  RX_RING_SIZE = 5
  CMD_LINE_MAX = 2
  WORD <- Word
  LETTERS = {"S", "C"}
  BLANK = "blank"
  CR = "CR"
  LF = "LF"
  NUL = "NUL"
  FEED = {"S", "blank", "NUL", "LF"}
  RECOVERED_MAX = 2
  CHUNKS = {1, 3}
  MAX_OWED = 3
SPECIFICATION Spec
INVARIANTS
  SafeOnceOnly
  NothingPieced
