CONSTANTS
  RING_SIZE = 3
  LINE_QUEUE = 1
  CMD_LINE_MAX = 1
  LETTERS = {"S", "C"}
  NUL = "NUL"
  NL = "NL"
  SAFE_TEXT <- Word
  FEED <- FeedBoth
  RECOVERED_MAX = 3
  MAX_PENDING <- PendingBoth
SPECIFICATION Spec
INVARIANTS
  SafeAborts
  SafeBeforeClient
  FramesKeptApart
