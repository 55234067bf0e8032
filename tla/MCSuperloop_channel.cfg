CONSTANTS
  RING_SIZE = 3
  LINE_QUEUE = 2
  CMD_LINE_MAX = 1
  LETTERS = {"S", "C"}
  NUL = "NUL"
  NL = "NL"
  SAFE_TEXT <- Word
  FEED <- FeedTcp
  RECOVERED_MAX = 4
  MAX_PENDING <- PendingTcp
SPECIFICATION Spec
PROPERTIES
  ImplementsChannel
