CONSTANTS
  RING_SIZE = 2
  LINE_QUEUE = 1
  CMD_LINE_MAX = 1
  LETTERS = {"S", "C"}
  NUL = "NUL"
  NL = "NL"
  SAFE_TEXT <- Word
  FEED <- FeedCommands
  RECOVERED_MAX = 2
  MAX_PENDING <- PendingOne
SPECIFICATION FairSpec
PROPERTIES
  LossMakesSafe
  ConsoleServed
