CONSTANTS
  LINES = {c1}
  DUT_POLL_MS = 1
  DUT_DEBOUNCE_MS = 2
  DHCP_TIMEOUT_MS = 1
  BUTTON_RESET_HOLD_MS = 1
  LOG_DEPTH = 3
  ERR_STACK_DEPTH = 2
  MAX_CHANGES = 4
SPECIFICATION Spec
INVARIANTS
  QuietMeansUnchanged
  ReportsInOrder
  AddressHolds
  OneTryPerPress
