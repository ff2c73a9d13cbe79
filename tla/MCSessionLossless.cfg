SPECIFICATION FairSpec
CONSTANTS
  WINDOW_SIZE = 1
  CREDIT_INTERVAL = 2
  RETRIES = 1
  FLUSH_THRESHOLD = 2
  MODES = {"logger", "interactive"}
  MAX_CMDS = 2
  CHANNEL_CAP = 2
  STALE = {0}
  MAX_PKTS = 2
  LOSE = {}
  REORDER = FALSE
  MAX_FAULTS = 0
INVARIANTS ReadSeesCommands
PROPERTIES AllDelivered
CHECK_DEADLOCK FALSE
