SPECIFICATION FairSpec
CONSTANTS
  WINDOW_SIZE = 2
  CREDIT_INTERVAL = 1
  RETRIES = 1
  FLUSH_THRESHOLD = 2
  MODES = {"logger"}
  MAX_CMDS = 0
  CHANNEL_CAP = 2
  STALE = {0}
  MAX_PKTS = 3
  LOSE = {"CREDIT"}
  REORDER = FALSE
  MAX_FAULTS = 2
PROPERTIES AllDelivered
CHECK_DEADLOCK FALSE
