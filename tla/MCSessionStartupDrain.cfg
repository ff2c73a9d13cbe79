SPECIFICATION Spec
CONSTANTS
  WINDOW_SIZE = 3
  CREDIT_INTERVAL = 1
  RETRIES = 1
  FLUSH_THRESHOLD = 2
  MODES = {"logger"}
  MAX_CMDS = 0
  CHANNEL_CAP = 2
  STALE = {2}
  MAX_PKTS = 3
  LOSE = {}
  REORDER = FALSE
  MAX_FAULTS = 0
INVARIANTS ReceiverOutlivesDrain
CHECK_DEADLOCK FALSE
