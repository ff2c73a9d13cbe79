SPECIFICATION Spec
CONSTANTS
  WINDOW_SIZE = 1
  CREDIT_INTERVAL = 1
  RETRIES = 2
  FLUSH_THRESHOLD = 2
  MODES = {"logger"}
  MAX_CMDS = 0
  CHANNEL_CAP = 2
  STALE = {0}
  MAX_PKTS = 2
  LOSE = {"ACK", "CMD", "CREDIT"}
  REORDER = TRUE
  MAX_FAULTS = 1
INVARIANTS TypeOK CompleteDelivery AckedCommandHolds
PROPERTIES PeerKeepsPromise
CHECK_DEADLOCK FALSE
