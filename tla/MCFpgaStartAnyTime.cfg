SPECIFICATION Spec
CONSTANTS
  HALF_SEQ = 4
  NUM_BLOCKS = 2
  RATIO = 1
  PKT_WORDS = 1
  ZERO_LEN_WORDS = 3
  WINDOW = 1
  MAX_PKTS = 2
  NACKS = FALSE
  WR_ERRORS = FALSE
  MAX_WR_QUEUE = 1
  TRACK_PAYLOAD = FALSE
  REQUESTS = {"START", "STOP"}
  QUIET_START = FALSE
INVARIANTS CreditSafe OneResponsePerRequest
