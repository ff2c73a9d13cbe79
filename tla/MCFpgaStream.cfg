SPECIFICATION Spec
CONSTANTS
  HALF_SEQ = 4
  NUM_BLOCKS = 2
  RATIO = 2
  PKT_WORDS = 1
  ZERO_LEN_WORDS = 3
  WINDOW = 2
  MAX_PKTS = 9
  NACKS = TRUE
  WR_ERRORS = TRUE
  MAX_WR_QUEUE = 1
  TRACK_PAYLOAD = FALSE
  REQUESTS = {"START"}
  QUIET_START = TRUE
INVARIANTS CreditSafe StreamInv
PROPERTIES ImplementsStream
