SPECIFICATION FairSpec
CONSTANTS
  HALF_SEQ = 4
  NUM_BLOCKS = 2
  RATIO = 1
  PKT_WORDS = 1
  ZERO_LEN_WORDS = 3
  WINDOW = 2
  MAX_PKTS = 1
  NACKS = FALSE
  WR_ERRORS = FALSE
  MAX_WR_QUEUE = 0
  TRACK_PAYLOAD = FALSE
  REQUESTS = {"START"}
  QUIET_START = FALSE
PROPERTIES ResponseSent
