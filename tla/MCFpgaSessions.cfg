SPECIFICATION Spec
CONSTANTS
  HALF_SEQ = 4
  NUM_BLOCKS = 3
  RATIO = 1
  PKT_WORDS = 2
  ZERO_LEN_WORDS = 3
  WINDOW = 2
  MAX_PKTS = 9
  NACKS = FALSE
  WR_ERRORS = FALSE
  MAX_WR_QUEUE = 1
  TRACK_PAYLOAD = TRUE
  REQUESTS = {"START", "STOP", "READ", "STATUS"}
  QUIET_START = TRUE
INVARIANTS TypeOK PayloadMatchesSeq LengthMatchesHeader WriteExcludesRead TxAndSchedulerInStep OneResponsePerRequest
