\* The packet generators, the socket bridge, the coverage report and the C receiver.
SPECIFICATION Spec
CONSTANTS
  BYTE = 256
  CREDITS <- MCCredits
  ICMP_SIZES = {32, 33}
  MAX_PACKETS = 2
  MAX_RUNS = 2
  CLIENTS = {c1, c2}
  BACKLOG = 0
  SOCK_PACKETS = 1
  SOCK_CAP = 1
  CONNECT_TRIES = 2
  MAX_CALLS = 2
  MAX_LIVES = 2
  FIDS = {1, 2}
  SOURCES = {"core", "tb", "lib"}
  KEY = {"core"}
  TB = {"tb"}
  SHAPES <- MCShapes
  DATA <- MCData
  SIG_ENTRIES = 2
  RECV_WINDOW = 2
  SLOTS = 2
  CMD_RETRIES = 2
  RECV_SEQS = {0, 1, 2, 3, 4}
  CONTINUOUS = TRUE
  MAX_RECOVERIES = 1
INVARIANTS ChecksumVerifies FedFramesWellFormed FeedsOneRun SocketConserves EveryEntryCounted SummaryAgrees RangesExact PassedIsSavedOnce ReorderBufferExact CreditInStep
PROPERTY SocketDelivers
CHECK_DEADLOCK FALSE
