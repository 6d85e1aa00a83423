SPECIFICATION TlbSpec
CONSTANTS
  NUM_THREADS = 2
  VPN_BITS = 1
  KEY_BITS = 2
  num_pages = 3
  OS_NUM_RND_TRIES = 1
  NoFrame = NoFrame
  NoEntry = NoEntry
  NoPage = NoPage
  TLB_SIZE = 3
  DEDICATED_CH = TRUE
INVARIANTS
  TablesAreInverse
  TlbIsLruStack
  CopiesAreCurrent
PROPERTIES
  SearchEnds
  ImplementsFrameMap
  ReplacesLeastRecent
