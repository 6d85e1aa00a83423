SPECIFICATION BuildSpec
CONSTANTS
  NUM_RANKS = 1
  NUM_BANKS = 1
  Rows = {r1, r2}
  NoRow = NoRow
  Nodes = {n1, n2, n3}
  T_RCD = 1
  T_RP = 1
  T_CAS = 2
  T_RAS = 2
  T_RC = 3
  T_CWD = 1
  T_WR = 1
  T_WTR = 1
  T_RTRS = 1
  T_DATA_TRANS = 1
  T_RTP = 1
  T_CCD = 1
  T_XP = 1
  T_XP_DLL = 2
  T_PD_MIN = 1
  T_RRD = 1
  T_REFI = 7
  T_RFC = 1
  REFRESH_QUOTA = 1
  HI_WM = 1
  LO_WM = 0
VIEW View
INVARIANTS
  CallsAreAccepted
  OrderListsQueues
  CandidateIsOpenOrRefreshed
PROPERTIES
  ReadsAreServed
  WritesAreServed
  RowHitsInOrder
