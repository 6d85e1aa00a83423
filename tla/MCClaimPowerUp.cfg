SPECIFICATION Spec
CONSTANTS
  NUM_RANKS = 2
  NUM_BANKS = 1
  Rows = {r1, r2}
  NoRow = NoRow
  Nodes = {n1}
  T_RCD = 1
  T_RP = 2
  T_CAS = 2
  T_RAS = 2
  T_RC = 4
  T_CWD = 1
  T_WR = 1
  T_WTR = 1
  T_RTRS = 1
  T_DATA_TRANS = 1
  T_RTP = 1
  T_CCD = 1
  T_XP = 1
  T_XP_DLL = 2
  T_PD_MIN = 1
  T_RRD = 1
  T_REFI = 5
  T_RFC = 2
  REFRESH_QUOTA = 2
VIEW View
SYMMETRY Symmetry
PROPERTY PowerUpMeetsRefreshDeadline
