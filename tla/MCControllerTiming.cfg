SPECIFICATION ObservedSpec
CONSTANTS
  NUM_RANKS = 1
  NUM_BANKS = 2
  Rows = {r1, r2}
  NoRow = NoRow
  Nodes = {n1}
  T_RCD = 2
  T_RP = 2
  T_CAS = 2
  T_RAS = 3
  T_RC = 5
  T_CWD = 1
  T_WR = 1
  T_WTR = 1
  T_RTRS = 1
  T_DATA_TRANS = 2
  T_RTP = 1
  T_CCD = 3
  T_XP = 1
  T_XP_DLL = 2
  T_PD_MIN = 1
  T_RRD = 2
  T_REFI = 7
  T_RFC = 2
  REFRESH_QUOTA = 2
  LongAgo <- Past
VIEW View

SYMMETRY Symmetry
INVARIANTS
  TypeOK
  PowerStateIsRankWide
  OpenRowMatchesState
  ForcedRefreshHoldsRank
  FlagsAreCurrent
  GapsReachLastActivate
PROPERTIES
  RefreshQuotaMet
  ForcedRefreshFindsRankQuiet
  IssuesLegalCommands
  TimesAreTrue
