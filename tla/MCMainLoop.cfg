SPECIFICATION MainLoopSpec
CONSTANTS
  NUMCORES = 2
  ROBSIZE = 2
  MAX_RETIRE = 2
  MAX_FETCH = 2
  WQ_CAPACITY = 2
  HI_WM = 1
  LO_WM = 0
  Addrs = {a1}
  TRACE_LENGTH = 3
  ALL_LINES = 4
  NoLine = NoLine
  NoRead = NoRead
  NoWrite = NoWrite
INVARIANTS
  RobIsRing
  ReadsAreAwaited
  NothingLeftAtEnd
PROPERTIES
  FellowFollowsTranslation
  SimulationEnds
