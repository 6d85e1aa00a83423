SPECIFICATION MainLoopSpec
CONSTANTS
  NUMCORES = 1
  ROBSIZE = 2
  MAX_RETIRE = 2
  MAX_FETCH = 2
  WQ_CAPACITY = 3
  HI_WM = 1
  LO_WM = 0
  Addrs = {a1, a2}
  TRACE_LENGTH = 3
  ALL_LINES = 3
  NoLine = NoLine
  NoRead = NoRead
  NoWrite = NoWrite
PROPERTY FetchStopsAtCapacity
