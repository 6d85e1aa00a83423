SPECIFICATION Spec
CONSTANTS
  T_REFI = 5
  T_RFC = 1
  T_RP = 1
  REFRESH_QUOTA = 2
  HALF_RANGE = 32
  LAST_CYCLE = 50
PROPERTY DeadlineIsReached
CHECK_DEADLOCK FALSE
