SPECIFICATION PathSpec
CONSTANTS
  NUM_CHANNELS = 3
  NUM_RANKS = 1
  NUM_BANKS = 2
  NUM_ROWS = 2
  NUM_COLUMNS = 2
  CACHE_LINE_SIZE = 2
  ADDRESS_BITS = 5
  PHYSICAL_BITS = 6
  ADDRESS_MAPPING = 1
  DEDICATED_CH = FALSE
  DEDICATED_CH_NUM = 0
  MAX_PENDING = 2
  numcores = 1
  MAX_TABLE_LEN = 4
INVARIANTS
  PlacesAreLines
  RandomizedAddressesStayApart
