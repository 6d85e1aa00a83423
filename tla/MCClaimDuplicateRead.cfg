SPECIFICATION ChannelSpec
CONSTANTS
  NUM_CHANNELS = 3
  NUM_RANKS = 1
  NUM_BANKS = 2
  NUM_ROWS = 2
  NUM_COLUMNS = 2
  CACHE_LINE_SIZE = 2
  ADDRESS_BITS = 5
  PHYSICAL_BITS = 5
  ADDRESS_MAPPING = 0
  DEDICATED_CH = TRUE
  DEDICATED_CH_NUM = 1
  MAX_PENDING = 2
INVARIANT ReadsAreNotDuplicated
