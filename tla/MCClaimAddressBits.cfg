SPECIFICATION ChannelSpec
CONSTANTS
  NUM_CHANNELS = 1
  NUM_RANKS = 1
  NUM_BANKS = 2
  NUM_ROWS = 2
  NUM_COLUMNS = 2
  CACHE_LINE_SIZE = 2
  ADDRESS_BITS = 4
  PHYSICAL_BITS = 5
  ADDRESS_MAPPING = 1
  DEDICATED_CH = FALSE
  DEDICATED_CH_NUM = 0
  MAX_PENDING = 2
INVARIANT LinesHavePlacesOfTheirOwn
