SPECIFICATION CacheSpec
CONSTANTS
  assoc = 3
  Tags = {t1, t2, t3, t4}
  NoTag = NoTag
INVARIANT VictimIsLru
