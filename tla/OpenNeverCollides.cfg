SPECIFICATION Spec
CONSTANTS
  Engine = e
  Clis = {c1, c2}
  Words = {w1, w2, w3}
  VocabMaxRows = 1
  Picks = {x, y, z}
  CacheMaxRows = 1
  EvictLimits = {0}
  MaxClock = 1
  MaxCalls = 4
PROPERTIES
  OpenNeverCollides
