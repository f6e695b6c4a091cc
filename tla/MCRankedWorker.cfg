SPECIFICATION Spec
CONSTANTS
  ka = ka
  s1 = s1
  s2 = s2
  s3 = s3
  Kana <- MCKana
  Surfaces <- MCSurfaces
  UnsafeSurfaces = {}
  Readings <- MCReadings
  Order <- MCOrder
  Answers <- MCAnswers
  Pushes <- MCPushes
  HitSets <- MCHitSets
  TopK = 2
  MaxRequests = 2
  MaxPushes = 2
  PanicLimit = 2
INVARIANTS
  TypeOK WindowHoldsOwn AtMostOneLatePush RankingsAreRankings NothingVanishes
PROPERTIES
  KeepsThePort
CHECK_DEADLOCK FALSE
