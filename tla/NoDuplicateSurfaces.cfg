SPECIFICATION Spec
CONSTANTS
  ka = ka
  s1 = s1
  s2 = s2
  bad = bad
  Kana <- MCKana
  Surfaces <- MCSurfaces
  UnsafeSurfaces <- MCUnsafe
  Strokes <- MCStrokes
  CharCount <- MCCharCount
  Pushes <- MCPushes
  MaxRequests = 3
  MaxPreedit = 2
  MaxChars = 2
  MaxPushes = 2
  PanicLimit = 2
INVARIANT NoDuplicateSurfaces
