SPECIFICATION Spec
CONSTANTS
  Chars <- MCChars
  Capitals <- MCCapitals
  Utf8Len <- MCUtf8Len
  MaxDirectBytes = 5
  MaxTyped = 4
INVARIANTS
  TypeOK PendingIsStable TypedAsBatch
PROPERTIES
  VowelsAlwaysLand
