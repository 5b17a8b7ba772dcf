SPECIFICATION Spec
CONSTANTS
  p1 = p1  p2 = p2  Phrases = {p1, p2}  NoPhrase = NoPhrase
  Careful = TRUE  WritesFail = FALSE
  MaxKeys = 4
CHECK_DEADLOCK FALSE
INVARIANTS TypeOK OneIdentity WrappedAtRest
