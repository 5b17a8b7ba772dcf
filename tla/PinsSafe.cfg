SPECIFICATION PinsSpec
CONSTANTS
  Nicks = {bob, eve}
  Keys = {k1, k2}
  NoKey = NoKey
  NoNick = NoNick
  MaxEntries = 5  MaxFailures = 1  MaxRestarts = 1
SYMMETRY Symmetric
CHECK_DEADLOCK FALSE
INVARIANTS UntrustedIsBlocked MismatchIsReal
