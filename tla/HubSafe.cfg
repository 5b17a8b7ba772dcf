SPECIFICATION Spec
CONSTANTS
  k1 = k1  k2 = k2  n1 = n1  n2 = n2  i1 = i1  i2 = i2
  Conns = {c1, c2}
  Keys = {k1, k2}
  Nicks = {n1, n2}
  Ids = {i1, i2}
  Hellos <- TwoPeople
  AutoModes = {TRUE, FALSE}
  Tui = Tui  Fs = Fs
  TuiCommands = {"approve", "block", "kick", "op"}
  NoNick = NoNick  NoConn = NoConn
  MaxBoots = 1  MaxConnects = 2  MaxOps = 1
SYMMETRY Symmetric
CHECK_DEADLOCK FALSE
INVARIANTS TypeOK EpochCoversMembership RegisteredHasHandler EveryChangeIsSaved
