SPECIFICATION FairSpec
CONSTANTS
  k1 = k1  k2 = k2  n1 = n1  n2 = n2  i1 = i1  i2 = i2
  Conns = {c1}
  Keys = {k1, k2}
  Nicks = {n1, n2}
  Ids = {i1, i2}
  Hellos <- TwoPeople
  AutoModes = {FALSE}
  Tui = Tui  Fs = Fs
  TuiCommands = {"approve", "block"}
  NoNick = NoNick  NoConn = NoConn
  MaxBoots = 2  MaxConnects = 2  MaxOps = 2
CHECK_DEADLOCK FALSE
INVARIANT StoredTokenIsCurrent
PROPERTIES BlockedLeaves ClosedLeaves
