SPECIFICATION FairSpec
CONSTANTS
  f = f  g = g
  Names = {f, g}  Folders = {}  TooLarge = {}  Failing = {f}
  Modes = {"fsnotify", "poll"}
  CoarseClock = FALSE  OldTimes = FALSE
  Fetched = {g}
  MaxWrites = 2  MaxFetches = 1
CHECK_DEADLOCK FALSE
INVARIANTS TypeOK TakenOnce
PROPERTY LastVersionOffered
