SPECIFICATION RatchetSpec
CONSTANTS
  Window = 2
  MaxStep = 7
INVARIANTS RatchetTypeOK RightKey NoKeyLost
PROPERTY ImplementsKeyWindow
