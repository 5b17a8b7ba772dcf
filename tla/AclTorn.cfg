SPECIFICATION Spec
CONSTANTS
  Savers = {s1,s2}
  Inodes = {f1,f2,f3}
  NoInode = NoInode
  MaxVersion = 2  MaxCrashes = 0
SYMMETRY Symmetric
CHECK_DEADLOCK FALSE
INVARIANT AclReadable
