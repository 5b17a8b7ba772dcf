SPECIFICATION Spec
CONSTANTS
  Savers = {s1,s2,s3}
  Inodes = {f1,f2,f3,f4}
  NoInode = NoInode
  MaxVersion = 4  MaxCrashes = 2
SYMMETRY Symmetric
CHECK_DEADLOCK FALSE
INVARIANTS TypeOK SavedIsDurable
PROPERTY ImplementsAclFile
