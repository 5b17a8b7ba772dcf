SPECIFICATION FairSpec
CONSTANTS
  a = a  b = b  k = k
  Members = {a, k}
  Target = k
  Talkers = {a}
  Starting = {a}  Publishes = 1
  Events = {"join", "approve", "blockPending", "kick"}
  Window = 1  PendingMax = 1  DownCap = 3  OutCap = 3
  MaxEvents = 1  MaxSaid = 1
CHECK_DEADLOCK FALSE
INVARIANTS TypeOK ShownOnce NoStaleChain KickedLearnsNoSeed
PROPERTY EventuallySettles
