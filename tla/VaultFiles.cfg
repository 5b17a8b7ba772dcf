SPECIFICATION FairSpec
CONSTANTS
  alice = alice  bob = bob
  Clients = {alice, bob}
  Owner <- InTurn
  Uploads = {1, 2}  Legacies = {{}, {2}}
  Size = 2
  SendCap = 9  DownCap = 2  GetCap = 1
  MaxCleans = 1
CHECK_DEADLOCK FALSE
INVARIANTS TypeOK InOrder SuccessIsComplete
PROPERTY DownloadsEnd
