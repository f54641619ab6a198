SPECIFICATION MCSpec
CONSTANTS
  t1 = t1
  t2 = t2
  ann = ann
  bob = bob
  carl = carl
  x1 = x1
  x2 = x2
  g1 = g1
  g2 = g2
  v1 = v1
  issue = issue
  reissue = reissue
  initiate = initiate
  initiate2 = initiate2
  claim = claim
  claim2 = claim2
  cancel = cancel
  verify = verify
  revoke = revoke
  upload1 = upload1
  upload2 = upload2
  upload3 = upload3
  NoUser = NoUser
  NoTicket = NoTicket
  NoGate = NoGate
  Disabled = Disabled
  Buyer = ann
  Tix <- MCTix
  Users <- MCUsers
  Transfers <- MCTransfers
  TransferOf <- MCTransferOf
  MaxTransfers = 2
  Calls <- MCCalls
  CallOf <- MCCallOf
  MaxAttempts = 2
  MaxFaults = 1
  Gates <- MCGates
  Validators <- MCValidators
  ValidatorOf <- MCValidatorOf
  UploadsOf <- MCUploadsOf
  FlushChunk = 1
  Budget <- MCBudget
  Scenarios <- ReloadStories
PROPERTY OneEntryPerDoor
CHECK_DEADLOCK FALSE
