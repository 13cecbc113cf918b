SPECIFICATION Spec
CONSTANTS
  Media <- MCMedia
  Requests <- MCRequests
  WaitTries = 2
  SettleTries = 2
  None = None
INVARIANTS
  VolumeInPartition
