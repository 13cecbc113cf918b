SPECIFICATION FairSpec
CONSTANT Requests <- MCRequests
INVARIANTS
  TypeOK
  SuccessIsComplete
  OnlyPermittedWrites
  MountReleased
PROPERTIES
  Reverified
  ImplementsOutcome
  Termination
