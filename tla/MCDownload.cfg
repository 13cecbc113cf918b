SPECIFICATION FairSpec
CONSTANTS
  x64 = x64
  arm64 = arm64
  r1 = r1
  r2 = r2
  Images = {x64, arm64}
  Jobs <- MCJobs
  Arch <- MCArch
  Runs = {r1, r2}
  N = 2
  MaxLinks = 2
  PerReply = 2
  Attempts = 2
  MaxRetry = 1
INVARIANTS
  TypeOK
  SessionMatches
  FetchedIsImage
PROPERTIES
  ExistingKept
  Resumable
  Termination
