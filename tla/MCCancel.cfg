SPECIFICATION FairSpec
CONSTANTS
  Nodes = {n1}
  Handlers = {h1}
  MaxJobs = 1
  None = None
PROPERTY CancelStops
