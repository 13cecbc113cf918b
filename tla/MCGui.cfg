SPECIFICATION Spec
CONSTANTS
  Nodes = {n1, n2}
  Handlers = {h1, h2}
  MaxJobs = 2
  None = None
SYMMETRY Symmetry
CONSTRAINT TwoOfEither
INVARIANTS
  TypeOK
  WorkerKnown
  Consented
PROPERTIES
  ReadyAfterExit
