SPECIFICATION FairSpec
CONSTANTS
  w1 = w1
  w2 = w2
  a = a
  b = b
  Blank = Blank
  None = None
  Workers <- MCWorkers
  Data <- MCData
  Image <- MCImage
  SrcLen <- MCSrcLen
  Options <- MCOptions
  Chunk = 2
  Cap = 4
  MaxFaults = 1
CONSTRAINT SecondStays
INVARIANTS
  TypeOK
  OneWriter
  WrittenPrefix
  SuccessIsComplete
PROPERTIES
  VerifiedCopy
  OnlyPayloadWritten
  Termination
