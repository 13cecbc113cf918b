SPECIFICATION Spec
CONSTANTS
  T = 4
  Setups <- MCSetups
  Rooms <- StopRooms
INVARIANT
  ScratchFound
