SPECIFICATION Spec
CONSTANTS
  T = 4
  Setups <- MCSetups
  Rooms <- MCRooms
INVARIANTS
  TypeOK
  Installable
  BypassInEffect
  NothingLeft
