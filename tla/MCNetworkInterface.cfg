CONSTANTS
  c1 = c1
  c2 = c2
  c3 = c3
  Connections = {c1, c2, c3}
  MaxOpens = 4
SPECIFICATION Spec
INVARIANTS
  TypeOK
  RemovesOnlyListed
  LiveAreListedOnce
PROPERTY ConnectedAreServed
PROPERTY DeadLeave
