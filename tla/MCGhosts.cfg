CONSTANTS
  g1 = g1
  g2 = g2
  g3 = g3
  p1 = p1
  x = x
  y = y
  Ghosts = {g1, g2, g3}
  Fields = {x, y}
  InitialFields = {}
  Values = {0, 1}
  Objects <- MCObjects
  Default = Default
  Prototype <- MCPrototype
  Empty = Empty
  NoInfo = NoInfo
  MaxGhostCount = 2
  GhostIdBits = 1
  FieldBits = 2
  RefBits = 3
  NameBits = 3
  Scopes <- MCScopes
  TopPriority = 4
  Rooms = {3, 15, 16}
  MaxWire = 1
  Strings = {p1}
  NoString = NoString
  EntryCount = 1
SPECIFICATION Spec
INVARIANTS TypeOK SlotsMatchInfos ClientInStep DirtyFlagsTellTheTruth
PROPERTIES EventuallyConsistent ImplementsMirror
