CONSTANTS
  g1 = g1
  g2 = g2
  p1 = p1
  x = x
  Ghosts = {g1, g2}
  Fields = {x}
  InitialFields = {}
  Values = {0}
  Objects <- MCObjects
  Default = Default
  Prototype <- MCSamePrototype
  Empty = Empty
  NoInfo = NoInfo
  MaxGhostCount = 2
  GhostIdBits = 1
  FieldBits = 2
  RefBits = 3
  NameBits = 3
  Scopes <- MCEqual
  TopPriority = 4
  Rooms = {}
  MaxWire = 1
  Strings = {p1, Ev}
  NoString = NoString
  EntryCount = 1
  EventName = Ev
  PayloadBits = 2
  PacketBits = 16
  MaxEvents = 3
SPECIFICATION ConnectionSpec
INVARIANTS
  EventsSurvive
