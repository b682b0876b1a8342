CONSTANTS
  Kind <- MCKind
  Parent <- MCParent
  RangeMin <- MCRangeMin
  RangeMax <- MCRangeMax
  FloatBits = 2
  IntBits = 2
  Grain = 2
  Tracked = {2, 3, 5, 8}
  Settings <- MCSettings
  NotSeen = NotSeen
  MaxWire = 1
SPECIFICATION Spec
INVARIANTS
  TypeOK
  InFrame
  ShownInRange
  CleanFieldsAreShown
