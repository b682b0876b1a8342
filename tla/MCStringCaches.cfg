CONSTANTS
  s1 = s1
  s2 = s2
  s3 = s3
  s4 = s4
  Strings = {s1, s2, s3, s4}
  NoString = NoString
  EntryCount = 3
  MaxWire = 3
SPECIFICATION MCSpec
INVARIANTS
  ListIsInsertionOrder
  KnownStringsAreHeld
  CachesCoherent
PROPERTY ImplementsChannel
