CONSTANTS
  s1 = s1
  s2 = s2
  s3 = s3
  Strings = {s1, s2, s3}
  NoString = NoString
  EntryCount = 2
SPECIFICATION MCSpec
INVARIANT EvictsLeastRecentlyUsed
