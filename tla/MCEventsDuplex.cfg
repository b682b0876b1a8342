CONSTANTS
  small = small
  other = other
  big = big
  t1 = t1
  t2 = t2
  Strings = {t1, t2}
  NoString = NoString
  EntryCount = 2
  Events = {small, other}
  TypeName <- MCTypeName
  PayloadBits <- MCPayloadBits
  RefBits = 1
  NameBits = 2
  PacketBits = 30
  Posters = {"server", "client"}
  NoEvent = NoEvent
  Garbled = Garbled
  MaxQueue = 1
  MaxWire = 1
SPECIFICATION Spec
INVARIANT NoMixups
