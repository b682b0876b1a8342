CONSTANTS
  small = small
  other = other
  big = big
  t1 = t1
  t2 = t2
  Strings = {t1, t2}
  NoString = NoString
  EntryCount = 1
  Events = {small, other, big}
  TypeName <- MCTypeName
  PayloadBits <- MCPayloadBits
  RefBits = 1
  NameBits = 2
  PacketBits = 8
  Posters = {"server"}
  NoEvent = NoEvent
  Garbled = Garbled
  MaxQueue = 3
  MaxWire = 2
SPECIFICATION Spec
INVARIANTS
  TypeOK
  RoomForFinalFlag
  PacketIsQueueFront
  DecodesUnlessPolluted
PROPERTY ToClientImplementsChannel
