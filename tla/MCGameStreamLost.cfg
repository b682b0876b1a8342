CONSTANTS
  SOCK_BUF_SZ = 4
  SwitchAt = 7
  Chunks = {6}
  MaxWritten = 18
  MaxReceived = 0
  MaxConnects = 0
  LENGTHFIELDSIZE = 2
  PACKETSIZE = 4
  FirstLook = 2
  RequestSize = 5
  MaxPackets = 3
SPECIFICATION StreamSpec
INVARIANT PacketsSurvive
CHECK_DEADLOCK FALSE
