CONSTANTS
  SOCK_BUF_SZ = 2
  SwitchAt = 3
  Chunks = {1, 2}
  MaxWritten = 4
  MaxReceived = 3
  MaxConnects = 2
SPECIFICATION Spec
INVARIANTS
  TypeOK
  OutputIntact
  InputIntact
  DescriptorMatchesState
  AttemptIsUnderWay
PROPERTY EndIsNoticed
PROPERTY OutputDrains
CHECK_DEADLOCK FALSE
