SPECIFICATION Spec
CONSTANTS
  None = None
  m1 = m1
  l1 = l1
  Key = {m1, l1}
  RestingKey = {l1}
  Resends = 1
  MaxCrashes = 1
  MaxLostWrites = 0
INVARIANTS
  TypeOK
  UnansweredIsOnFile
  TransmitOncePerFault
  RestartKeepsDesk
  HaltStopsSends
