CONSTANTS
  W = 6
  FpgaBase = 32
  FpgaNBytes = 24
  Devices <- MCDevices
  DevNames = {"a", "b", "zz"}
  HelpLen = 10
  CoreInfo = 8
  CoreInfoSize = 6
  Absent = Absent
  NULL = NULL
  Received <- MCReceived
SPECIFICATION Spec
\* One open per request: the transfer itself is modelled in TapcpRead.
CHECK_DEADLOCK FALSE
 
INVARIANT InBoundsGetOpens
INVARIANT FpgaCodecAligned
