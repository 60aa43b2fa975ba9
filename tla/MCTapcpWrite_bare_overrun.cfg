CONSTANTS
  LineBufSize = 4
  BlockSizes <- MCBlockSizes
  Puts <- MCBarePuts
SPECIFICATION Spec
\* A put ends with its last packet or a failed callback.
CHECK_DEADLOCK FALSE
INVARIANT NoLineBufOverrun
