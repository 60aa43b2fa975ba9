CONSTANTS
  LineBufSize = 44
  BlockSizes <- MCBlockSizes
  Puts <- MCPassPuts
SPECIFICATION Spec
\* A put ends with its last packet or a failed callback.
CHECK_DEADLOCK FALSE
INVARIANT TypeOK
INVARIANT StoresFollowFile
INVARIANT StoresWithinBound
INVARIANT FailsOnlyWhenRequired
INVARIANT NoLineBufOverrun
PROPERTY PutEndsAsRequired
