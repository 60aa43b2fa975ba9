CONSTANTS
  LineBufSize = 12
  BlockSizes <- MCBlockSizes
  Puts <- MCLabelOnlyPuts
SPECIFICATION Spec
\* A put ends with its last packet or a failed callback.
CHECK_DEADLOCK FALSE
INVARIANT StoresFollowFile
