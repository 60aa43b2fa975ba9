CONSTANTS
  Block = 16
  HelpMsg <- MCHelpMsg
  FpgaMem <- MCFpgaMem
  CpuMem <- MCCpuMem
  Catalog <- MCCatalog
  Requests <- MCSharedRequests
  LoadModes <- MCUnalignedLoads
  Statics <- MCBootStatics
  Transfers <- MCTransfers
SPECIFICATION Spec
\* Each transfer ends after its short block: the engine stops calling.
CHECK_DEADLOCK FALSE
INVARIANT OwnStream
