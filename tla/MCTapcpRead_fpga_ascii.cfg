CONSTANTS
  Block = 16
  HelpMsg <- MCHelpMsg
  FpgaMem <- MCFpgaMem
  CpuMem <- MCCpuMem
  Catalog <- MCCatalog
  Requests <- MCFpgaAsciiRequests
  LoadModes <- MCUnalignedLoads
  Statics <- MCBootStatics
SPECIFICATION Spec
\* A transfer ends after its short block: the engine stops calling.
CHECK_DEADLOCK FALSE
PROPERTY GetRefines
