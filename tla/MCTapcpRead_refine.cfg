CONSTANTS
  Block = 16
  HelpMsg <- MCHelpMsg
  FpgaMem <- MCFpgaMem
  CpuMem <- MCCpuMem
  Catalog <- MCCatalog
  Requests <- MCRefineRequests
  LoadModes <- MCUnalignedLoads
  Statics <- MCAllStatics
SPECIFICATION Spec
\* A transfer ends after its short block: the engine stops calling.
CHECK_DEADLOCK FALSE
PROPERTY GetRefines
