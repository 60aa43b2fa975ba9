\* Every read codec over every request: reads stay in range, transfers end.
CONSTANTS
  Block = 16
  HelpMsg <- MCHelpMsg
  FpgaMem <- MCFpgaMem
  CpuMem <- MCCpuMem
  Catalog <- MCCatalog
  Requests <- MCAllRequests
  LoadModes <- MCUnalignedLoads
  Statics <- MCAllStatics
SPECIFICATION Spec
\* A transfer ends after its short block: the engine stops calling.
CHECK_DEADLOCK FALSE
INVARIANT TypeOK
INVARIANT ReadsWithinRequest
INVARIANT DumpShowsMemory
INVARIANT ListingFitsLineBuf
