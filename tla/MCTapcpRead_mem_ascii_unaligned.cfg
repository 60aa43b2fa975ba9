\* CPU hexdumps under every build's unaligned-load behaviour.
CONSTANTS
  Block = 16
  HelpMsg <- MCHelpMsg
  FpgaMem <- MCFpgaMem
  CpuMem <- MCCpuMem
  Catalog <- MCCatalog
  Requests <- MCMemAsciiRequests
  LoadModes <- MCAllLoadModes
  Statics <- MCBootStatics
SPECIFICATION Spec
\* A transfer ends after its short block: the engine stops calling.
CHECK_DEADLOCK FALSE
INVARIANT DumpShowsMemory
