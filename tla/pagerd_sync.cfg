SPECIFICATION FairSpec
CONSTANTS
  Handles <- MCHandles
  Names <- MCNames
  Cuts <- MCCuts
  InitialHandles <- MCInitialHandles
  InitialName <- MCInitialName
  InitialNames <- MCInitialNames
  Clients = {"c1"}
  MaxSlots = 2
  LinesPerRead = 1
  FifoCapacity = 2
  MaxInputs = 2
INVARIANTS TypeOK TracksCompositor AgreesAtRest
PROPERTIES Quiesces
CHECK_DEADLOCK FALSE
