SPECIFICATION Spec
CONSTANTS
  Names <- MCNames
  Palettes <- MCPalettes
  Installed <- MCPalettes
  FallbackPalette = ""
  Images <- MCImages
  MaxDesk = 1
  WindowFrames <- MCWindowFrames
  InitialNames <- MCInitialNames
  InitialStyles <- MCInitialStyles
  Requests <- AllRequests
  Clients = {"c1"}
  Producers = {}
  Subs = {"s1"}
  ClientRequests <- StyleCommands
  ProducerRequests <- NoProducerRequests
  CompatLines <- NoRequests
  SubRequests <- StyleSubRequests
  MaxEvents = 5
  MaxFaults = 1
  FifoCapacity = 1
INVARIANTS FailuresSurfaced
