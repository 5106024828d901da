SPECIFICATION Spec
CONSTANTS
  Names <- MCNames
  Palettes <- MCPalettes
  Installed <- MCPalettes
  FallbackPalette = ""
  Images <- MCImages
  MaxDesk = 1
  WindowFrames <- MCWindowFrames
  InitialNames <- MCInitialNames
  InitialStyles <- MCInitialStyles
  Requests <- AllRequests
  Clients = {"c1", "c2"}
  Producers = {}
  Subs = {"s1"}
  ClientRequests <- SwitchBack
  ProducerRequests <- NoProducerRequests
  CompatLines <- NoRequests
  SubRequests <- EventSubRequests
  MaxEvents = 5
  MaxFaults = 0
  FifoCapacity = 1
INVARIANTS StaysCurrent
