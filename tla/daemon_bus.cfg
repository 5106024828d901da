SPECIFICATION Spec
CONSTANTS
  Names <- MCNames
  Palettes <- MCPalettes
  Installed <- MCPalettes
  FallbackPalette = ""
  Images <- MCImages
  MaxDesk = 1
  WindowFrames <- MCWindowFrames
  InitialNames <- MCInitialNames
  InitialStyles <- MCInitialStyles
  Requests <- AllRequests
  Clients = {"c1"}
  Producers = {}
  Subs = {"s1"}
  ClientRequests <- MCFifoRequests
  ProducerRequests <- NoProducerRequests
  CompatLines <- MCCompatLines
  SubRequests <- MCSubRequests
  MaxEvents = 5
  MaxFaults = 1
  FifoCapacity = 1
INVARIANTS TypeOK BusInvariant SourceOrder
PROPERTIES ImplementsSerial ImplementsBus
