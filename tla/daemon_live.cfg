SPECIFICATION FairSpec
CONSTANTS
  Names <- MCNames
  Palettes <- MCPalettes
  Installed <- MCPalettes
  FallbackPalette = ""
  Images <- MCImages
  MaxDesk = 1
  WindowFrames <- MCWindowFrames
  InitialNames <- MCInitialNames
  InitialStyles <- MCInitialStyles
  Requests <- AllRequests
  Clients = {"c1"}
  Producers = {"p1"}
  Subs = {"s1"}
  ClientRequests <- StyleCommands
  ProducerRequests <- WindowFramesOnly
  CompatLines <- NoRequests
  SubRequests <- LiveSubRequests
  MaxEvents = 4
  MaxFaults = 1
  FifoCapacity = 1
PROPERTIES EventuallyDelivered CommandsFinish
