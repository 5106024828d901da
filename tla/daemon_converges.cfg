SPECIFICATION Spec
CONSTANTS
  Names <- MCNames
  Palettes <- MCPalettes
  Installed <- MCPalettes
  FallbackPalette = ""
  Images <- MCImages
  MaxDesk = 1
  WindowFrames <- MCWindowFrames
  InitialNames <- MCInitialNames
  InitialStyles <- MCInitialStyles
  Requests <- AllRequests
  Clients = {"c1", "c2"}
  Producers = {"p1"}
  Subs = {"s1"}
  ClientRequests <- SwitchStyleAndBackdrop
  ProducerRequests <- MCProducerRequests
  CompatLines <- NoRequests
  SubRequests <- TwoTopicSubRequests
  MaxEvents = 5
  MaxFaults = 0
  FifoCapacity = 1
INVARIANTS NewestIsCurrent FailuresSurfaced OneWriterSuffices
