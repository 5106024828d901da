SPECIFICATION BoundedSpec
CONSTANTS
  Names <- MCNames
  Palettes <- MCPalettes
  Installed <- MCInstalled
  FallbackPalette = ""
  Images <- MCImages
  MaxDesk = 2
  MaxNames = 3
  WindowFrames <- MCWindowFrames
  InitialNames <- MCInitialNames
  InitialStyles <- MCInitialStyles
  Requests <- MCRequests
INVARIANTS StateTypeOK BackdropsFollowState ChangesAreAnnounced DesksFollowNames
PROPERTIES StyleFollowsFile CurrentStaysListed
