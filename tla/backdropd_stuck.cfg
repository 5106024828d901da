SPECIFICATION FairSpec
CONSTANTS
  Values <- MCValues
  Layouts <- MCLayouts
  MaxOutputs = 2
  MaxChanges = 2
  MaxFaults = 0
  MaxSignals = 0
PROPERTIES BackdropStaysCurrent
CHECK_DEADLOCK FALSE
