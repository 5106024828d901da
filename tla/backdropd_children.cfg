SPECIFICATION FairSpec
CONSTANTS
  Values <- MCValues
  Layouts <- MCLayouts
  MaxOutputs = 2
  MaxChanges = 2
  MaxFaults = 1
  MaxSignals = 2
INVARIANTS TypeOK ShowsNewest OneBackdrop NoneForgotten
PROPERTIES BackdropFollows StopsWhenTold
CHECK_DEADLOCK FALSE
