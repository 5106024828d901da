SPECIFICATION FairSpec
CONSTANTS
  Handles <- MCHandles
  Titles <- MCTitles
  InitialHandles <- MCInitialHandles
  InitialTitle = "a"
  UsedVerbs <- MCUsedVerbs
  HasSeat = TRUE
  MaxSlots = 2
  LinesPerRead = 1
  FifoCapacity = 2
  MaxInputs = 2
INVARIANTS TypeOK ActsOnMeant ShownAtRest
PROPERTIES EndsAfterWriter
CHECK_DEADLOCK FALSE
