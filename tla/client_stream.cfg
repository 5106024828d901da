SPECIFICATION FairSpec
CONSTANTS
  TopicList <- MCTopicList
  OverlayTopics <- MCOverlayTopics
  Keys <- MCKeys
  InitialStores <- MCInitialStores
  Values <- MCValues
  CacheMax = 2
  MaxPerRead = 3
  MaxFrames = 4
  MaxCalls = 1
INVARIANTS TypeOK FramesInOrder HandedIsState CacheContract DrainedAtEnd
PROPERTIES FramesHandedOver
CHECK_DEADLOCK FALSE
