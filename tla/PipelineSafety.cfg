CONSTANTS
  s1 = s1
  s2 = s2
  Sessions = {s1, s2}
  small = small
  large = large
  Sizes = {small}
  InitialSize = small
  OutputCap = 1
  EventCap = 1
  RenderCap = 1
  MaxChunks <- Chunks21
SPECIFICATION Spec
INVARIANTS
  TypeOK
  NothingLostOrReordered
  LiveScreenComplete
  ScreenBeforeBytes
  OnlyFailedLaunchesOutlive
PROPERTY FeedSafe
CHECK_DEADLOCK FALSE
