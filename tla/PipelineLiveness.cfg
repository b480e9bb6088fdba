CONSTANTS
  s1 = s1
  s2 = s2
  small = small
  large = large
  Sessions = {s1}
  Sizes = {small, large}
  InitialSize = small
  OutputCap = 1
  EventCap = 2
  RenderCap = 3
  MaxChunks <- Chunks3
SPECIFICATION FairSpec
INVARIANT SizesAgree
PROPERTIES
  FeedLive
  OutputIsPainted
  QuitCompletes
