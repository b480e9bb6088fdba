CONSTANTS
  s1 = s1
  s2 = s2
  small = small
  large = large
  Sessions = {s1, s2}
  Sizes = {small, large}
  InitialSize = small
  OutputCap = 1
  EventCap = 1
  RenderCap = 1
  MaxChunks <- Chunks21
SPECIFICATION Spec
INVARIANT Responsive
CHECK_DEADLOCK FALSE
