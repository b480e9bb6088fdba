CONSTANTS
  i1 = i1
  i2 = i2
  s1 = s1
  s2 = s2
  p1 = p1
  MaxIds = 4
  None = None
  Issues = {i1, i2}
  Sessions = {s1, s2}
  Projects = {p1}
  JsonFile = TRUE
SPECIFICATION MCSpec
SYMMETRY Symmetry
INVARIANTS
  LinksResolve
  LiveIsRecordedRunning
  LiveWorktreeKept
  OnlyRefusedProjectsUnsaved
CHECK_DEADLOCK FALSE
