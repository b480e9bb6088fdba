CONSTANTS
  i1 = i1
  s1 = s1
  s2 = s2
  None = None
  Issues = {i1}
  Sessions = {s1, s2}
  ExternalIds = {"LIN-1", "LIN-2"}
  ExternalStatuses = {"Todo", "Doing"}
  Profiles <- MCProfiles
SPECIFICATION Spec
CONSTRAINT OnePart
SYMMETRY Symmetry
INVARIANTS
  SchemaIsWhole
  NothingPassedOver
PROPERTY OnePrimary
CHECK_DEADLOCK FALSE
