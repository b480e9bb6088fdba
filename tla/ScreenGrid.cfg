CONSTANTS
  Sizes <- MCSizes
  Word = 16
  Counts = {0, 1, 2, 15}
  Renditions <- MCRenditions
  MaxGlyphs = 1
  None = None
SPECIFICATION MCSpec
CONSTRAINT PenFirst
INVARIANTS
  GridFits
  MainScreenKept
PROPERTIES
  CursorStaysInGrid
  DiffFindsCharacters
  SgrRoundTrip
CHECK_DEADLOCK FALSE
