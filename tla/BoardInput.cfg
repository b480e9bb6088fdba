CONSTANTS
  Issues = {1, 2}
  Projects = {1}
  Statuses <- MCStatuses
  InProgress = "in_progress"
  OtherStatus = "other"
  RuntimeCwd = FALSE
  Filters <- MCFilters
  None = None
  MaxEdits = 2
SPECIFICATION MCSpec
INVARIANTS
  SelectionIsListed
  TerminalIsAttached
  ClickHitsWhatIsDrawn
PROPERTY EditsStayWithTheirIssue
CHECK_DEADLOCK FALSE
