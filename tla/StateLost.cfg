CONSTANTS
  board = board
  mcp = mcp
  c1 = c1
  i1 = i1
  p1 = p1
  Words = Words
  None = None
  Board = board
  Mcp = mcp
  Clis = {c1}
  Issues = {i1}
  Projects = {p1}
  Tools = {"issue_create", "issue_move", "issue_assign_project", "project_create"}
  MaxChanges = 3
SPECIFICATION Spec
INVARIANT NoLostChange
CHECK_DEADLOCK FALSE
