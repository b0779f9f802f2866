\* An MCP caller waits on a row whose plan stops before it.
SPECIFICATION PlanSpec
CONSTANTS
  a = a
  b = b
  c = c
  d = d
  None = None
  Rows = {a, b}
  NumSetups = 2
  Lateral = {}
  Params = {"plain"}
  IdleParams = {}
  FineParams = {}
  Projects <- PairOnly
  Edits = {}
  MaxEdits = 0
  MaxLane = 2
  MaxRuns = 1
  Acts = {"mcp", "cancelLane"}
  MaxActs = 2
INVARIANTS
  NoCallerIsLeft
CHECK_DEADLOCK FALSE
