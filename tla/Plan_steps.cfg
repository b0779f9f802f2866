\* One plan of each kind with the sweep, cancels, simulations and a removal in between.
SPECIFICATION FairPlanSpec
CONSTANTS
  a = a
  b = b
  c = c
  d = d
  None = None
  Rows = {a, b, c}
  NumSetups = 2
  Lateral = {}
  Params = {"plain"}
  IdleParams = {}
  FineParams = {}
  Projects <- ClippedOnly
  Edits = {"remove"}
  MaxEdits = 1
  MaxLane = 3
  MaxRuns = 2
  Acts = {"all", "once", "setup", "row", "mcp", "sweep", "cancel", "cancelLane", "simulate", "panic"}
  MaxActs = 3
INVARIANTS
  PlanTypeOK
  StepLandsFirst
PROPERTIES
  StaysInSession
  PlanEnds
  AllAccountedFor
  BlockedHasACause
CHECK_DEADLOCK FALSE
