\* A reorder that takes a rest row above its source.
SPECIFICATION Spec
CONSTANTS
  a = a
  b = b
  c = c
  d = d
  None = None
  Rows = {a, b}
  NumSetups = 2
  Lateral = {}
  Params = {"plain"}
  IdleParams = {}
  FineParams = {}
  Projects <- PairOnly
  Edits = {"reorder"}
  MaxEdits = 1
  MaxLane = 2
  MaxRuns = 1
INVARIANTS
  HeldResultsAreFresh
CHECK_DEADLOCK FALSE
