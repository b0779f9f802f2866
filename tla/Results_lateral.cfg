\* A rest row after a lateral setup.
SPECIFICATION Spec
CONSTANTS
  a = a
  b = b
  c = c
  d = d
  None = None
  Rows = {a, b, c}
  NumSetups = 2
  Lateral = {1}
  Params = {"plain"}
  IdleParams = {}
  FineParams = {}
  Projects <- AcrossOnly
  Edits = {}
  MaxEdits = 0
  MaxLane = 2
  MaxRuns = 1
INVARIANTS
  SimulationUnblocks
CHECK_DEADLOCK FALSE
