\* A simulation that lands with the stamp of the one that replaced it.
SPECIFICATION Spec
CONSTANTS
  a = a
  b = b
  c = c
  d = d
  None = None
  Rows = {a, b}
  NumSetups = 2
  Lateral = {}
  Params = {"plain"}
  IdleParams = {}
  FineParams = {}
  Projects <- PairOnly
  Edits = {"face"}
  MaxEdits = 1
  MaxLane = 1
  MaxRuns = 2
PROPERTIES
  AdoptedSimulationIsLive
CHECK_DEADLOCK FALSE
