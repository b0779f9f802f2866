\* Every edit of the rows that are there but a reorder, once, on both two-setup projects; empty generations and the fine cell included.
SPECIFICATION Spec
CONSTANTS
  a = a
  b = b
  c = c
  d = d
  None = None
  Rows = {a, b, c}
  NumSetups = 2
  Lateral = {}
  Params = {"plain", "fine", "idle"}
  IdleParams = {"idle"}
  FineParams = {"fine"}
  Projects <- FlatSetups
  Edits = {"param", "enable", "stock_source", "boundary", "move", "remove", "face", "change"}
  MaxEdits = 1
  MaxLane = 2
  MaxRuns = 1
INVARIANTS
  HeldResultsAreFresh
  CurrentSnapshotIsTrue
  SimulationUnblocks
CHECK_DEADLOCK FALSE
