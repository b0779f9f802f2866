\* Two simulations in flight around every edit that keeps a row in its setup and the setup as it lies, beside, into and out of a lateral setup.
SPECIFICATION Spec
CONSTANTS
  a = a
  b = b
  c = c
  d = d
  None = None
  Rows = {a, b}
  NumSetups = 3
  Lateral = {2}
  Params = {"plain", "idle"}
  IdleParams = {"idle"}
  FineParams = {}
  Projects <- SideSetups
  Edits = {"param", "enable", "change", "reorder", "add", "bore"}
  MaxEdits = 3
  MaxLane = 1
  MaxRuns = 2
INVARIANTS
  TypeOK
  OrderedResultsAreFresh
  OrderedSnapshotIsTrue
CHECK_DEADLOCK FALSE
