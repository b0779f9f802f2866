SPECIFICATION Spec
CONSTANTS
  Lanes <- LightLanes
  Toolpaths = {t1}
  Estimates <- OneEstimate
  Limits <- NoBytes
  Readings <- NoProbe
  ChannelCap = 1
  MaxSubmits = 3
  Powers = {"cancel", "drop"}
  None = None
INVARIANT SnapshotHonest
PROPERTY KeepsContract
CHECK_DEADLOCK FALSE
