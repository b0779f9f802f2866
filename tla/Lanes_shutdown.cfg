SPECIFICATION FairSpec
CONSTANTS
  Lanes <- JobLane
  Toolpaths = {t1}
  Estimates <- NoBytes
  Limits <- NoBytes
  Readings <- NoProbe
  ChannelCap = 2
  MaxSubmits = 1
  Powers = {"drop"}
  None = None
PROPERTY DropReturns
CHECK_DEADLOCK FALSE
