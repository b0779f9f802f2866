SPECIFICATION FairSpec
CONSTANTS
  Lanes <- HeavyLanes
  Toolpaths = {t1, t2}
  Estimates <- OneEstimate
  Limits <- MCLimits
  Readings <- MCReadings
  ChannelCap = 1
  MaxSubmits = 2
  Powers = {"cancel", "budget"}
  None = None
INVARIANTS TypeOK LedgerBalance BlamesTheCause StaleRunIsStopped
PROPERTIES EveryRequestSettles KeepsContract
CHECK_DEADLOCK FALSE
