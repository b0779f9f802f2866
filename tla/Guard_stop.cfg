\* The watcher and two threads that poll, under each heavy lane and under the command line.
SPECIFICATION FairSpec
CONSTANTS
  Watcher = Watcher
  Pollers = {p1, p2}
  Surfaces <- AllPrograms
  MaxSteps = 2
  None = None
INVARIANTS TypeOK CancelWins
PROPERTIES LaneNamesTheOwner OutgrownJobStops DropReturns
CHECK_DEADLOCK FALSE
