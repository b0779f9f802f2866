\* Two children and one fault; two of a stop, a restart, a cancel, the close, --auto-restart.
SPECIFICATION FairSpec
CONSTANTS
  Requests = {r1}
  Stops = {s1}
  Restarts = {u1}
  Close = Close
  MaxGen = 2
  MaxFaults = 1
  MaxCalls = 2
  None = None
INVARIANTS TypeOK AnsweredOnce NothingLost OneGui ReadyIsComplete
PROPERTIES ToolsAnswer
CHECK_DEADLOCK FALSE
