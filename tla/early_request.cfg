SPECIFICATION Spec
CONSTANTS
  Tasks = {t1, t2}
  ID_Master = master
  ForeignIDs = {}
  Results <- WorkTask
  ReportStates = {}
  CtorRequests = {"RequestCmdLineArgs"}
  CallRequests = {}
  SendsResults = FALSE
  LongSenders = {}
  HasOutputMgr = TRUE
  MaxRequests = 1
  BeforeStartSends = {}
  ActiveSends = {}
  HookStops = FALSE
  MaxHookCalls = 0
INVARIANTS
  ControllerOutlivesTasks
CHECK_DEADLOCK FALSE
