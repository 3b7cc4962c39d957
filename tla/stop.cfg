SPECIFICATION FairSpec
CONSTANTS
  Tasks = {t1, t2}
  ID_Master = master
  ForeignIDs = {}
  Results <- LongTask
  ReportStates = {}
  CtorRequests = {}
  CallRequests = {"RequestStop"}
  SendsResults = FALSE
  LongSenders = {}
  HasOutputMgr = TRUE
  MaxRequests = 1
  BeforeStartSends = {}
  ActiveSends = {}
  HookStops = FALSE
  MaxHookCalls = 1
INVARIANTS
  TrackerFollowsTask
  ControllerOutlivesTasks
  LifecycleOrder
PROPERTIES
  EndIsFinal
  StopLeadsToExit
  JobSafety
CHECK_DEADLOCK FALSE
