SPECIFICATION FairSpec
CONSTANTS
  Tasks = {t1, t2}
  ID_Master = master
  ForeignIDs = {}
  Results <- LongTask
  ReportStates = {}
  CtorRequests = {}
  CallRequests = {}
  SendsResults = FALSE
  LongSenders = {}
  HasOutputMgr = TRUE
  MaxRequests = 0
  BeforeStartSends = {}
  ActiveSends = {}
  HookStops = FALSE
  MaxHookCalls = 0
PROPERTIES
  FailedInitIsHandled
CHECK_DEADLOCK FALSE
