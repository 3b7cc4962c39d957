SPECIFICATION FairSpec
CONSTANTS
  Tasks = {t1, t2}
  ID_Master = master
  ForeignIDs = {}
  Results <- WorkTask
  ReportStates = {}
  CtorRequests = {}
  CallRequests = {}
  SendsResults = FALSE
  LongSenders = {}
  HasOutputMgr = TRUE
  MaxRequests = 0
  BeforeStartSends = {"Configuration"}
  ActiveSends = {}
  HookStops = FALSE
  MaxHookCalls = 0
PROPERTIES
  UnknownIsDiscarded
CHECK_DEADLOCK FALSE
