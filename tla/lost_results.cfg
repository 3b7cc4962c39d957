SPECIFICATION Spec
CONSTANTS
  Tasks = {t1, t2}
  ID_Master = master
  ForeignIDs = {}
  Results <- WorkTask
  ReportStates = {}
  CtorRequests = {}
  CallRequests = {}
  SendsResults = TRUE
  LongSenders = {}
  HasOutputMgr = TRUE
  MaxRequests = 1
  BeforeStartSends = {}
  ActiveSends = {}
  HookStops = FALSE
  MaxHookCalls = 0
INVARIANTS
  ResultsAreForwarded
CHECK_DEADLOCK FALSE
