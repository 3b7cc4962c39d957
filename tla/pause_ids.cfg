SPECIFICATION Spec
CONSTANTS
  Tasks = {t1, t2}
  ID_Master = master
  ForeignIDs = {t1, t2}
  Results <- PausableTask
  ReportStates = {}
  CtorRequests = {}
  CallRequests = {}
  SendsResults = FALSE
  LongSenders = {}
  HasOutputMgr = TRUE
  MaxRequests = 0
  BeforeStartSends = {}
  ActiveSends = {"RequestPauseTask"}
  HookStops = FALSE
  MaxHookCalls = 1
INVARIANTS
  TrackerFollowsTask
CHECK_DEADLOCK FALSE
