SPECIFICATION FairSpec
CONSTANTS
  Tasks = {t1, t2}
  ID_Master = master
  ForeignIDs = {}
  Results <- PausableTask
  ReportStates = {}
  CtorRequests = {"RequestStop"}
  CallRequests = {}
  SendsResults = TRUE
  LongSenders = {}
  HasOutputMgr = FALSE
  MaxRequests = 1
  BeforeStartSends = {"RequestPauseTask"}
  ActiveSends = {"RequestPauseTask","RequestResumeTask"}
  HookStops = TRUE
  MaxHookCalls = 2
INVARIANTS
  TrackerFollowsTask
  KnownTasksEnd
PROPERTIES
  PauseObeyed
CHECK_DEADLOCK FALSE
