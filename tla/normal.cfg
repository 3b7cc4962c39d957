SPECIFICATION FairSpec
CONSTANTS
  Tasks = {t1, t2}
  ID_Master = master
  ForeignIDs = {}
  Results <- WorkTask
  ReportStates = {"Running"}
  CtorRequests = {}
  CallRequests = {"RequestCmdLineArgs", "RequestConfig"}
  SendsResults = TRUE
  LongSenders = {t1}
  HasOutputMgr = TRUE
  MaxRequests <- OutputWorkTaskResults
  BeforeStartSends = {}
  ActiveSends = {}
  HookStops = FALSE
  MaxHookCalls = 0
INVARIANTS
  TypeOK
  TrackerFollowsTask
  ControllerOutlivesTasks
  BlackboardOutlivesTasks
  NoSenderIsLeft
PROPERTIES
  EndIsFinal
  ArgsAnswered
  Termination
  ImplementsJob
