SPECIFICATION LifecycleSpec
CONSTANTS
  Tasks = {t1, t2, t3}
  ID_Master = master
  ForeignIDs = {}
  ID_Blackboard = blackboard
  MinNumProcs <- SomeMinimums
  CallbackGroups <- SomeGroups
  Results <- WorkTask
  ReportStates = {}
  CtorRequests = {}
  CallRequests = {}
  SendsResults = FALSE
  LongSenders = {}
  HasOutputMgr = TRUE
  MaxRequests = 0
  BeforeStartSends = {}
  ActiveSends = {}
  HookStops = FALSE
  MaxHookCalls = 0
SYMMETRY TaskSymmetry
INVARIANTS
  StartBarrier
  LifecycleOrder
  ControllerOutlivesTasks
  WaitIsOver
  DestroyedIsDone
  CallbacksOrdered
PROPERTIES
  ImplementsFramework
