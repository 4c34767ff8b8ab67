SPECIFICATION ExportSpec
CONSTANTS
  w1 = w1
  w2 = w2
  t1 = t1
  t2 = t2
  NoTask = NoTask
  Packages = {t1}
  Roi <- MCRoi
  Answers <- MCAnswers
  Workers = {w1, w2}
  Tasks = {t1, t2}
  JobTypes <- MCJobTypes
  TaskTypes <- MCTaskTypes
  KindOf <- MCKindOf
  SendsCallbacks = FALSE
  CallbackTasks = {}
  MaxAttempts = 2
  FaultyCalls = {"dequeue", "getJob", "ack", "tracker", "reject"}
  MaxFaults = 1
  MaxCrashes = 1
  MaxTimeouts = 1
SYMMETRY WorkerSymmetry
INVARIANTS AttemptsBounded HoldersBounded GaugeIsActive SuccessesAreTold LayerExact
