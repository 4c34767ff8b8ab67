SPECIFICATION FairSpec
CONSTANTS
  w1 = w1
  w2 = w2
  t1 = t1
  t2 = t2
  NoTask = NoTask
  Workers = {w1, w2}
  Tasks = {t1, t2}
  JobTypes <- MCJobTypes
  TaskTypes <- MCTaskTypes
  KindOf <- MCKindOf
  SendsCallbacks = TRUE
  CallbackTasks = {t1}
  MaxAttempts = 2
  FaultyCalls = {"getJob"}
  MaxFaults = 1
  MaxCrashes = 0
  MaxTimeouts = 0
PROPERTIES EventuallyFinished
