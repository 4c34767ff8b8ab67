SPECIFICATION FairSpec
CONSTANTS
  TaskTypes <- MCTaskTypes
  MaxWaiting = 1
INVARIANTS TypeOK TakesOnlyItsOwn OneMoreTask
PROPERTIES StopEnds RunOnceEnds PairServed
