------------------------------ MODULE Replica ------------------------------
(***************************************************************************)
(* One replica from its start-up to its end: src/containerConfig.ts decides*)
(* whether it may run and which handler it has, src/index.ts starts the    *)
(* polling and exits if that throws, and start of src/models/              *)
(* jobProcessor.ts polls the pairs of job and task type it is responsible  *)
(* for.  Unlike in JobProcessor the tasks never run out: new ones arrive,  *)
(* other replicas take some, and calls may fail again and again.  What     *)
(* happens to a task at hand is abstracted to whether the callback and the *)
(* catch block throw.                                                      *)
(***************************************************************************)
EXTENDS Naturals, Sequences

CONSTANTS
  TaskTypes,    \* the configured task types, in order
  MaxWaiting    \* at most so many tasks of a pair are pending

ASSUME ConstantsOK == TaskTypes \in Seq(STRING) \ {<<>>} /\ MaxWaiting \in Nat \ {0}

VARIABLES
  instance,     \* the configured instanceType
  dirs,         \* the required directories that exist
  handlers,     \* the handler tokens registered in the container
  pc, slot,     \* where start stands, and the pair it polls
  isRunning, runOnce,
  cur,          \* the pair of the task at hand
  waiting,      \* the pending tasks of each pair
  late          \* history: tasks taken since stop was called, counted up to 2

config == <<instance, dirs, runOnce>>
vars   == <<config, handlers, pc, slot, isRunning, cur, waiting, late>>

InstanceTypes == {"ingestion", "export"}
JobTypes      == {"new", "update", "swapUpdate", "export"}
TypesOfTasks  == {TaskTypes[i] : i \in DOMAIN TaskTypes}
Pairs         == JobTypes \X TypesOfTasks
NoPair        == <<"none", "none">>

-----------------------------------------------------------------------------
(* What the configuration makes of an instance.                            *)

Required(type) ==
  IF type = "ingestion" THEN {"reportsPath", "ingestionSourcesDirPath"}
                        ELSE {"gpkgsLocation"}

Dirs == UNION {Required(type) : type \in InstanceTypes}

\* Mutant: an instanceType is taken as it is.
AnyInstance == TRUE

ValidInstance == instance \in InstanceTypes

HandlersOf(type) == IF type = "ingestion" THEN {"ingestion"} ELSE {"export"}

JobTypesToProcess ==
  IF instance = "export" THEN <<"export">> ELSE <<"new", "update", "swapUpdate">>

Permitted == {JobTypesToProcess[i] : i \in DOMAIN JobTypesToProcess}

\* The order in which getJobAndTask asks for tasks.
Polls ==
  [i \in 1 .. Len(JobTypesToProcess) * Len(TaskTypes) |->
     <<JobTypesToProcess[((i - 1) \div Len(TaskTypes)) + 1],
       TaskTypes[((i - 1) % Len(TaskTypes)) + 1]>>]

\* initJobHandler: no handler for a job type that is not permitted.
HandlerToken(type) ==
  IF type \notin Permitted THEN "none"
  ELSE IF type = "export" THEN "export" ELSE "ingestion"

Init ==
  /\ instance \in InstanceTypes \cup {"unset"}
  /\ dirs \in SUBSET Dirs
  /\ runOnce \in BOOLEAN
  /\ handlers = {}
  /\ pc = "boot" /\ slot = 1 /\ isRunning = TRUE /\ cur = NoPair
  /\ waiting = [p \in Pairs |-> 0]
  /\ late = 0

-----------------------------------------------------------------------------
(* Start-up.                                                               *)

Exit ==
  /\ pc' = "exited" /\ slot' = 1 /\ isRunning' = TRUE /\ cur' = NoPair
  /\ handlers' = {} /\ late' = 0
  /\ UNCHANGED config

\* getInstanceType or validateRequiredDirectories throws: index.ts exits.
Refuse ==
  /\ pc = "boot"
  /\ ~ ValidInstance \/ ~ Required(instance) \subseteq dirs
  /\ Exit
  /\ UNCHANGED waiting

Listen ==
  /\ pc = "boot"
  /\ ValidInstance /\ Required(instance) \subseteq dirs
  /\ handlers' = HandlersOf(instance)
  /\ pc' = "head"
  /\ UNCHANGED <<config, slot, isRunning, cur, waiting, late>>

-----------------------------------------------------------------------------
(* start.                                                                  *)

\* Mutant: isRunning is not looked at again.
LoopHeadAlways ==
  /\ pc = "head"
  /\ pc' = "poll" /\ slot' = 1
  /\ UNCHANGED <<config, handlers, isRunning, cur, waiting, late>>

LoopHead ==
  /\ pc = "head"
  /\ IF isRunning THEN pc' = "poll" /\ slot' = 1
                  ELSE pc' = "left" /\ UNCHANGED slot
  /\ UNCHANGED <<config, handlers, isRunning, cur, waiting, late>>

\* Mutant: runOnce is forgotten.
SleepAfterwards == pc' = "sleep" /\ cur' = NoPair

\* The end of an iteration that does not "continue".
EndIteration ==
  /\ pc' = IF runOnce THEN "left" ELSE "sleep"
  /\ cur' = NoPair

Take(p) == waiting[p] > 0 /\ waiting' = [waiting EXCEPT ![p] = @ - 1]

DequeueTask ==
  /\ pc = "poll"
  /\ Take(Polls[slot])
  /\ cur' = Polls[slot]
  /\ late' = IF isRunning \/ late = 2 THEN late ELSE late + 1
  /\ pc' = "getJob"
  /\ UNCHANGED <<config, handlers, slot, isRunning>>

\* Mutant: the last pair is not polled.
SkipsLast == slot + 1 < Len(Polls)

MorePairs == slot < Len(Polls)

DequeueNothing ==
  /\ pc = "poll"
  /\ waiting[Polls[slot]] = 0
  /\ IF MorePairs THEN slot' = slot + 1 /\ UNCHANGED <<pc, cur>>
                  ELSE slot' = 1 /\ EndIteration
  /\ UNCHANGED <<config, handlers, isRunning, waiting, late>>

\* Mutants: a task whose job was not found is kept; the dequeue is retried on
\* the spot.
KeepsTask == pc' = "head" /\ UNCHANGED <<config, handlers, slot, isRunning, cur, late>>

RetryAtOnce ==
  /\ pc' = "poll" /\ slot' = 1 /\ cur' = NoPair
  /\ UNCHANGED <<config, handlers, isRunning, late>>

\* "continue": no sleep, and no look at runOnce.  A call that failed may have
\* taken a task from the queue all the same.
Continue ==
  /\ pc' = "head" /\ cur' = NoPair
  /\ UNCHANGED <<config, handlers, slot, isRunning, late>>

DequeueFails ==
  /\ pc = "poll"
  /\ Take(Polls[slot]) \/ UNCHANGED waiting
  /\ Continue

GetJobFails == pc = "getJob" /\ Continue /\ UNCHANGED waiting

\* The job is there: checkTaskAttempts passes or throws, a handler is resolved.
FindHandler ==
  /\ pc = "getJob"
  /\ \/ HandlerToken(cur[1]) \in handlers /\ pc' = "work"
     \/ pc' = "catch"
  /\ UNCHANGED <<config, handlers, slot, isRunning, cur, waiting, late>>

WorkReturns ==
  /\ pc = "work" /\ EndIteration
  /\ UNCHANGED <<config, handlers, slot, isRunning, waiting, late>>

WorkThrows ==
  /\ pc = "work" /\ pc' = "catch"
  /\ UNCHANGED <<config, handlers, slot, isRunning, cur, waiting, late>>

CatchReturns ==
  /\ pc = "catch" /\ EndIteration
  /\ UNCHANGED <<config, handlers, slot, isRunning, waiting, late>>

\* start rejects: index.ts calls stop and exits.
CatchThrows == pc = "catch" /\ Exit /\ UNCHANGED waiting

WakeUp ==
  /\ pc = "sleep" /\ pc' = "head"
  /\ UNCHANGED <<config, handlers, slot, isRunning, cur, waiting, late>>

Stop ==
  /\ pc \notin {"boot", "exited"} /\ isRunning
  /\ isRunning' = FALSE
  /\ UNCHANGED <<config, handlers, pc, slot, cur, waiting, late>>

-----------------------------------------------------------------------------
(* The surroundings.                                                       *)

Arrive(p) ==
  /\ waiting[p] < MaxWaiting
  /\ waiting' = [waiting EXCEPT ![p] = @ + 1]
  /\ UNCHANGED <<config, handlers, pc, slot, isRunning, cur, late>>

TakenElsewhere(p) ==
  /\ Take(p)
  /\ UNCHANGED <<config, handlers, pc, slot, isRunning, cur, late>>

Mount(d) ==
  /\ d \notin dirs /\ dirs' = dirs \cup {d}
  /\ UNCHANGED <<instance, runOnce, handlers, pc, slot, isRunning, cur, waiting, late>>

Crash == pc # "exited" /\ Exit /\ UNCHANGED waiting

Restart ==
  /\ pc = "exited" /\ pc' = "boot"
  /\ UNCHANGED <<config, handlers, slot, isRunning, cur, waiting, late>>

-----------------------------------------------------------------------------

Answer == DequeueTask \/ DequeueNothing

Proceed ==
  \/ Refuse \/ Listen \/ Restart \/ LoopHead \/ Answer
  \/ FindHandler \/ WorkReturns \/ WorkThrows \/ CatchReturns \/ WakeUp

Next ==
  \/ Proceed \/ DequeueFails \/ GetJobFails \/ CatchThrows \/ Stop \/ Crash
  \/ \E p \in Pairs : Arrive(p) \/ TakenElsewhere(p)
  \/ \E d \in Dirs : Mount(d)

Spec == Init /\ [][Next]_vars

\* The event loop runs on, and an exited container is started again.
FairSpec == Spec /\ WF_vars(Proceed)

\* A job manager that is asked again and again answers some time, whichever
\* pair it is asked for, and gives the job of a task some time.  FairSpec does
\* not promise that; the properties that need it say so.
ManagerAnswers ==
  /\ \A i \in 1 .. 3 * Len(TaskTypes) : SF_vars(slot = i /\ Answer)
  /\ SF_vars(FindHandler)

-----------------------------------------------------------------------------
(* Properties.                                                             *)

TypeOK ==
  /\ instance \in InstanceTypes \cup {"unset"}
  /\ dirs \subseteq Dirs
  /\ handlers \subseteq InstanceTypes
  /\ pc \in {"boot", "head", "poll", "getJob", "work", "catch", "sleep", "left", "exited"}
  /\ slot \in 1 .. 3 * Len(TaskTypes)
  /\ isRunning \in BOOLEAN /\ runOnce \in BOOLEAN
  /\ cur \in IF pc \in {"getJob", "work", "catch"} THEN Pairs ELSE {NoPair}
  /\ waiting \in [Pairs -> 0 .. MaxWaiting]
  /\ late \in 0 .. 2

\* A task is taken from the queue only by a replica that can work on it: the
\* polled job types (setUpJobTypesToProcess), the handler that was registered
\* (getHandlerDependencies) and the directories that were looked for
\* (validateRequiredDirectories) are decided in three places, by different
\* defaults, and agree (jobProcessor.ts l.116-125, containerConfig.ts l.44-93).
TakesOnlyItsOwn ==
  cur # NoPair =>
    /\ HandlerToken(cur[1]) \in handlers
    /\ cur[1] = "export" => "gpkgsLocation" \in dirs
    /\ cur[1] # "export" => {"reportsPath", "ingestionSourcesDirPath"} \subseteq dirs

\* Once stop was called, at most one more task is taken: by the scan that was
\* under way (l.44, 91-95).
OneMoreTask == late <= 1

\* A stopped loop ends, also while every dequeue fails and "continue" skips
\* the sleep (l.72).
StopEnds == ~ isRunning ~> pc \in {"left", "exited"}

\* With runOnce the loop ends although a failed dequeue or getJob makes it go
\* round again without looking at runOnce (l.72, 84).
RunOnceEnds ==
  ManagerAnswers => (runOnce /\ pc = "head" ~> pc \in {"left", "exited"})

Polled(p)  == \E i \in DOMAIN Polls : Polls[i] = p
Earlier(p) == {Polls[j] : j \in {j \in DOMAIN Polls : \E i \in DOMAIN Polls :
                                   j < i /\ Polls[i] = p}}

\* The loop polls from the first pair again after every task (l.102).  A pair is
\* served, as long as the loop polls, if those before it have no tasks in the
\* end; a stream of tasks of an earlier pair may starve it.
PairServed ==
  ManagerAnswers =>
    \A p \in Pairs :
      /\ Polled(p) /\ []<>(pc = "poll")
      /\ <>[](\A q \in Earlier(p) : waiting[q] = 0)
      => []<>(waiting[p] = 0 \/ cur = p)

=============================================================================
