---------------------------- MODULE JobProcessor ----------------------------
(***************************************************************************)
(* The polling loop of src/models/jobProcessor.ts, run by every replica of *)
(* the service, against the job manager it pulls tasks from, the heartbeat *)
(* of its queue client, the job tracker it notifies and the callback urls  *)
(* of the ingestion jobs.  What a handler does with a task is abstracted   *)
(* to how it ends: it returns, throws, or throws an UnrecoverableTaskError.*)
(*                                                                         *)
(* One action stands for what runs between two awaits.  Calls named in     *)
(* FaultyCalls may fail, MaxFaults times in all, with or without having    *)
(* taken effect; a process may be killed between any two awaits,           *)
(* MaxCrashes times; a live worker may be declared dead, MaxTimeouts times.*)
(***************************************************************************)
EXTENDS Naturals, Sequences, FiniteSets

CONSTANTS
  Workers,        \* the processes that run JobProcessor.start
  Tasks,          \* the tasks in the job manager
  JobTypes,       \* jobTypesToProcess, in the order they are polled
  TaskTypes,      \* taskTypesToProcess, in the order they are polled
  KindOf,         \* KindOf[t]: the job type and the task type of t
  SendsCallbacks, \* the handler has a sendCallBacks (ingestion, not export)
  CallbackTasks,  \* the tasks whose job has callback urls
  MaxAttempts,    \* the configured maxAttempts
  FaultyCalls,    \* the calls that may fail
  MaxFaults, MaxCrashes, MaxTimeouts,
  NoTask          \* no task at hand

Calls == {"dequeue", "getJob", "ack", "tracker", "callbackJob", "reject"}

ASSUME ConstantsOK ==
  /\ MaxAttempts \in Nat /\ MaxFaults \in Nat
  /\ MaxCrashes \in Nat  /\ MaxTimeouts \in Nat
  /\ JobTypes \in Seq(STRING) /\ TaskTypes \in Seq(STRING)
  /\ SendsCallbacks \in BOOLEAN
  /\ CallbackTasks \subseteq Tasks
  /\ FaultyCalls \subseteq Calls
  /\ NoTask \notin Tasks

VARIABLES
  \* the job manager
  status, attempts, reason,
  \* the queue client of each worker: the tasks it sends heartbeats for
  beats,
  \* each worker: where start stands, which pair it polls next, the task at
  \* hand, the task's fields as dequeued, the class of the error it caught
  pc, slot, cur, seen, err,
  \* what the outside heard: tasks the tracker was told of, callbacks sent
  told, callbacks,
  \* history: how often a handler ran on a task, and with which attempt numbers
  runs, ran,
  \* faults, crashes and false timeouts so far
  faults, crashes, timeouts

manager == <<status, attempts, reason>>
worker  == <<pc, slot, cur, seen, err>>
heard   == <<told, callbacks>>
history == <<runs, ran>>
bounds  == <<faults, crashes, timeouts>>
vars    == <<manager, beats, worker, heard, history, bounds>>

Status  == {"PENDING", "IN_PROGRESS", "COMPLETED", "FAILED"}
Outcome == {"COMPLETED", "FAILED"}
Reasons == {"none", "error", "exhausted"}
Errors  == {"none", "recoverable", "unrecoverable", "exhausted"}
Points  == {"dequeue", "getJob", "process", "ack", "notifyDone", "callBackDone",
            "reject", "notifyFailed", "callBackFailed", "sleep", "exited"}
Nothing == [attempts |-> 0, reason |-> "none"]

Init ==
  /\ status    = [t \in Tasks |-> "PENDING"]
  /\ attempts  = [t \in Tasks |-> 0]
  /\ reason    = [t \in Tasks |-> "none"]
  /\ beats     = [w \in Workers |-> {}]
  /\ pc        = [w \in Workers |-> "dequeue"]
  /\ slot      = [w \in Workers |-> 1]
  /\ cur       = [w \in Workers |-> NoTask]
  /\ seen      = [w \in Workers |-> Nothing]
  /\ err       = [w \in Workers |-> "none"]
  /\ told      = {}
  /\ callbacks = [t \in Tasks |-> <<>>]
  /\ runs      = [t \in Tasks |-> 0]
  /\ ran       = [t \in Tasks |-> {}]
  /\ faults = 0 /\ crashes = 0 /\ timeouts = 0

-----------------------------------------------------------------------------
(* Helpers: failures, and the moves of the loop between its awaits.        *)

\* A call that may fail fails, and uses up one of the faults.
Fault(call) ==
  /\ call \in FaultyCalls /\ faults < MaxFaults
  /\ faults' = faults + 1
  /\ UNCHANGED <<crashes, timeouts>>

Goto(w, point) == pc' = [pc EXCEPT ![w] = point]

\* The catch block is entered with an error of class e.
Throw(w, e) == Goto(w, "reject") /\ err' = [err EXCEPT ![w] = e]

\* The iteration is over: its local variables are gone.
LetGo(w, point) ==
  /\ Goto(w, point)
  /\ cur'  = [cur EXCEPT ![w] = NoTask]
  /\ seen' = [seen EXCEPT ![w] = Nothing]
  /\ err'  = [err EXCEPT ![w] = "none"]
  /\ slot' = [slot EXCEPT ![w] = 1]

Unrecoverable(e) == e \in {"unrecoverable", "exhausted"}

-----------------------------------------------------------------------------
(* getJobAndTask: the pairs are polled job type by job type.               *)

Polls ==
  [i \in 1 .. Len(JobTypes) * Len(TaskTypes) |->
     <<JobTypes[((i - 1) \div Len(TaskTypes)) + 1],
       TaskTypes[((i - 1) % Len(TaskTypes)) + 1]>>]

Available(kind) == {t \in Tasks : status[t] = "PENDING" /\ KindOf[t] = kind}

\* queueClient.dequeue returned a task of the pair, and sends heartbeats for it.
DequeueTask(w, t) ==
  /\ pc[w] = "dequeue"
  /\ t \in Available(Polls[slot[w]])
  /\ status' = [status EXCEPT ![t] = "IN_PROGRESS"]
  /\ beats'  = [beats EXCEPT ![w] = @ \cup {t}]
  /\ cur'    = [cur EXCEPT ![w] = t]
  /\ seen'   = [seen EXCEPT ![w] = [attempts |-> attempts[t], reason |-> reason[t]]]
  /\ Goto(w, "getJob")
  /\ UNCHANGED <<attempts, reason, slot, err, heard, history, bounds>>

\* It returned nothing: on to the next pair, and to sleep after the last.
DequeueNothing(w) ==
  /\ pc[w] = "dequeue"
  /\ Available(Polls[slot[w]]) = {}
  /\ IF slot[w] < Len(Polls)
       THEN slot' = [slot EXCEPT ![w] = @ + 1] /\ UNCHANGED pc
       ELSE slot' = [slot EXCEPT ![w] = 1] /\ Goto(w, "sleep")
  /\ UNCHANGED <<manager, beats, cur, seen, err, heard, history, bounds>>

\* It threw, and "continue" polls again from the first pair without sleeping.
\* The manager may have handed out a task all the same.
DequeueFails(w) ==
  /\ pc[w] = "dequeue"
  /\ Fault("dequeue")
  /\ \/ UNCHANGED status
     \/ \E t \in Available(Polls[slot[w]]) :
          status' = [status EXCEPT ![t] = "IN_PROGRESS"]
  /\ slot' = [slot EXCEPT ![w] = 1]
  /\ UNCHANGED <<attempts, reason, beats, pc, cur, seen, err, heard, history>>

-----------------------------------------------------------------------------
(* The task's job is fetched, the attempts are checked and the handler     *)
(* starts, with no await after the first.                                  *)

\* Mutant: "more than" for "at least".
ExhaustedTooLate(w) == seen[w].attempts > MaxAttempts

Exhausted(w) == seen[w].attempts >= MaxAttempts

StartHandler(w) ==
  /\ Goto(w, "process")
  /\ runs' = [runs EXCEPT ![cur[w]] = @ + 1]
  /\ ran'  = [ran EXCEPT ![cur[w]] = @ \cup {seen[w].attempts}]
  /\ UNCHANGED err

\* Mutant: a task without attempts left is passed over, and not rejected.
GetJobPassesOver(w) ==
  /\ pc[w] = "getJob"
  /\ \/ Exhausted(w) /\ LetGo(w, "sleep") /\ UNCHANGED history
     \/ ~ Exhausted(w) /\ StartHandler(w) /\ UNCHANGED <<slot, cur, seen>>
  /\ UNCHANGED <<manager, beats, heard, bounds>>

GetJob(w) ==
  /\ pc[w] = "getJob"
  /\ \/ Exhausted(w) /\ Throw(w, "exhausted") /\ UNCHANGED history
     \/ ~ Exhausted(w) /\ StartHandler(w)
  /\ UNCHANGED <<manager, beats, slot, cur, seen, heard, bounds>>

\* jobAndTask is still undefined in the catch block: the loop polls again and
\* the queue client goes on sending heartbeats for a task nobody will reject.
GetJobFails(w) ==
  /\ pc[w] = "getJob"
  /\ Fault("getJob")
  /\ LetGo(w, "dequeue")
  /\ UNCHANGED <<manager, beats, heard, history>>

Process(w) ==
  /\ pc[w] = "process"
  /\ \/ Goto(w, "ack") /\ UNCHANGED err
     \/ \E e \in {"recoverable", "unrecoverable"} : Throw(w, e)
  /\ UNCHANGED <<manager, beats, slot, cur, seen, heard, history, bounds>>

-----------------------------------------------------------------------------
(* notifyOnSuccess and the callbacks of a completed task.  A call that     *)
(* throws here sends the loop to its catch block with a recoverable error. *)

StopBeat(w) == beats' = [beats EXCEPT ![w] = @ \ {cur[w]}]

SetStatus(t, s) == status' = [status EXCEPT ![t] = s]

Ack(w) ==
  /\ pc[w] = "ack"
  /\ StopBeat(w)
  /\ SetStatus(cur[w], "COMPLETED")
  /\ Goto(w, "notifyDone")
  /\ UNCHANGED <<attempts, reason, slot, cur, seen, err, heard, history, bounds>>

\* Mutant: an ack that failed is taken for one that succeeded.
AckFailsSilently(w) ==
  /\ pc[w] = "ack"
  /\ Fault("ack")
  /\ StopBeat(w)
  /\ Goto(w, "notifyDone")
  /\ UNCHANGED <<manager, slot, cur, seen, err, heard, history>>

AckFails(w) ==
  /\ pc[w] = "ack"
  /\ Fault("ack")
  /\ StopBeat(w)
  /\ UNCHANGED status \/ SetStatus(cur[w], "COMPLETED")
  /\ Throw(w, "recoverable")
  /\ UNCHANGED <<attempts, reason, slot, cur, seen, heard, history>>

NotifyDone(w) ==
  /\ pc[w] = "notifyDone"
  /\ told' = told \cup {cur[w]}
  /\ IF SendsCallbacks
       THEN Goto(w, "callBackDone") /\ UNCHANGED <<slot, cur, seen, err>>
       ELSE LetGo(w, "sleep")
  /\ UNCHANGED <<manager, beats, callbacks, history, bounds>>

\* Mutant: the tracker's error is swallowed.
NotifyDoneFailsSilently(w) ==
  /\ pc[w] = "notifyDone"
  /\ Fault("tracker")
  /\ Goto(w, "callBackDone")
  /\ UNCHANGED <<manager, beats, slot, cur, seen, err, heard, history>>

NotifyDoneFails(w) ==
  /\ pc[w] = "notifyDone"
  /\ Fault("tracker")
  /\ told' = told \/ told' = told \cup {cur[w]}
  /\ Throw(w, "recoverable")
  /\ UNCHANGED <<manager, beats, slot, cur, seen, callbacks, history>>

\* sendCallBacks: the job is fetched with its tasks, and unless it has no
\* callback urls the outcome is sent to them; a url that fails is only logged.
Send(t, outcome) ==
  callbacks' = IF t \in CallbackTasks
                 THEN [callbacks EXCEPT ![t] = Append(@, outcome)]
                 ELSE callbacks

CallBackDone(w) ==
  /\ pc[w] = "callBackDone"
  /\ Send(cur[w], "COMPLETED")
  /\ LetGo(w, "sleep")
  /\ UNCHANGED <<manager, beats, told, history, bounds>>

\* Mutant: the client does not catch the error of a callback url.
CallBackThrowsAfterSend(w) ==
  /\ pc[w] = "callBackDone"
  /\ Fault("callbackJob")
  /\ Send(cur[w], "COMPLETED")
  /\ Throw(w, "recoverable")
  /\ UNCHANGED <<manager, beats, slot, cur, seen, told, history>>

CallBackDoneFails(w) ==
  /\ pc[w] = "callBackDone"
  /\ Fault("callbackJob")
  /\ Throw(w, "recoverable")
  /\ UNCHANGED <<manager, beats, slot, cur, seen, heard, history>>

-----------------------------------------------------------------------------
(* The catch block.  What it throws leaves start: the process exits.       *)

\* Mutants: the error's class for its message; the reason always overwritten.
MessageIsClass(w) == err[w]
MessageAlwaysNew(w) == IF err[w] # "exhausted" THEN "error" ELSE "exhausted"

\* getErrorMessages: running out of attempts does not hide the reason the
\* task already carries.
Message(w) ==
  IF err[w] # "exhausted" THEN "error"
  ELSE IF seen[w].reason # "none" THEN seen[w].reason ELSE "exhausted"

\* Mutant: isTaskRecoverable is not passed on.
RejectAsRecoverable(w) ==
  LET t == cur[w] IN
  /\ reason' = [reason EXCEPT ![t] = Message(w)]
  /\ SetStatus(t, "PENDING")
  /\ attempts' = [attempts EXCEPT ![t] = @ + 1]

\* queueClient.reject, the manager's part.
ApplyReject(w) ==
  LET t == cur[w] IN
  /\ reason' = [reason EXCEPT ![t] = Message(w)]
  /\ IF Unrecoverable(err[w])
       THEN SetStatus(t, "FAILED") /\ UNCHANGED attempts
       ELSE /\ SetStatus(t, "PENDING")
            /\ attempts' = [attempts EXCEPT ![t] = @ + 1]

Reject(w) ==
  /\ pc[w] = "reject"
  /\ StopBeat(w)
  /\ ApplyReject(w)
  /\ IF Unrecoverable(err[w])
       THEN Goto(w, "notifyFailed") /\ UNCHANGED <<slot, cur, seen, err>>
       ELSE LetGo(w, "sleep")
  /\ UNCHANGED <<heard, history, bounds>>

\* A process that is gone sends no heartbeats.
Exit(w) == LetGo(w, "exited") /\ beats' = [beats EXCEPT ![w] = {}]

RejectFails(w) ==
  /\ pc[w] = "reject"
  /\ Fault("reject")
  /\ ApplyReject(w) \/ UNCHANGED manager
  /\ Exit(w)
  /\ UNCHANGED <<heard, history>>

NotifyFailed(w) ==
  /\ pc[w] = "notifyFailed"
  /\ told' = told \cup {cur[w]}
  /\ IF SendsCallbacks /\ err[w] # "exhausted"  \* is there a jobHandler?
       THEN Goto(w, "callBackFailed") /\ UNCHANGED <<slot, cur, seen, err>>
       ELSE LetGo(w, "sleep")
  /\ UNCHANGED <<manager, beats, callbacks, history, bounds>>

\* Mutant: an error of the catch block is caught and rejected like any other.
NotifyFailedCaught(w) ==
  /\ pc[w] = "notifyFailed"
  /\ Fault("tracker")
  /\ Throw(w, "recoverable")
  /\ UNCHANGED <<manager, beats, slot, cur, seen, heard, history>>

NotifyFailedFails(w) ==
  /\ pc[w] = "notifyFailed"
  /\ Fault("tracker")
  /\ told' = told \/ told' = told \cup {cur[w]}
  /\ Exit(w)
  /\ UNCHANGED <<manager, callbacks, history>>

CallBackFailed(w) ==
  /\ pc[w] = "callBackFailed"
  /\ Send(cur[w], "FAILED")
  /\ LetGo(w, "sleep")
  /\ UNCHANGED <<manager, beats, told, history, bounds>>

CallBackFailedFails(w) ==
  /\ pc[w] = "callBackFailed"
  /\ Fault("callbackJob")
  /\ Exit(w)
  /\ UNCHANGED <<manager, heard, history>>

\* setTimeoutPromise(dequeueIntervalMs)
WakeUp(w) ==
  /\ pc[w] = "sleep"
  /\ Goto(w, "dequeue")
  /\ UNCHANGED <<manager, beats, slot, cur, seen, err, heard, history, bounds>>

-----------------------------------------------------------------------------
(* The surroundings: processes die and are started again, and the job      *)
(* manager takes back the tasks of workers it believes dead.               *)

Crash(w) ==
  /\ pc[w] # "exited" /\ crashes < MaxCrashes
  /\ crashes' = crashes + 1
  /\ Exit(w)
  /\ UNCHANGED <<manager, heard, history, faults, timeouts>>

Restart(w) ==
  /\ pc[w] = "exited"
  /\ Goto(w, "dequeue")
  /\ UNCHANGED <<manager, beats, slot, cur, seen, err, heard, history, bounds>>

Requeue(t) ==
  /\ status[t] = "IN_PROGRESS"
  /\ SetStatus(t, "PENDING")
  /\ attempts' = [attempts EXCEPT ![t] = @ + 1]
  /\ UNCHANGED <<reason, beats, worker, heard, history, faults, crashes>>

\* No live process works on the task or sends heartbeats for it.
Release(t) ==
  /\ \A w \in Workers : cur[w] # t /\ t \notin beats[w]
  /\ Requeue(t) /\ UNCHANGED timeouts

\* The heartbeats of a live worker did not arrive in time.
FalseTimeout(t) ==
  /\ timeouts < MaxTimeouts
  /\ timeouts' = timeouts + 1
  /\ Requeue(t)

-----------------------------------------------------------------------------

Work(w) ==
  \/ (\E t \in Tasks : DequeueTask(w, t)) \/ DequeueNothing(w)
  \/ GetJob(w) \/ Process(w)
  \/ Ack(w) \/ NotifyDone(w) \/ CallBackDone(w)
  \/ Reject(w) \/ NotifyFailed(w) \/ CallBackFailed(w)
  \/ WakeUp(w) \/ Restart(w)

Failure(w) ==
  \/ DequeueFails(w) \/ GetJobFails(w) \/ AckFails(w) \/ NotifyDoneFails(w)
  \/ CallBackDoneFails(w) \/ RejectFails(w) \/ NotifyFailedFails(w)
  \/ CallBackFailedFails(w) \/ Crash(w)

Next ==
  \/ \E w \in Workers : Work(w) \/ Failure(w)
  \/ \E t \in Tasks : Release(t) \/ FalseTimeout(t)

Spec == Init /\ [][Next]_vars

\* The event loop runs on, calls that do not fail return, an exited container
\* is started again, and the job manager keeps looking for inactive tasks.
Fairness ==
  /\ \A w \in Workers : WF_vars(Work(w))
  /\ \A t \in Tasks : WF_vars(Release(t))

FairSpec == Spec /\ Fairness
-----------------------------------------------------------------------------
(* Properties.                                                             *)

TypeOK ==
  /\ status    \in [Tasks -> Status]
  /\ attempts  \in [Tasks -> Nat]
  /\ reason    \in [Tasks -> Reasons]
  /\ beats     \in [Workers -> SUBSET Tasks]
  /\ pc        \in [Workers -> Points]
  /\ slot      \in [Workers -> Nat \ {0}]
  /\ cur       \in [Workers -> Tasks \cup {NoTask}]
  /\ seen      \in [Workers -> [attempts : Nat, reason : Reasons]]
  /\ err       \in [Workers -> Errors]
  /\ told      \in SUBSET Tasks
  /\ callbacks \in [Tasks -> Seq(Outcome)]
  /\ runs      \in [Tasks -> Nat]
  /\ ran       \in [Tasks -> SUBSET Nat]
  /\ faults \in Nat /\ crashes \in Nat /\ timeouts \in Nat

\* Whatever fails, crashes or times out, a handler runs at most maxAttempts
\* times on a task (checkTaskAttempts, against the attempts as dequeued).
AttemptsBounded == \A t \in Tasks : runs[t] <= MaxAttempts

\* The workers that have the task at hand.
Holders(t) == {w \in Workers : cur[w] = t}

\* Every false timeout can put one more worker on a task, and nothing else
\* can: with none, a task is never handed out while a worker still has it,
\* in whichever of its awaits (dequeue, ack and reject, l.77, 105, 137).
HoldersBounded ==
  \A t \in Tasks :
    Cardinality(Holders(t)) + (IF status[t] = "PENDING" THEN 1 ELSE 0)
      <= 1 + timeouts

\* As long as no live worker is declared dead, the callback urls of a task
\* hear of one outcome, once, and it is the one the job manager keeps for
\* good: neither a retry nor a crash comes after it (start, l.60-81).
CallbackOnceAndFinal ==
  \A t \in Tasks : callbacks[t] # <<>> => callbacks[t] = <<status[t]>>

\* A task rejected as unrecoverable is never run, retried or acknowledged
\* again (l.76-82), as long as no live worker is declared dead.
FailedIsFinal ==
  [][\A t \in Tasks : status[t] = "FAILED" => status'[t] = "FAILED"]_vars

\* The error of a failed attempt stays the reason of the task when it is given
\* up for reaching its maximum (getErrorMessages works on the reason dequeued).
CauseSurvives ==
  [][\A t \in Tasks : reason[t] = "error" => reason'[t] = "error"]_vars

\* The outcome the callback urls were given first.
Answered ==
  [t \in Tasks |-> IF callbacks[t] = <<>> THEN "none" ELSE callbacks[t][1]]

Lifecycle == INSTANCE TaskLifecycle WITH answer <- Answered

\* As long as no live worker is declared dead, the loop, its retries and its
\* crashes included, implements the lifecycle of a task.
ImplementsLifecycle == Lifecycle!Spec

Finished(t) == status[t] \in Outcome

\* Every task is completed or failed in the end and stays so, whatever else
\* fails, crashes or is retried: attempts run out.  README: "Automatic
\* recovery from failures".
EventuallyFinished == \A t \in Tasks : <>[]Finished(t)

NobodyExits == [](\A w \in Workers : pc[w] # "exited")

\* Unless a process exits, the tracker is told of every task, and a completed
\* task with callback urls is called back: a call that fails on the way there
\* makes the task run again (l.63-64, 77).
OutcomeIsReported ==
  NobodyExits =>
    \A t \in Tasks :
      /\ <>(t \in told)
      /\ (SendsCallbacks /\ t \in CallbackTasks /\ <>[](status[t] = "COMPLETED"))
           => <>(callbacks[t] # <<>>)

-----------------------------------------------------------------------------
(* What tests and docs say, and the code does not do.                      *)

\* "should complete task successfully even when callback fails"
\* (validationTaskFlow.spec.ts:349): a completed task stays completed.
CompletedIsFinal ==
  [][\A t \in Tasks : status[t] = "COMPLETED" => status'[t] = "COMPLETED"]_vars

\* "should send error callback when task reaches max attempts and callback
\* array exist" (ingestionHandler.spec.ts:826): once no worker has it at hand
\* any more, and nothing failed, crashed or timed out, the callback was sent.
ExhaustedIsCalledBack ==
  \A t \in CallbackTasks :
    /\ status[t] = "FAILED" /\ attempts[t] >= MaxAttempts
    /\ Holders(t) = {} /\ faults + crashes + timeouts = 0
    => callbacks[t] # <<>>

=============================================================================
