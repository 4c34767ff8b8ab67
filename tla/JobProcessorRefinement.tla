----------------------- MODULE JobProcessorRefinement -----------------------
(***************************************************************************)
(* JobProcessor implements TaskLifecycle, for any number of workers, tasks,*)
(* faults and crashes, as long as no live worker is declared dead; and the *)
(* reason of a task is not lost on the way.                                *)
(***************************************************************************)
EXTENDS JobProcessorOwnership

\* Where the fields of the task at hand are still as they were dequeued.
Trying == {"getJob", "process", "ack", "notifyDone", "callBackDone", "reject"}

Recalls(w) == pc[w] \in Trying =>
  seen[w].attempts = attempts[cur[w]] /\ seen[w].reason = reason[cur[w]]

ToldOf(w) == pc[w] \in {"callBackDone", "callBackFailed"} => cur[w] \in told

LifeInv == \A w \in Workers : Recalls(w) /\ ToldOf(w)

\* A step of one worker that touches the counter and the reason of no other task
\* than its own keeps what the other workers recall.
LEMMA RecallStep ==
  ASSUME TypeInv, TypeInv', OwnInv, LifeInv, NEW w \in Workers, told \subseteq told',
         \A v \in Workers \ {w} : pc'[v] = pc[v] /\ cur'[v] = cur[v] /\ seen'[v] = seen[v],
         \A t \in Tasks : t # cur[w] => attempts'[t] = attempts[t] /\ reason'[t] = reason[t],
         Recalls(w)', ToldOf(w)'
  PROVE  LifeInv'
<1> SUFFICES ASSUME NEW v \in Workers \ {w} PROVE Recalls(v)' /\ ToldOf(v)'
  BY DEF LifeInv
<1>1. ToldOf(v)'
  BY DEF LifeInv, ToldOf
<1>2. Recalls(v)'
  <2> SUFFICES ASSUME pc[v] \in Trying
               PROVE  /\ seen[v].attempts = attempts'[cur[v]]
                      /\ seen[v].reason = reason'[cur[v]]
    BY DEF Recalls
  <2>1. cur[v] \in Tasks /\ cur[v] # cur[w]
    BY ConstantsOK DEF TypeInv, AtHand, Holding, Trying, OwnInv, Alone
  <2>. QED
    BY <2>1 DEF LifeInv, Recalls
<1>. QED
  BY <1>1, <1>2

\* No step but that of its own worker changes what a worker recalls of its task.
LEMMA StepLife ==
  ASSUME MaxTimeouts = 0
  PROVE  TypeInv /\ TypeInv' /\ OwnInv /\ LifeInv /\ [Next]_vars => LifeInv'
<1> SUFFICES ASSUME TypeInv, TypeInv', OwnInv, LifeInv, [Next]_vars PROVE LifeInv'
  OBVIOUS
<1>0. \A w \in Workers : Recalls(w) /\ ToldOf(w)
  BY DEF LifeInv
<1>1. ASSUME NEW w \in Workers, NEW t \in Tasks, DequeueTask(w, t) PROVE LifeInv'
  <2>1. /\ UNCHANGED <<attempts, reason, told>> /\ pc'[w] = "getJob" /\ cur'[w] = t
        /\ seen'[w] = [attempts |-> attempts[t], reason |-> reason[t]]
        /\ \A v \in Workers \ {w} : pc'[v] = pc[v] /\ cur'[v] = cur[v] /\ seen'[v] = seen[v]
    BY <1>1 DEF DequeueTask, Goto, TypeInv, TypeOK, heard
  <2>2. Recalls(w)' /\ ToldOf(w)'
    BY <2>1 DEF Recalls, ToldOf
  <2>. QED
    BY <2>1, <2>2, RecallStep
<1>2. ASSUME NEW w \in Workers,
             GetJob(w) \/ Process(w) \/ Ack(w) \/ AckFails(w) \/ NotifyDoneFails(w)
             \/ CallBackDoneFails(w)
      PROVE  LifeInv'
  <2>1. /\ UNCHANGED <<attempts, reason, cur, seen>> /\ told \subseteq told'
        /\ pc[w] \in Trying /\ pc'[w] \notin {"callBackDone", "callBackFailed"}
        /\ \A v \in Workers \ {w} : pc'[v] = pc[v]
    BY <1>2 DEF GetJob, Process, Ack, AckFails, NotifyDoneFails, CallBackDoneFails,
                StartHandler, Throw, Goto, TypeInv, TypeOK, manager, heard, Trying
  <2>2. Recalls(w)' /\ ToldOf(w)'
    BY <1>0, <2>1 DEF Recalls, ToldOf
  <2>. QED
    BY <2>1, <2>2, RecallStep
<1>3. ASSUME NEW w \in Workers, UNCHANGED <<attempts, reason>>, told \subseteq told',
             NEW p \in Points \ Holding, LetGo(w, p)
      PROVE  LifeInv'
  <2>1. /\ pc'[w] = p
        /\ \A v \in Workers \ {w} : pc'[v] = pc[v] /\ cur'[v] = cur[v] /\ seen'[v] = seen[v]
    BY <1>3 DEF LetGo, Goto, TypeInv, TypeOK
  <2>2. Recalls(w)' /\ ToldOf(w)'
    BY <2>1 DEF Recalls, ToldOf, Trying, Holding
  <2>. QED
    BY <1>3, <2>1, <2>2, RecallStep
<1>4. ASSUME NEW w \in Workers, NotifyDone(w) \/ NotifyFailed(w) PROVE LifeInv'
  <2>1. UNCHANGED <<attempts, reason>> /\ told' = told \cup {cur[w]}
    BY <1>4 DEF NotifyDone, NotifyFailed, manager
  <2>2. CASE LetGo(w, "sleep")
    BY <1>3, <2>1, <2>2 DEF Points, Holding
  <2>3. ASSUME NEW p \in {"callBackDone", "callBackFailed"}, Goto(w, p),
               p = "callBackDone" => pc[w] = "notifyDone", UNCHANGED <<cur, seen>>
        PROVE  LifeInv'
    <3>1. pc'[w] = p /\ \A v \in Workers \ {w} : pc'[v] = pc[v]
      BY <2>3 DEF Goto, TypeInv, TypeOK
    <3>2. Recalls(w)' /\ ToldOf(w)'
      BY <1>0, <2>1, <2>3, <3>1 DEF Recalls, ToldOf, Trying
    <3>. QED
      BY <2>1, <2>3, <3>1, <3>2, RecallStep
  <2>. QED
    BY <1>4, <2>2, <2>3 DEF NotifyDone, NotifyFailed
<1>5. ASSUME NEW w \in Workers, Reject(w) \/ RejectFails(w) PROVE LifeInv'
  <2>1. told' = told /\ (ApplyReject(w) \/ UNCHANGED <<attempts, reason>>)
    BY <1>5 DEF Reject, RejectFails, heard, manager
  <2>2. \A t \in Tasks : t # cur[w] => attempts'[t] = attempts[t] /\ reason'[t] = reason[t]
    BY <2>1 DEF ApplyReject, TypeInv, TypeOK
  <2>3. \A v \in Workers \ {w} : pc'[v] = pc[v] /\ cur'[v] = cur[v] /\ seen'[v] = seen[v]
    <3>1. CASE Goto(w, "notifyFailed") /\ UNCHANGED <<cur, seen>>
      BY <3>1 DEF Goto, TypeInv, TypeOK
    <3>2. ASSUME NEW p, LetGo(w, p)
          PROVE  \A v \in Workers \ {w} : pc'[v] = pc[v] /\ cur'[v] = cur[v] /\ seen'[v] = seen[v]
      BY <3>2 DEF LetGo, Goto, TypeInv, TypeOK
    <3>. QED
      BY <1>5, <3>1, <3>2 DEF Reject, RejectFails, Exit
  <2>4. pc'[w] \in {"notifyFailed", "sleep", "exited"}
    BY <1>5 DEF Reject, RejectFails, Exit, LetGo, Goto, TypeInv, TypeOK
  <2>5. Recalls(w)' /\ ToldOf(w)'
    BY <2>4 DEF Recalls, ToldOf, Trying
  <2>. QED
    BY <2>1, <2>2, <2>3, <2>5, RecallStep
<1>6. ASSUME NEW w \in Workers,
             \/ CallBackDone(w) \/ CallBackFailed(w) \/ GetJobFails(w)
             \/ NotifyFailedFails(w) \/ CallBackFailedFails(w) \/ Crash(w)
      PROVE  LifeInv'
  <2>1. /\ UNCHANGED <<attempts, reason>> /\ told \subseteq told'
        /\ \E p \in Points \ Holding : LetGo(w, p)
    BY <1>6 DEF CallBackDone, CallBackFailed, GetJobFails, NotifyFailedFails,
                CallBackFailedFails, Crash, Exit, manager, heard, Points, Holding
  <2>. QED
    BY <1>3, <2>1
<1>7. ASSUME NEW w \in Workers, DequeueNothing(w) \/ DequeueFails(w) \/ WakeUp(w) \/ Restart(w)
      PROVE  LifeInv'
  <2>1. /\ UNCHANGED <<attempts, reason, cur, seen, told>>
        /\ pc'[w] \in {"dequeue", "sleep"} /\ \A v \in Workers \ {w} : pc'[v] = pc[v]
    BY <1>7 DEF DequeueNothing, DequeueFails, WakeUp, Restart, Goto, TypeInv, TypeOK,
                manager, heard
  <2>2. Recalls(w)' /\ ToldOf(w)'
    BY <2>1 DEF Recalls, ToldOf, Trying
  <2>. QED
    BY <2>1, <2>2, RecallStep
<1>8. ASSUME NEW t \in Tasks, Release(t) PROVE LifeInv'
  <2>1. /\ UNCHANGED <<reason, pc, cur, seen, told>> /\ \A w \in Workers : cur[w] # t
        /\ \A u \in Tasks : u # t => attempts'[u] = attempts[u]
    BY <1>8 DEF Release, Requeue, worker, heard, TypeInv, TypeOK
  <2>. QED
    BY <2>1 DEF LifeInv, Recalls, ToldOf, TypeInv, AtHand, Trying, Holding
<1>9. ASSUME NEW t \in Tasks, FalseTimeout(t) PROVE LifeInv'
  BY <1>9 DEF FalseTimeout, OwnInv
<1>10. CASE UNCHANGED vars
  BY <1>10 DEF vars, manager, worker, heard, LifeInv, Recalls, ToldOf
<1>. QED
  BY <1>1, <1>2, <1>4, <1>5, <1>6, <1>7, <1>8, <1>9, <1>10 DEF Next, Work, Failure

-----------------------------------------------------------------------------
(* The reason of a task.                                                   *)

\* Only the holder of a task replaces its reason, and it knows the one there is.
LEMMA StepCause ==
  ASSUME TypeInv, OwnInv, LifeInv, [Next]_vars, NEW t \in Tasks, reason[t] = "error"
  PROVE  reason'[t] = "error"
<1>1. ASSUME NEW w \in Workers, pc[w] = "reject", ApplyReject(w) PROVE reason'[t] = "error"
  <2>1. cur[w] = t => Message(w) = "error"
    BY <1>1 DEF LifeInv, Recalls, Trying, Message
  <2>. QED
    BY <1>1, <2>1 DEF ApplyReject, TypeInv, TypeOK
<1>2. CASE UNCHANGED reason
  BY <1>2
<1>. QED
  BY <1>1, <1>2
     DEF Next, Work, Failure, Reject, RejectFails, manager, DequeueTask, DequeueNothing,
         DequeueFails, GetJob, GetJobFails, Process, Ack, AckFails, NotifyDone,
         NotifyDoneFails, CallBackDone, CallBackDoneFails, NotifyFailed, NotifyFailedFails,
         CallBackFailed, CallBackFailedFails, WakeUp, Restart, Crash, Release,
         FalseTimeout, Requeue, vars

-----------------------------------------------------------------------------
(* The steps of the lifecycle.                                             *)

\* What the loop leaves alone, the lifecycle does not see.
LEMMA Stutter ==
  ASSUME UNCHANGED <<status, attempts, runs, told, callbacks>>
  PROVE  UNCHANGED Lifecycle!vars
BY DEF Lifecycle!vars, Answered

\* A task whose urls heard nothing was given no answer.
LEMMA Unanswered ==
  ASSUME NEW t \in Tasks, callbacks[t] = <<>> PROVE Answered[t] = "none"
BY DEF Answered

\* A callback sends the status of a task the tracker was told of, for the first time.
LEMMA AnswerStep ==
  ASSUME TypeInv, OwnInv, LifeInv, NEW w \in Workers, CallBackDone(w) \/ CallBackFailed(w)
  PROVE  [Lifecycle!Next]_Lifecycle!vars
<1> DEFINE t == cur[w]
<1>1. t \in Tasks /\ t \in told /\ callbacks[t] = <<>>
  BY HeldIsSilent
     DEF CallBackDone, CallBackFailed, TypeInv, AtHand, Holding, LifeInv, ToldOf
<1>2. /\ status[t] \in Outcome /\ Send(t, status[t])
      /\ UNCHANGED <<status, attempts, runs, told>>
  <2>1. status[t] = IF pc[w] = "callBackDone" THEN "COMPLETED" ELSE "FAILED"
    BY DEF CallBackDone, CallBackFailed, OwnInv, Owned, OwnStatus, Holding
  <2>. QED
    BY <2>1 DEF CallBackDone, CallBackFailed, Outcome, manager, history
<1>3. CASE t \notin CallbackTasks
  BY <1>2, <1>3, Stutter DEF Send
<1>4. CASE t \in CallbackTasks
  <2>1. callbacks' = [callbacks EXCEPT ![t] = <<status[t]>>]
    BY <1>1, <1>2, <1>4 DEF Send
  <2>2. Answered' = [Answered EXCEPT ![t] = status[t]]
    BY <1>1, <2>1 DEF Answered, TypeInv, TypeOK
  <2>3. Lifecycle!Answer(t)
    BY <1>1, <1>2, <2>2, Unanswered DEF Lifecycle!Answer, Lifecycle!Finished, Outcome
  <2>. QED
    BY <1>1, <2>3 DEF Lifecycle!Next
<1>. QED
  BY <1>3, <1>4

\* A rejection finishes the task or gives it back to the queue, unanswered.
LEMMA RejectStep ==
  ASSUME TypeInv, OwnInv, NEW w \in Workers, pc[w] = "reject", ApplyReject(w),
         UNCHANGED <<runs, told, callbacks>>
  PROVE  Lifecycle!Next
<1> DEFINE t == cur[w]
<1>1. /\ t \in Tasks /\ Answered[t] = "none" /\ Answered' = Answered
      /\ status[t] = "IN_PROGRESS" \/ (status[t] = "COMPLETED" /\ ~ Unrecoverable(err[w]))
  BY HeldIsSilent, Unanswered
     DEF TypeInv, AtHand, Holding, OwnInv, Owned, OwnStatus, Answered
<1>2. CASE Unrecoverable(err[w])
  <2>1. Lifecycle!Finish(t)
    BY <1>1, <1>2 DEF ApplyReject, SetStatus, Lifecycle!Finish
  <2>. QED
    BY <1>1, <2>1 DEF Lifecycle!Next
<1>3. CASE ~ Unrecoverable(err[w])
  <2>1. Lifecycle!Requeue(t)
    BY <1>1, <1>3 DEF ApplyReject, SetStatus, Lifecycle!Requeue
  <2>. QED
    BY <1>1, <2>1 DEF Lifecycle!Next
<1>. QED
  BY <1>2, <1>3

\* A handler runs on a task that has attempts left.
LEMMA RunStep ==
  ASSUME TypeInv, TypeInv', OwnInv, LifeInv, AttemptsBounded', NEW w \in Workers, GetJob(w)
  PROVE  [Lifecycle!Next]_Lifecycle!vars
<1> DEFINE t == cur[w]
<1>1. t \in Tasks /\ status[t] = "IN_PROGRESS" /\ seen[w].attempts = attempts[t]
  BY DEF GetJob, TypeInv, AtHand, Holding, OwnInv, Owned, OwnStatus, LifeInv, Recalls, Trying
<1>2. /\ UNCHANGED <<status, attempts, told, callbacks>> /\ Answered' = Answered
      /\ UNCHANGED runs \/ (StartHandler(w) /\ ~ Exhausted(w))
  BY DEF GetJob, manager, heard, history, Answered
<1>3. CASE UNCHANGED runs
  BY <1>2, <1>3, Stutter
<1>4. CASE StartHandler(w) /\ ~ Exhausted(w)
  <2>1. runs' = [runs EXCEPT ![t] = runs[t] + 1]
    BY <1>4 DEF StartHandler
  <2>2. attempts[t] < MaxAttempts /\ runs[t] < MaxAttempts
    <3>1. attempts[t] \in Nat /\ runs[t] \in Nat /\ runs'[t] = runs[t] + 1
      BY <1>1, <2>1 DEF TypeInv, TypeOK
    <3>2. runs'[t] <= MaxAttempts
      BY <1>1 DEF AttemptsBounded
    <3>. QED
      BY <1>1, <1>4, <3>1, <3>2, ConstantsOK DEF Exhausted
  <2>3. Lifecycle!Run(t)
    BY <1>1, <1>2, <2>1, <2>2 DEF Lifecycle!Run
  <2>. QED
    BY <1>1, <2>3 DEF Lifecycle!Next
<1>. QED
  BY <1>2, <1>3, <1>4

\* Every step of the loop and its surroundings is one of the lifecycle, or none.
LEMMA StepLifecycle ==
  ASSUME MaxTimeouts = 0, TypeInv, TypeInv', OwnInv, LifeInv, AttemptsBounded', [Next]_vars
  PROVE  [Lifecycle!Next]_Lifecycle!vars
<1> DEFINE Good == [Lifecycle!Next]_Lifecycle!vars
<1> HIDE DEF Good
<1>. SUFFICES Good
  BY DEF Good
<1>1. CASE UNCHANGED <<status, attempts, runs, told, callbacks>>
  BY <1>1, Stutter DEF Good
<1>2. ASSUME NEW t \in Tasks, status[t] = "PENDING", SetStatus(t, "IN_PROGRESS"),
             UNCHANGED <<attempts, runs, told, callbacks>>
      PROVE  Good
  <2>1. Lifecycle!Take(t)
    BY <1>2 DEF Lifecycle!Take, SetStatus, Answered
  <2>. QED
    BY <2>1 DEF Good, Lifecycle!Next
<1>3. ASSUME NEW w \in Workers, pc[w] = "ack", SetStatus(cur[w], "COMPLETED"),
             UNCHANGED <<attempts, runs, told, callbacks>>
      PROVE  Good
  <2>1. cur[w] \in Tasks /\ status[cur[w]] = "IN_PROGRESS"
    BY <1>3 DEF TypeInv, AtHand, Holding, OwnInv, Owned, OwnStatus
  <2>2. Lifecycle!Finish(cur[w])
    BY <1>3, <2>1 DEF Lifecycle!Finish, SetStatus, Answered
  <2>. QED
    BY <2>1, <2>2 DEF Good, Lifecycle!Next
<1>4. ASSUME NEW w \in Workers, pc[w] \in {"notifyDone", "notifyFailed"},
             told' = told \cup {cur[w]}, UNCHANGED <<status, attempts, runs, callbacks>>
      PROVE  Good
  <2>1. cur[w] \in Tasks /\ status[cur[w]] \in Outcome
    BY <1>4 DEF TypeInv, AtHand, Holding, OwnInv, Owned, OwnStatus, Outcome
  <2>2. Lifecycle!Tell(cur[w])
    BY <1>4, <2>1 DEF Lifecycle!Tell, Lifecycle!Finished, Outcome, Answered
  <2>. QED
    BY <2>1, <2>2 DEF Good, Lifecycle!Next
<1>5. ASSUME NEW t \in Tasks, Release(t) PROVE Good
  <2>1. callbacks[t] = <<>>
    BY <1>5 DEF Release, Requeue, OwnInv, Settled, Outcome
  <2>2. Lifecycle!Requeue(t)
    BY <1>5, <2>1, Unanswered
       DEF Release, Requeue, SetStatus, heard, history, Lifecycle!Requeue, Answered
  <2>. QED
    BY <2>2 DEF Good, Lifecycle!Next
<1>6. ASSUME NEW w \in Workers, (\E t \in Tasks : DequeueTask(w, t)) \/ DequeueFails(w)
      PROVE  Good
  <2>1. UNCHANGED <<attempts, runs, told, callbacks>>
    BY <1>6 DEF DequeueTask, DequeueFails, heard, history
  <2>2. \/ UNCHANGED status
        \/ \E t \in Tasks : status[t] = "PENDING" /\ SetStatus(t, "IN_PROGRESS")
    BY <1>6 DEF DequeueTask, DequeueFails, Available, SetStatus
  <2>. QED
    BY <1>1, <1>2, <2>1, <2>2
<1>7. ASSUME NEW w \in Workers, GetJob(w) PROVE Good
  BY <1>7, RunStep DEF Good
<1>8. ASSUME NEW w \in Workers, Ack(w) \/ AckFails(w) PROVE Good
  BY <1>1, <1>3, <1>8 DEF Ack, AckFails, heard, history
<1>9. ASSUME NEW w \in Workers,
             NotifyDone(w) \/ NotifyDoneFails(w) \/ NotifyFailed(w) \/ NotifyFailedFails(w)
      PROVE  Good
  BY <1>1, <1>4, <1>9
     DEF NotifyDone, NotifyDoneFails, NotifyFailed, NotifyFailedFails, manager, history
<1>10. ASSUME NEW w \in Workers, CallBackDone(w) \/ CallBackFailed(w) PROVE Good
  BY <1>10, AnswerStep DEF Good
<1>11. ASSUME NEW w \in Workers, Reject(w) \/ RejectFails(w) PROVE Good
  <2>1. pc[w] = "reject" /\ UNCHANGED <<runs, told, callbacks>>
    BY <1>11 DEF Reject, RejectFails, heard, history
  <2>2. CASE ApplyReject(w)
    BY <2>1, <2>2, RejectStep DEF Good
  <2>3. CASE UNCHANGED manager
    BY <1>1, <2>1, <2>3 DEF manager
  <2>. QED
    BY <1>11, <2>2, <2>3 DEF Reject, RejectFails
<1>12. ASSUME NEW w \in Workers,
              \/ DequeueNothing(w) \/ Process(w) \/ WakeUp(w) \/ Restart(w) \/ GetJobFails(w)
              \/ CallBackDoneFails(w) \/ CallBackFailedFails(w) \/ Crash(w)
       PROVE  Good
  BY <1>1, <1>12
     DEF DequeueNothing, Process, WakeUp, Restart, GetJobFails, CallBackDoneFails,
         CallBackFailedFails, Crash, manager, heard, history
<1>13. ASSUME NEW t \in Tasks, FalseTimeout(t) PROVE Good
  BY <1>13 DEF FalseTimeout, OwnInv
<1>14. CASE UNCHANGED vars
  BY <1>1, <1>14 DEF vars, manager, heard, history
<1>. QED
  BY <1>5, <1>6, <1>7, <1>8, <1>9, <1>10, <1>11, <1>12, <1>13, <1>14 DEF Next, Work, Failure

\* The first state: nobody recalls anything, and nobody was told anything.
LEMMA InitLife == Init => LifeInv /\ Lifecycle!Init
BY DEF Init, LifeInv, Recalls, ToldOf, Trying, Lifecycle!Init, Answered

\* As long as no live worker is declared dead, the error of a failed attempt stays
\* the reason of its task, whichever worker gives it up later (getErrorMessages).
THEOREM CauseStays == ASSUME MaxTimeouts = 0 PROVE Spec => CauseSurvives
<1>1. TypeInv /\ OwnInv /\ LifeInv /\ [Next]_vars =>
        [\A t \in Tasks : reason[t] = "error" => reason'[t] = "error"]_vars
  BY StepCause
<1>. QED
  BY <1>1, InitTypeInv, StepTypeInv, InitOwn, StepOwn, InitLife, StepLife, PTL
     DEF Spec, CauseSurvives

\* As long as no live worker is declared dead, what the job manager, the tracker and
\* the callback urls see of the loop is a TaskLifecycle, whatever fails or crashes.
THEOREM LoopIsLifecycle == ASSUME MaxTimeouts = 0 PROVE Spec => ImplementsLifecycle
<1>1. TypeInv /\ TypeInv' /\ OwnInv /\ LifeInv /\ AttemptsBounded' /\ [Next]_vars =>
        [Lifecycle!Next]_Lifecycle!vars
  BY StepLifecycle
<1>. QED
  BY <1>1, InitTypeInv, StepTypeInv, InitOwn, StepOwn, InitLife, StepLife,
     AttemptsStayBounded, PTL
     DEF Spec, ImplementsLifecycle, Lifecycle!Spec

=============================================================================
