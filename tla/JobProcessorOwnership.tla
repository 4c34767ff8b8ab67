------------------------ MODULE JobProcessorOwnership ------------------------
(***************************************************************************)
(* What holds of JobProcessor for any number of workers, tasks, faults and *)
(* crashes as long as no live worker is declared dead: a task belongs to   *)
(* the one worker that has it at hand, and what its urls were told is      *)
(* never taken back.                                                       *)
(***************************************************************************)
EXTENDS JobProcessorProofs

\* Where the loop stands, the status of the task at hand follows.
OwnStatus(w) ==
  LET s == status[cur[w]] IN
  /\ pc[w] \in {"getJob", "process", "ack"} => s = "IN_PROGRESS"
  /\ pc[w] \in {"notifyDone", "callBackDone"} => s = "COMPLETED"
  /\ pc[w] = "reject" =>
       s = "IN_PROGRESS" \/ (s = "COMPLETED" /\ ~ Unrecoverable(err[w]))
  /\ pc[w] \in {"notifyFailed", "callBackFailed"} => s = "FAILED"

\* Between two tasks the loop has none.
Idle == \A w \in Workers : pc[w] \notin Holding => cur[w] = NoTask

Owned == \A w \in Workers : pc[w] \in Holding => OwnStatus(w)

Alone == \A v, w \in Workers : v # w /\ cur[v] = cur[w] => cur[v] = NoTask

\* A task whose urls were told of it is finished, and nobody's any more.
Settled ==
  \A t \in Tasks : callbacks[t] # <<>> =>
    /\ callbacks[t] = <<status[t]>> /\ status[t] \in Outcome
    /\ \A w \in Workers : cur[w] # t

OwnInv == Idle /\ Owned /\ Alone /\ Settled /\ timeouts = 0

\* A pending task is nobody's, and nobody was told of it.
LEMMA PendingIsFree ==
  ASSUME TypeInv, OwnInv, NEW t \in Tasks, status[t] = "PENDING"
  PROVE  callbacks[t] = <<>> /\ \A w \in Workers : cur[w] # t
<1>1. callbacks[t] = <<>>
  BY DEF OwnInv, Settled, Outcome
<1>2. \A w \in Workers : cur[w] # t
  BY ConstantsOK DEF OwnInv, Idle, Owned, OwnStatus, TypeInv, AtHand, Holding
<1>. QED
  BY <1>1, <1>2

\* A step of one worker keeps the invariant when it touches no task but the one
\* at hand and pending ones, takes up none but a pending one, and tells the urls
\* of a task only as it lets go of it.
LEMMA OwnStep ==
  ASSUME TypeInv, TypeInv', OwnInv, NEW w \in Workers, timeouts' = 0,
         \A v \in Workers \ {w} : pc'[v] = pc[v] /\ cur'[v] = cur[v] /\ err'[v] = err[v],
         pc'[w] \in Holding => OwnStatus(w)',
         pc'[w] \notin Holding => cur'[w] = NoTask,
         \/ cur'[w] = cur[w]
         \/ cur'[w] = NoTask
         \/ cur'[w] \in Tasks /\ status[cur'[w]] = "PENDING",
         \A t \in Tasks : t # cur[w] =>
           /\ callbacks'[t] = callbacks[t]
           /\ status'[t] = status[t] \/ status[t] = "PENDING",
         cur[w] \in Tasks =>
           \/ callbacks'[cur[w]] = <<>>
           \/ /\ cur'[w] = NoTask
              /\ callbacks'[cur[w]] = <<status'[cur[w]]>>
              /\ status'[cur[w]] \in Outcome
  PROVE  OwnInv'
<1>1. NoTask \notin Tasks /\ \A v \in Workers : pc[v] \in Holding <=> cur[v] \in Tasks
  BY ConstantsOK DEF OwnInv, Idle, TypeInv, AtHand
<1>2. \A t \in Tasks : status[t] = "PENDING" =>
        callbacks[t] = <<>> /\ \A v \in Workers : cur[v] # t
  BY PendingIsFree
<1>3. \A v \in Workers \ {w} : cur[v] \in Tasks => cur[v] # cur[w]
  BY <1>1 DEF OwnInv, Alone
<1>4. Idle'
  BY DEF OwnInv, Idle
<1>5. Owned'
  <2> SUFFICES ASSUME NEW v \in Workers \ {w}, pc'[v] \in Holding
               PROVE  OwnStatus(v)'
    BY DEF Owned
  <2>1. cur[v] \in Tasks /\ status'[cur[v]] = status[cur[v]]
    BY <1>1, <1>2, <1>3
  <2>. QED
    BY <2>1 DEF OwnInv, Owned, OwnStatus, Unrecoverable
<1>6. Alone'
  <2> SUFFICES ASSUME NEW u \in Workers, NEW v \in Workers, u # v, cur'[u] = cur'[v],
                      cur'[u] # NoTask
               PROVE  FALSE
    BY DEF Alone
  <2>1. CASE u # w /\ v # w
    BY <2>1 DEF OwnInv, Alone
  <2>2. CASE u = w
    BY <1>2, <2>2 DEF OwnInv, Alone
  <2>3. CASE v = w
    BY <1>2, <2>3 DEF OwnInv, Alone
  <2>. QED
    BY <2>1, <2>2, <2>3
<1>7. Settled'
  <2> SUFFICES ASSUME NEW t \in Tasks, callbacks'[t] # <<>>
               PROVE  /\ callbacks'[t] = <<status'[t]>> /\ status'[t] \in Outcome
                      /\ \A v \in Workers : cur'[v] # t
    BY DEF Settled
  <2>1. CASE t = cur[w]
    BY <1>1, <1>3, <2>1
  <2>2. CASE t # cur[w]
    BY <1>1, <1>2, <2>2 DEF OwnInv, Settled
  <2>. QED
    BY <2>1, <2>2
<1>. QED
  BY <1>4, <1>5, <1>6, <1>7 DEF OwnInv

-----------------------------------------------------------------------------
(* One step per action.                                                    *)

\* The urls of the task at hand were told nothing yet.
LEMMA HeldIsSilent ==
  ASSUME OwnInv, NEW w \in Workers, cur[w] \in Tasks
  PROVE  callbacks[cur[w]] = <<>>
BY DEF OwnInv, Settled

\* A task nobody has at hand is given back to the queue by the job manager.
LEMMA ReleaseStep ==
  ASSUME TypeInv, TypeInv', OwnInv, NEW t \in Tasks, Release(t)
  PROVE  OwnInv'
<1>1. /\ status[t] = "IN_PROGRESS" /\ status' = [status EXCEPT ![t] = "PENDING"]
      /\ pc' = pc /\ cur' = cur /\ err' = err /\ callbacks' = callbacks
      /\ timeouts' = timeouts /\ \A w \in Workers : cur[w] # t
  BY DEF Release, Requeue, SetStatus, worker, heard
<1>2. \A u \in Tasks \ {t} : status'[u] = status[u]
  BY <1>1 DEF TypeInv, TypeOK
<1>3. Idle' /\ Alone'
  BY <1>1 DEF OwnInv, Idle, Alone
<1>4. Owned'
  <2> SUFFICES ASSUME NEW w \in Workers, pc'[w] \in Holding PROVE OwnStatus(w)'
    BY DEF Owned
  <2>1. cur[w] \in Tasks \ {t} /\ OwnStatus(w)
    BY <1>1 DEF TypeInv, AtHand, OwnInv, Owned
  <2>. QED
    BY <1>1, <1>2, <2>1 DEF OwnStatus, Unrecoverable
<1>5. Settled'
  <2>1. callbacks[t] = <<>>
    BY <1>1 DEF OwnInv, Settled, Outcome
  <2>. QED
    BY <1>1, <1>2, <2>1 DEF OwnInv, Settled
<1>. QED
  BY <1>1, <1>3, <1>4, <1>5 DEF OwnInv

\* Ownership holds in the first state.
LEMMA InitOwn == Init => OwnInv
BY DEF Init, OwnInv, Idle, Owned, Alone, Settled, Holding

\* Unless a live worker is declared dead, every step keeps a task with its worker.
LEMMA StepOwn ==
  ASSUME MaxTimeouts = 0
  PROVE  TypeInv /\ TypeInv' /\ OwnInv /\ [Next]_vars => OwnInv'
<1> SUFFICES ASSUME TypeInv, TypeInv', OwnInv, [Next]_vars PROVE OwnInv'
  OBVIOUS
<1> USE DEF Holding, Outcome
<1>0. /\ timeouts = 0
      /\ \A w \in Workers : /\ cur[w] \in Tasks => callbacks[cur[w]] = <<>>
                            /\ pc[w] \in Holding => cur[w] \in Tasks /\ OwnStatus(w)
  BY HeldIsSilent DEF OwnInv, Owned, TypeInv, AtHand
<1>1. ASSUME NEW w \in Workers, NEW t \in Tasks, DequeueTask(w, t) PROVE OwnInv'
  <2>1. /\ status[t] = "PENDING" /\ status' = [status EXCEPT ![t] = "IN_PROGRESS"]
        /\ cur' = [cur EXCEPT ![w] = t] /\ pc' = [pc EXCEPT ![w] = "getJob"]
        /\ err' = err /\ callbacks' = callbacks /\ timeouts' = timeouts
    BY <1>1 DEF DequeueTask, Available, Goto, heard, bounds
  <2>2. OwnStatus(w)'
    BY <2>1 DEF TypeInv, TypeOK, OwnStatus
  <2>. QED
    BY <1>0, <2>1, <2>2, OwnStep DEF TypeInv, TypeOK
<1>2. ASSUME NEW w \in Workers, DequeueNothing(w) \/ WakeUp(w) \/ Restart(w) PROVE OwnInv'
  <2>1. /\ pc[w] \notin Holding /\ pc'[w] \notin Holding
        /\ \A v \in Workers \ {w} : pc'[v] = pc[v]
        /\ UNCHANGED <<status, cur, err, callbacks, timeouts>>
    BY <1>2 DEF DequeueNothing, WakeUp, Restart, Goto, TypeInv, TypeOK,
                manager, heard, bounds
  <2>. QED
    BY <1>0, <2>1, OwnStep DEF OwnInv, Idle
<1>3. ASSUME NEW w \in Workers, DequeueFails(w) PROVE OwnInv'
  <2>1. /\ pc[w] = "dequeue" /\ UNCHANGED <<pc, cur, err, callbacks, timeouts>>
    BY <1>3 DEF DequeueFails, Fault, heard
  <2>2. \A t \in Tasks : status'[t] = status[t] \/ status[t] = "PENDING"
    BY <1>3 DEF DequeueFails, Available, TypeInv, TypeOK
  <2>. QED
    BY <1>0, <2>1, <2>2, OwnStep DEF OwnInv, Idle
<1>4. ASSUME NEW w \in Workers, GetJob(w) \/ Process(w) PROVE OwnInv'
  <2>1. /\ UNCHANGED <<status, cur, callbacks, timeouts>>
        /\ \A v \in Workers \ {w} : pc'[v] = pc[v] /\ err'[v] = err[v]
        /\ pc[w] \in {"getJob", "process"} /\ pc'[w] \in {"process", "ack", "reject"}
    BY <1>4 DEF GetJob, Process, StartHandler, Throw, Goto, TypeInv, TypeOK,
                manager, heard, bounds
  <2>2. OwnStatus(w)'
    BY <1>0, <2>1 DEF OwnStatus
  <2>. QED
    BY <1>0, <2>1, <2>2, OwnStep
<1>5. ASSUME NEW w \in Workers, Ack(w) \/ AckFails(w) PROVE OwnInv'
  <2>1. /\ UNCHANGED <<cur, callbacks, timeouts>> /\ pc[w] = "ack"
        /\ \A v \in Workers \ {w} : pc'[v] = pc[v] /\ err'[v] = err[v]
        /\ \/ pc'[w] = "notifyDone" /\ status' = [status EXCEPT ![cur[w]] = "COMPLETED"]
           \/ /\ pc'[w] = "reject" /\ err'[w] = "recoverable"
              /\ status' = status \/ status' = [status EXCEPT ![cur[w]] = "COMPLETED"]
    BY <1>5 DEF Ack, AckFails, Fault, SetStatus, Throw, Goto, TypeInv, TypeOK, heard, bounds
  <2>2. OwnStatus(w)'
    BY <1>0, <2>1 DEF OwnStatus, Unrecoverable, TypeInv, TypeOK
  <2>3. \A t \in Tasks : t # cur[w] => status'[t] = status[t]
    BY <2>1 DEF TypeInv, TypeOK
  <2>. QED
    BY <1>0, <2>1, <2>2, <2>3, OwnStep
<1>6. ASSUME NEW w \in Workers, NotifyDone(w) \/ NotifyDoneFails(w) \/ CallBackDoneFails(w)
      PROVE  OwnInv'
  <2>1. /\ UNCHANGED <<status, callbacks, timeouts>>
        /\ pc[w] \in {"notifyDone", "callBackDone"}
        /\ \A v \in Workers \ {w} : pc'[v] = pc[v] /\ err'[v] = err[v] /\ cur'[v] = cur[v]
        /\ \/ cur' = cur /\ pc'[w] = "callBackDone"
           \/ cur' = cur /\ pc'[w] = "reject" /\ err'[w] = "recoverable"
           \/ cur'[w] = NoTask /\ pc'[w] = "sleep"
    BY <1>6 DEF NotifyDone, NotifyDoneFails, CallBackDoneFails, Fault, Throw, LetGo, Goto,
                TypeInv, TypeOK, manager, heard, bounds
  <2>2. pc'[w] \in Holding => OwnStatus(w)'
    BY <1>0, <2>1 DEF OwnStatus, Unrecoverable
  <2>. QED
    BY <1>0, <2>1, <2>2, OwnStep
<1>7. ASSUME NEW w \in Workers, CallBackDone(w) \/ CallBackFailed(w) PROVE OwnInv'
  <2>1. /\ UNCHANGED <<status, timeouts>> /\ cur'[w] = NoTask /\ pc'[w] = "sleep"
        /\ \A v \in Workers \ {w} : pc'[v] = pc[v] /\ err'[v] = err[v] /\ cur'[v] = cur[v]
        /\ cur[w] \in Tasks /\ status[cur[w]] \in Outcome
        /\ Send(cur[w], status[cur[w]])
    BY <1>0, <1>7 DEF CallBackDone, CallBackFailed, LetGo, Goto, OwnStatus, TypeInv, TypeOK,
                      manager, bounds
  <2>2. /\ \A t \in Tasks : t # cur[w] => callbacks'[t] = callbacks[t]
        /\ \/ callbacks'[cur[w]] = callbacks[cur[w]]
           \/ callbacks'[cur[w]] = Append(callbacks[cur[w]], status[cur[w]])
    BY <2>1 DEF Send, TypeInv, TypeOK
  <2>3. callbacks'[cur[w]] = <<>> \/ callbacks'[cur[w]] = <<status'[cur[w]]>>
    BY <1>0, <2>1, <2>2
  <2>. QED
    BY <2>1, <2>2, <2>3, <1>0, OwnStep
<1>8. ASSUME NEW w \in Workers, Reject(w) \/ RejectFails(w) PROVE OwnInv'
  <2>0. /\ UNCHANGED <<callbacks, timeouts>> /\ pc[w] = "reject" /\ cur[w] \in Tasks
        /\ ApplyReject(w) \/ UNCHANGED status
    BY <1>0, <1>8 DEF Reject, RejectFails, Fault, manager, heard, bounds
  <2>1. /\ UNCHANGED <<callbacks, timeouts>>
        /\ \A v \in Workers \ {w} : pc'[v] = pc[v] /\ err'[v] = err[v] /\ cur'[v] = cur[v]
        /\ \A t \in Tasks : t # cur[w] => status'[t] = status[t]
    <3>1. \A v \in Workers \ {w} : pc'[v] = pc[v] /\ err'[v] = err[v] /\ cur'[v] = cur[v]
      <4>1. CASE Goto(w, "notifyFailed") /\ UNCHANGED <<cur, err>>
        BY <4>1 DEF Goto, TypeInv, TypeOK
      <4>2. ASSUME NEW p, LetGo(w, p)
            PROVE  \A v \in Workers \ {w} : pc'[v] = pc[v] /\ err'[v] = err[v] /\ cur'[v] = cur[v]
        BY <4>2 DEF LetGo, Goto, TypeInv, TypeOK
      <4>. QED
        BY <1>8, <4>1, <4>2 DEF Reject, RejectFails, Exit
    <3>2. \A t \in Tasks : t # cur[w] => status'[t] = status[t]
      BY <2>0 DEF ApplyReject, SetStatus, TypeInv, TypeOK
    <3>. QED
      BY <2>0, <3>1, <3>2
  <2>2. \/ cur'[w] = NoTask /\ pc'[w] \notin Holding
        \/ cur' = cur /\ pc'[w] = "notifyFailed" /\ status'[cur[w]] = "FAILED"
    BY <1>8, <2>0 DEF Reject, RejectFails, ApplyReject, SetStatus, Exit, LetGo, Goto,
                      TypeInv, TypeOK
  <2>3. pc'[w] \in Holding => OwnStatus(w)'
    BY <2>2 DEF OwnStatus
  <2>. QED
    BY <1>0, <2>0, <2>1, <2>2, <2>3, OwnStep
<1>9. ASSUME NEW w \in Workers, NotifyFailed(w) PROVE OwnInv'
  <2>1. /\ UNCHANGED <<status, callbacks, timeouts>> /\ pc[w] = "notifyFailed"
        /\ \A v \in Workers \ {w} : pc'[v] = pc[v] /\ err'[v] = err[v] /\ cur'[v] = cur[v]
        /\ \/ cur' = cur /\ pc'[w] = "callBackFailed"
           \/ cur'[w] = NoTask /\ pc'[w] = "sleep"
    BY <1>9 DEF NotifyFailed, LetGo, Goto, TypeInv, TypeOK, manager, bounds
  <2>2. pc'[w] \in Holding => OwnStatus(w)'
    BY <1>0, <2>1 DEF OwnStatus
  <2>. QED
    BY <1>0, <2>1, <2>2, OwnStep
<1>10. ASSUME NEW w \in Workers,
              \/ GetJobFails(w) \/ NotifyFailedFails(w) \/ CallBackFailedFails(w) \/ Crash(w)
       PROVE  OwnInv'
  <2>1. /\ UNCHANGED <<status, callbacks, timeouts>>
        /\ cur'[w] = NoTask /\ pc'[w] \notin Holding
        /\ \A v \in Workers \ {w} : pc'[v] = pc[v] /\ err'[v] = err[v] /\ cur'[v] = cur[v]
    BY <1>10 DEF GetJobFails, NotifyFailedFails, CallBackFailedFails, Crash, Fault, Exit,
                 LetGo, Goto, TypeInv, TypeOK, manager, heard, bounds
  <2>. QED
    BY <1>0, <2>1, OwnStep
<1>11. ASSUME NEW t \in Tasks, Release(t) PROVE OwnInv'
  BY <1>11, ReleaseStep
<1>12. ASSUME NEW t \in Tasks, FalseTimeout(t) PROVE OwnInv'
  BY <1>0, <1>12 DEF FalseTimeout
<1>13. CASE UNCHANGED vars
  BY <1>13 DEF vars, manager, worker, heard, bounds, OwnInv, Idle, Owned, OwnStatus, Alone,
               Settled, Unrecoverable
<1>. QED
  BY <1>1, <1>2, <1>3, <1>4, <1>5, <1>6, <1>7, <1>8, <1>9, <1>10, <1>11, <1>12, <1>13
     DEF Next, Work, Failure

-----------------------------------------------------------------------------
(* What follows from it.                                                   *)

\* A task that was failed is touched by no step: whoever has a task at hand has
\* one that is in progress, or completed and to be retried.
LEMMA StepFailed ==
  ASSUME MaxTimeouts = 0, TypeInv, OwnInv, [Next]_vars,
         NEW t \in Tasks, status[t] = "FAILED"
  PROVE  status'[t] = "FAILED"
<1>1. ASSUME NEW w \in Workers, DequeueFails(w) \/ \E u \in Tasks : DequeueTask(w, u)
      PROVE  status'[t] = "FAILED"
  BY <1>1 DEF DequeueFails, DequeueTask, Available, TypeInv, TypeOK
<1>2. ASSUME NEW w \in Workers, pc[w] \in {"ack", "reject"} PROVE cur[w] # t
  <2>1. status[cur[w]] \in {"IN_PROGRESS", "COMPLETED"}
    BY <1>2 DEF OwnInv, Owned, OwnStatus, Holding
  <2>. QED
    BY <2>1
<1>3. ASSUME NEW w \in Workers, Ack(w) \/ AckFails(w) PROVE status'[t] = "FAILED"
  BY <1>2, <1>3 DEF Ack, AckFails, SetStatus, TypeInv, TypeOK
<1>4. ASSUME NEW w \in Workers, Reject(w) \/ RejectFails(w) PROVE status'[t] = "FAILED"
  BY <1>2, <1>4 DEF Reject, RejectFails, ApplyReject, SetStatus, manager, TypeInv, TypeOK
<1>5. ASSUME NEW u \in Tasks, Release(u) \/ FalseTimeout(u) PROVE status'[t] = "FAILED"
  BY <1>5 DEF Release, FalseTimeout, Requeue, SetStatus, TypeInv, TypeOK
<1>6. CASE UNCHANGED manager
  BY <1>6 DEF manager
<1>. QED
  BY <1>1, <1>3, <1>4, <1>5, <1>6
     DEF Next, Work, Failure, DequeueNothing, GetJob, Process, NotifyDone, CallBackDone,
         NotifyFailed, CallBackFailed, WakeUp, Restart, GetJobFails, NotifyDoneFails,
         CallBackDoneFails, NotifyFailedFails, CallBackFailedFails, Crash, vars

\* As long as no live worker is declared dead, the callback urls of a task hear
\* of one outcome, once, and the job manager keeps it for good (l.60-81).
THEOREM CallbackIsFinal == ASSUME MaxTimeouts = 0 PROVE Spec => []CallbackOnceAndFinal
<1>1. OwnInv => CallbackOnceAndFinal
  BY DEF OwnInv, Settled, CallbackOnceAndFinal
<1>. QED
  BY <1>1, InitTypeInv, StepTypeInv, InitOwn, StepOwn, PTL DEF Spec

\* As long as no live worker is declared dead, a task that was failed stays
\* failed (l.76-82).
THEOREM FailedStays == ASSUME MaxTimeouts = 0 PROVE Spec => FailedIsFinal
<1>1. TypeInv /\ OwnInv /\ [Next]_vars =>
        [\A t \in Tasks : status[t] = "FAILED" => status'[t] = "FAILED"]_vars
  BY StepFailed
<1>. QED
  BY <1>1, InitTypeInv, StepTypeInv, InitOwn, StepOwn, PTL DEF Spec, FailedIsFinal

=============================================================================
