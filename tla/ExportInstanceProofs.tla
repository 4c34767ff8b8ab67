------------------------ MODULE ExportInstanceProofs ------------------------
(***************************************************************************)
(* What holds of ExportInstance for any workers, tasks, answers, faults and *)
(* crashes: it keeps what JobProcessor promises, its gauge is balanced, and *)
(* the layer of a completed task is exact.                                 *)
(***************************************************************************)
EXTENDS ExportInstance, JobProcessorOwnership

-----------------------------------------------------------------------------
(* The metrics and the handler restrict the loop, and never change it.     *)

\* A step of the loop with metrics is a step of the loop.
LEMMA MeteredIsLoop == [MetricsNext]_mvars => [Next]_vars
<1> SUFFICES ASSUME MetricsNext PROVE Next
  BY DEF mvars
<1>1. ASSUME NEW w \in Workers,
             \/ Enter(w) \/ EnterThrows(w) \/ Continues(w) \/ Returns(w) \/ Throws(w)
             \/ Outside(w) \/ Ends(w)
      PROVE  Work(w) \/ Failure(w)
  BY <1>1 DEF Enter, EnterThrows, Continues, Returns, Throws, Outside, Ends, InCallback,
     Work, Failure
<1>2. ASSUME TakeBack PROVE \E t \in Tasks : Release(t) \/ FalseTimeout(t)
  BY <1>2 DEF TakeBack
<1>. QED
  BY <1>1, <1>2 DEF MetricsNext, Next

\* A step of an export instance is one of the loop with metrics.
LEMMA ExportIsMetered == [ExportNext]_evars => [MetricsNext]_mvars
<1> SUFFICES ASSUME ExportNext PROVE [MetricsNext]_mvars
  BY DEF evars
<1>1. ASSUME NEW w \in Workers,
             \/ Begin(w) \/ FindParts(w) \/ WriteLayer(w) \/ HandlerThrows(w)
             \/ Elsewhere(w) \/ Dies(w)
      PROVE  [MetricsNext]_mvars
  BY <1>1 DEF Begin, FindParts, WriteLayer, HandlerThrows, Elsewhere, Dies, MetricsNext
<1>. QED
  BY <1>1 DEF ExportNext, MetricsNext

\* Every behaviour of an export instance is one of JobProcessor, whose theorems
\* therefore hold of it.
THEOREM ExportIsLoop == ExportSpec => Spec
<1>1. ExportInit => Init
  BY DEF ExportInit, MetricsInit
<1>. QED
  BY <1>1, MeteredIsLoop, ExportIsMetered, PTL DEF ExportSpec, Spec

\* An export instance runs its handler at most maxAttempts times on a task.
THEOREM ExportAttemptsBounded == ExportSpec => []AttemptsBounded
BY ExportIsLoop, AttemptsStayBounded, PTL

\* Two replicas of it have the same task at hand only after a false timeout.
THEOREM ExportHoldersBounded == ExportSpec => []HoldersBounded
BY ExportIsLoop, HoldersStayBounded, PTL

-----------------------------------------------------------------------------
(* The gauge.                                                              *)

\* Between two tasks the loop has none, and an error only in the catch block.
LoopInv ==
  \A w \in Workers :
    /\ pc[w] \notin Holding => cur[w] = NoTask
    /\ err[w] = "none" <=> pc[w] \notin {"reject", "notifyFailed", "callBackFailed"}

GaugeInv ==
  gauge = [w \in Workers |->
             IF pc[w] \in {"process", "ack", "notifyDone", "callBackDone"} THEN 1 ELSE 0]

\* A step of one worker that leaves the task at hand where it is, lets go of it,
\* or takes one up keeps LoopInv.
LEMMA LoopStep ==
  ASSUME LoopInv, NEW w \in Workers,
         \A v \in Workers \ {w} : pc'[v] = pc[v] /\ cur'[v] = cur[v] /\ err'[v] = err[v],
         pc'[w] \notin Holding => cur'[w] = NoTask,
         err'[w] = "none" <=> pc'[w] \notin {"reject", "notifyFailed", "callBackFailed"}
  PROVE  LoopInv'
BY DEF LoopInv

LEMMA StepLoopInv == TypeInv /\ LoopInv /\ [Next]_vars => LoopInv'
<1> SUFFICES ASSUME TypeInv, LoopInv, [Next]_vars PROVE LoopInv'
  OBVIOUS
<1> USE DEF TypeInv, TypeOK, Holding
<1>0. ASSUME NEW w \in Workers, NEW point \in {"dequeue", "sleep", "exited"},
             LetGo(w, point)
      PROVE  LoopInv'
  BY <1>0, LoopStep DEF LetGo, Goto
<1>1. ASSUME NEW w \in Workers, NEW t \in Tasks, DequeueTask(w, t) PROVE LoopInv'
  BY <1>1, LoopStep DEF DequeueTask, Goto, LoopInv
<1>2. ASSUME NEW w \in Workers,
             \/ DequeueNothing(w) \/ DequeueFails(w) \/ WakeUp(w) \/ Restart(w)
      PROVE  LoopInv'
  BY <1>2, LoopStep DEF DequeueNothing, DequeueFails, WakeUp, Restart, Goto, LoopInv
<1>3. ASSUME NEW w \in Workers, GetJob(w) PROVE LoopInv'
  BY <1>3, LoopStep DEF GetJob, StartHandler, Throw, Goto, LoopInv
<1>4. ASSUME NEW w \in Workers, Process(w) \/ Ack(w) PROVE LoopInv'
  BY <1>4, LoopStep DEF Process, Ack, Throw, Goto, LoopInv
<1>5. ASSUME NEW w \in Workers,
             AckFails(w) \/ NotifyDoneFails(w) \/ CallBackDoneFails(w)
      PROVE  LoopInv'
  BY <1>5, LoopStep DEF AckFails, NotifyDoneFails, CallBackDoneFails, Throw, Goto, LoopInv
<1>6. ASSUME NEW w \in Workers, NotifyDone(w) \/ Reject(w) \/ NotifyFailed(w)
      PROVE  LoopInv'
  BY <1>0, <1>6, LoopStep DEF NotifyDone, Reject, NotifyFailed, Goto, LoopInv
<1>7. ASSUME NEW w \in Workers,
             \/ GetJobFails(w) \/ CallBackDone(w) \/ CallBackFailed(w) \/ RejectFails(w)
             \/ NotifyFailedFails(w) \/ CallBackFailedFails(w) \/ Crash(w)
      PROVE  LoopInv'
  BY <1>0, <1>7 DEF GetJobFails, CallBackDone, CallBackFailed, RejectFails,
     NotifyFailedFails, CallBackFailedFails, Crash, Exit
<1>8. ASSUME NEW t \in Tasks, Release(t) \/ FalseTimeout(t) PROVE LoopInv'
  BY <1>8 DEF Release, FalseTimeout, Requeue, worker, LoopInv
<1>9. CASE UNCHANGED vars
  BY <1>9 DEF vars, worker, LoopInv
<1>. QED
  BY <1>1, <1>2, <1>3, <1>4, <1>5, <1>6, <1>7, <1>8, <1>9 DEF Next, Work, Failure

\* Only the callback's beginning and its end move the gauge, and both do.
LEMMA StepGaugeInv == TypeInv /\ GaugeInv /\ [MetricsNext]_mvars => GaugeInv'
<1> SUFFICES ASSUME TypeInv, GaugeInv, [MetricsNext]_mvars PROVE GaugeInv'
  OBVIOUS
<1> USE DEF TypeInv, TypeOK
<1> DEFINE Inside == {"process", "ack", "notifyDone", "callBackDone"}
<1>0. ASSUME NEW w \in Workers, \A v \in Workers \ {w} : pc'[v] = pc[v],
             gauge' = [gauge EXCEPT ![w] = IF pc'[w] \in Inside THEN 1 ELSE 0]
      PROVE  GaugeInv'
  BY <1>0 DEF GaugeInv
<1>1. ASSUME NEW w \in Workers, Enter(w) PROVE GaugeInv'
  <2>1. pc[w] = "getJob" /\ pc' = [pc EXCEPT ![w] = "process"]
    BY <1>1 DEF Enter, GetJob, StartHandler, Throw, Goto
  <2>2. gauge' = [gauge EXCEPT ![w] = 1]
    BY <1>1, <2>1 DEF Enter, IncrementActiveTasks, GaugeInv
  <2>. QED
    BY <1>0, <2>1, <2>2
<1>2. ASSUME NEW w \in Workers, EnterThrows(w) PROVE GaugeInv'
  BY <1>2 DEF EnterThrows, GetJob, StartHandler, Throw, Goto, metrics, GaugeInv
<1>3. ASSUME NEW w \in Workers, Continues(w) \/ Returns(w) \/ Throws(w) PROVE GaugeInv'
  <2>1. /\ pc[w] \in Inside /\ \A v \in Workers \ {w} : pc'[v] = pc[v]
        /\ pc'[w] \in Inside \cup {"sleep", "reject"}
    BY <1>3 DEF Continues, Returns, Throws, InCallback, Process, Ack, AckFails, NotifyDone,
       NotifyDoneFails, CallBackDone, CallBackDoneFails, LetGo, Throw, Goto
  <2>2. gauge[w] = 1 /\ gauge \in [Workers -> {0, 1}]
    BY <2>1 DEF GaugeInv
  <2>3. gauge' = [gauge EXCEPT ![w] = IF pc'[w] \in Inside THEN 1 ELSE 0]
    BY <1>3, <2>1, <2>2 DEF Continues, Returns, Throws, DecrementActiveTasks, metrics
  <2>. QED
    BY <1>0, <2>1, <2>3
<1>4. ASSUME NEW w \in Workers, Outside(w) PROVE GaugeInv'
  <2>1. /\ pc[w] \notin Inside /\ pc'[w] \notin Inside
        /\ \A v \in Workers \ {w} : pc'[v] = pc[v]
    BY <1>4 DEF Outside, DequeueTask, DequeueNothing, DequeueFails, GetJobFails, Reject,
       NotifyFailed, CallBackFailed, WakeUp, Restart, LetGo, Goto
  <2>. QED
    BY <1>4, <2>1 DEF Outside, metrics, GaugeInv
<1>5. ASSUME NEW w \in Workers, Ends(w) PROVE GaugeInv'
  <2>1. pc' = [pc EXCEPT ![w] = "exited"]
    BY <1>5 DEF Ends, RejectFails, NotifyFailedFails, CallBackFailedFails, Crash, Exit,
       LetGo, Goto
  <2>. QED
    BY <1>0, <1>5, <2>1 DEF Ends
<1>6. CASE TakeBack
  BY <1>6 DEF TakeBack, Release, FalseTimeout, Requeue, worker, metrics, GaugeInv
<1>7. CASE UNCHANGED mvars
  BY <1>7 DEF mvars, vars, worker, metrics, GaugeInv
<1>. QED
  BY <1>1, <1>2, <1>3, <1>4, <1>5, <1>6, <1>7 DEF MetricsNext

\* The gauge of a process counts the handlers at work in it, on every way out of
\* the callback and over exits and restarts.
THEOREM GaugeStaysBalanced == ExportSpec => []GaugeIsActive
<1>1. ExportInit => Init /\ LoopInv /\ GaugeInv
  BY DEF ExportInit, MetricsInit, Init, LoopInv, GaugeInv, Holding
<1>2. TypeInv /\ LoopInv /\ GaugeInv => GaugeIsActive
  BY ConstantsOK
     DEF TypeInv, TypeOK, AtHand, Holding, Points, LoopInv, GaugeInv, GaugeIsActive
<1>. QED
  BY <1>1, <1>2, InitTypeInv, StepTypeInv, StepLoopInv, StepGaugeInv, MeteredIsLoop,
     ExportIsMetered, PTL DEF ExportSpec

-----------------------------------------------------------------------------
(* The layer, as long as no live worker is declared dead.                  *)

Exact(t, l) == \E parts \in Answers[t] : IsExact(t, parts, l)

\* What is about to be written is exact, what was written before the ack stays
\* so until the task is taken up again, and only a handler has parts at hand.
LayerInv ==
  /\ features = [w \in Workers |-> features[w]]
  /\ layer = [t \in Tasks |-> layer[t]]
  /\ \A w \in Workers :
       /\ features[w] # None => pc[w] = "process" /\ Exact(cur[w], features[w])
       /\ pc[w] = "ack" => Exact(cur[w], layer[cur[w]])
  /\ \A t \in Tasks : status[t] = "COMPLETED" => Exact(t, layer[t])

\* manipulateFeatures makes an exact layer of an answer whose parts all name a
\* feature of the request.
LEMMA ManipulateIsExact ==
  ASSUME NEW t \in Tasks, NEW parts \in Answers[t], Matched(t, parts)
  PROVE  IsExact(t, parts, ManipulateFeatures(t, parts))
<1> DEFINE Out(p) == [part |-> p.part,
                      resolution |-> Coarser(p.resolution, Roi[t][p.request])]
           l == {Out(p) : p \in parts}
<1>1. ManipulateFeatures(t, parts) = l
  BY DEF ManipulateFeatures
<1>2. ASSUME NEW p \in parts
      PROVE  /\ Out(p).part = p.part
             /\ Out(p).resolution \in {p.resolution, Roi[t][p.request]}
             /\ Out(p).resolution >= p.resolution
             /\ Out(p).resolution >= Roi[t][p.request]
  BY ExportOK DEF Matched, Coarser
<1>3. {f.part : f \in l} = {p.part : p \in parts}
  <2>1. \A f \in l : \E p \in parts : f.part = p.part
    BY <1>2
  <2>2. \A p \in parts : \E f \in l : f.part = p.part
    BY <1>2
  <2>. QED
    BY <2>1, <2>2
<1>4. \A f \in l : \E p \in parts :
        /\ f.part = p.part
        /\ f.resolution \in {p.resolution, Roi[t][p.request]}
        /\ f.resolution >= p.resolution /\ f.resolution >= Roi[t][p.request]
  BY <1>2
<1>. QED
  BY <1>1, <1>3, <1>4 DEF IsExact

\* A step of one worker that touches no layer but that of its task, and leaves
\* it exact when it goes to the ack or completes the task, keeps the invariant.
LEMMA LayerStep ==
  ASSUME TypeInv, OwnInv, LayerInv, NEW w \in Workers,
         \A v \in Workers \ {w} :
           pc'[v] = pc[v] /\ cur'[v] = cur[v] /\ features'[v] = features[v],
         features' = [v \in Workers |-> features'[v]],
         layer' = [t \in Tasks |-> layer'[t]],
         \A t \in Tasks : layer'[t] = layer[t] \/ t = cur[w],
         \A t \in Tasks : status'[t] = "COMPLETED" =>
           status[t] = "COMPLETED" \/ (t = cur[w] /\ Exact(t, layer'[t])),
         cur[w] \in Tasks /\ status'[cur[w]] = "COMPLETED" =>
           Exact(cur[w], layer'[cur[w]]),
         features'[w] # None => pc'[w] = "process" /\ Exact(cur'[w], features'[w]),
         pc'[w] = "ack" => Exact(cur'[w], layer'[cur'[w]])
  PROVE  LayerInv'
<1>1. \A v \in Workers \ {w} : pc[v] = "ack" => cur[v] \in Tasks /\ cur[v] # cur[w]
  BY ConstantsOK DEF TypeInv, AtHand, Holding, OwnInv, Alone
<1>2. ASSUME NEW v \in Workers, features'[v] # None
      PROVE  pc'[v] = "process" /\ Exact(cur'[v], features'[v])
  BY <1>2 DEF LayerInv
<1>3. ASSUME NEW v \in Workers, pc'[v] = "ack"
      PROVE  Exact(cur'[v], layer'[cur'[v]])
  BY <1>1, <1>3 DEF LayerInv
<1>4. ASSUME NEW t \in Tasks, status'[t] = "COMPLETED"
      PROVE  Exact(t, layer'[t])
  BY <1>4 DEF LayerInv
<1>. QED
  BY <1>2, <1>3, <1>4 DEF LayerInv

\* Only an ack completes a task, and only the one at hand.
LEMMA OnlyAckCompletes ==
  ASSUME TypeInv, NEW w \in Workers, Work(w) \/ Failure(w),
         NEW t \in Tasks, status'[t] = "COMPLETED"
  PROVE  status[t] = "COMPLETED" \/ (t = cur[w] /\ pc[w] = "ack")
<1> USE DEF TypeInv, TypeOK
<1>1. CASE UNCHANGED status
  BY <1>1
<1>2. CASE DequeueFails(w) \/ \E u \in Tasks : DequeueTask(w, u)
  BY <1>2 DEF DequeueFails, DequeueTask
<1>3. CASE Ack(w) \/ AckFails(w)
  BY <1>3 DEF Ack, AckFails, SetStatus
<1>4. CASE ApplyReject(w)
  BY <1>4 DEF ApplyReject, SetStatus
<1>. QED
  BY <1>1, <1>2, <1>3, <1>4 DEF Work, Failure, DequeueNothing, GetJob, Process, NotifyDone,
     CallBackDone, Reject, NotifyFailed, CallBackFailed, WakeUp, Restart, GetJobFails,
     NotifyDoneFails, CallBackDoneFails, RejectFails, NotifyFailedFails,
     CallBackFailedFails, Crash, manager

\* A step that leaves packages alone, and does not bring its worker to the handler
\* or to the ack, keeps the invariant.
LEMMA ElsewhereStep ==
  ASSUME TypeInv, OwnInv, LayerInv, NEW w \in Workers, Work(w) \/ Failure(w),
         \A v \in Workers \ {w} : pc'[v] = pc[v] /\ cur'[v] = cur[v],
         pc'[w] # "ack", features[w] = None, UNCHANGED handler
  PROVE  LayerInv'
<1>1. features' = features /\ layer' = layer
  BY DEF handler
<1>2. \A t \in Tasks : status'[t] = "COMPLETED" =>
        status[t] = "COMPLETED" \/ (t = cur[w] /\ pc[w] = "ack")
  BY OnlyAckCompletes
<1>3. \A t \in Tasks : status'[t] = "COMPLETED" => Exact(t, layer'[t])
  BY <1>1, <1>2 DEF LayerInv
<1>4. /\ features' = [v \in Workers |-> features'[v]]
      /\ layer' = [t \in Tasks |-> layer'[t]]
  BY <1>1 DEF LayerInv
<1>5. ASSUME NEW v \in Workers \ {w}
      PROVE  pc'[v] = pc[v] /\ cur'[v] = cur[v] /\ features'[v] = features[v]
  BY <1>1
<1>6. /\ \A t \in Tasks : layer'[t] = layer[t] \/ t = cur[w]
      /\ \A t \in Tasks : status'[t] = "COMPLETED" =>
           status[t] = "COMPLETED" \/ (t = cur[w] /\ Exact(t, layer'[t]))
      /\ cur[w] \in Tasks /\ status'[cur[w]] = "COMPLETED" =>
           Exact(cur[w], layer'[cur[w]])
      /\ features'[w] = None
  BY <1>1, <1>2, <1>3
<1>. QED
  BY <1>4, <1>5, <1>6, LayerStep

\* One step of one worker leaves the others where they are.
LEMMA OthersStay ==
  ASSUME TypeInv, NEW w \in Workers, Work(w) \/ Failure(w), NEW v \in Workers \ {w}
  PROVE  pc'[v] = pc[v] /\ cur'[v] = cur[v]
BY DEF TypeInv, TypeOK, Work, Failure, DequeueTask, DequeueNothing, DequeueFails, GetJob,
   GetJobFails, StartHandler, Process, Ack, AckFails, NotifyDone, NotifyDoneFails,
   CallBackDone, CallBackDoneFails, Reject, RejectFails, NotifyFailed, NotifyFailedFails,
   CallBackFailed, CallBackFailedFails, Crash, WakeUp, Restart, Exit, LetGo, Throw, Goto

LEMMA StepLayerInv ==
  TypeInv /\ OwnInv /\ LayerInv /\ [ExportNext]_evars => LayerInv'
<1> SUFFICES ASSUME TypeInv, OwnInv, LayerInv, [ExportNext]_evars PROVE LayerInv'
  OBVIOUS
<1>1. ASSUME NEW w \in Workers, Begin(w) PROVE LayerInv'
  <2>1. pc[w] = "getJob" /\ pc'[w] = "process" /\ Work(w)
    BY <1>1 DEF Begin, Enter, GetJob, Work
  <2>. QED
    BY <1>1, <2>1, OthersStay, ElsewhereStep DEF Begin, LayerInv
<1>2. ASSUME NEW w \in Workers, FindParts(w) PROVE LayerInv'
  <2>1. PICK parts \in Answers[cur[w]] :
          /\ Matched(cur[w], parts)
          /\ features' = [features EXCEPT ![w] = ManipulateFeatures(cur[w], parts)]
    BY <1>2 DEF FindParts
  <2>2. /\ pc[w] = "process" /\ cur[w] \in Tasks
        /\ pc' = pc /\ cur' = cur /\ status' = status /\ layer' = layer
    BY <1>2 DEF FindParts, mvars, vars, manager, worker, TypeInv, AtHand, Holding
  <2>3. features'[w] = ManipulateFeatures(cur[w], parts)
        /\ features' = [v \in Workers |-> features'[v]]
        /\ \A v \in Workers \ {w} : features'[v] = features[v]
    BY <2>1 DEF LayerInv
  <2>4. Exact(cur[w], features'[w])
    BY <2>1, <2>2, <2>3, ManipulateIsExact DEF Exact
  <2>. QED
    BY <2>2, <2>3, <2>4, LayerStep DEF LayerInv
<1>3. ASSUME NEW w \in Workers, WriteLayer(w) PROVE LayerInv'
  <2>1. /\ cur[w] \in Tasks /\ features[w] # None /\ Exact(cur[w], features[w])
        /\ pc'[w] = "ack" /\ cur' = cur /\ status' = status
        /\ \A v \in Workers \ {w} : pc'[v] = pc[v]
    BY <1>3 DEF WriteLayer, Continues, InCallback, Process, Ack, AckFails, NotifyDone,
       NotifyDoneFails, CallBackDone, CallBackDoneFails, Throw, Goto, manager, TypeInv,
       TypeOK, AtHand, Holding, LayerInv
  <2>2. /\ layer'[cur[w]] = features[w] /\ features'[w] = None
        /\ layer' = [t \in Tasks |-> layer'[t]]
        /\ features' = [v \in Workers |-> features'[v]]
        /\ \A t \in Tasks : layer'[t] = layer[t] \/ t = cur[w]
        /\ \A v \in Workers \ {w} : features'[v] = features[v]
    BY <1>3, <2>1 DEF WriteLayer, LayerInv
  <2>. QED
    BY <2>1, <2>2, LayerStep
<1>4. ASSUME NEW w \in Workers, CutShort(w), pc[w] = "process", pc'[w] # "ack",
             pc'[w] # "process", Work(w) \/ Failure(w)
      PROVE  LayerInv'
  <2>1. cur[w] \in Tasks /\ status[cur[w]] = "IN_PROGRESS"
    BY <1>4 DEF TypeInv, AtHand, Holding, OwnInv, Owned, OwnStatus
  <2>2. \A t \in Tasks : status'[t] = "COMPLETED" => status[t] = "COMPLETED" /\ t # cur[w]
    BY <1>4, <2>1, OnlyAckCompletes
  <2>3. /\ features'[w] = None
        /\ layer' = [t \in Tasks |-> layer'[t]]
        /\ features' = [v \in Workers |-> features'[v]]
        /\ \A t \in Tasks : layer'[t] = layer[t] \/ t = cur[w]
        /\ \A v \in Workers \ {w} : features'[v] = features[v]
    BY <1>4, <2>1 DEF CutShort, LayerInv
  <2>. QED
    BY <1>4, <2>2, <2>3, OthersStay, LayerStep
<1>5. ASSUME NEW w \in Workers, HandlerThrows(w) PROVE LayerInv'
  <2>1. pc[w] = "process" /\ pc'[w] = "reject" /\ CutShort(w) /\ (Work(w) \/ Failure(w))
    BY <1>5 DEF HandlerThrows, Throws, InCallback, Work, Failure
  <2>. QED
    BY <1>4, <2>1
<1>6. ASSUME NEW w \in Workers, Elsewhere(w) PROVE LayerInv'
  <2>1. /\ Work(w) \/ Failure(w)
        /\ UNCHANGED handler
        /\ pc'[w] \notin {"process", "ack"}
        /\ features[w] = None \/ pc[w] = "process"
    BY <1>6 DEF Elsewhere, EnterThrows, Returns, Outside, Continues, Throws, InCallback, Work,
       Failure, DequeueTask, DequeueNothing, DequeueFails, GetJobFails, Reject,
       NotifyFailed, CallBackFailed, WakeUp, Restart, LetGo, Process, Ack, AckFails,
       NotifyDone, NotifyDoneFails, CallBackDone, CallBackDoneFails, Throw, Goto, LayerInv,
       TypeInv, TypeOK
  <2>2. pc[w] # "process"
    BY <1>6, <2>1 DEF Elsewhere, EnterThrows, Returns, Outside, InCallback, GetJob,
       DequeueTask, DequeueNothing, DequeueFails, GetJobFails, Reject, NotifyFailed,
       CallBackFailed, WakeUp, Restart, Process, Ack, AckFails, NotifyDone,
       NotifyDoneFails, CallBackDone, CallBackDoneFails, Throw, Goto, TypeInv, TypeOK
  <2>. QED
    BY <2>1, <2>2, OthersStay, ElsewhereStep
<1>7. ASSUME NEW w \in Workers, Dies(w) PROVE LayerInv'
  <2>1. Failure(w) /\ CutShort(w) /\ pc'[w] = "exited"
    BY <1>7 DEF Dies, Ends, Failure, RejectFails, NotifyFailedFails, CallBackFailedFails,
       Crash, Exit, LetGo, Goto, TypeInv, TypeOK
  <2>2. CASE pc[w] = "process"
    BY <1>4, <2>1, <2>2
  <2>3. CASE pc[w] # "process"
    <3>1. features[w] = None
      BY <2>3 DEF LayerInv
    <3>2. UNCHANGED handler
      BY <2>1, <3>1 DEF CutShort, handler, LayerInv
    <3>. QED
      BY <2>1, <3>1, <3>2, OthersStay, ElsewhereStep
  <2>. QED
    BY <2>2, <2>3
<1>8. CASE TakeBack /\ UNCHANGED handler
  <2>1. /\ pc' = pc /\ cur' = cur /\ features' = features /\ layer' = layer
        /\ \A t \in Tasks : status'[t] = "COMPLETED" => status[t] = "COMPLETED"
    BY <1>8 DEF TakeBack, Release, FalseTimeout, Requeue, SetStatus, worker, handler,
       TypeInv, TypeOK
  <2>. QED
    BY <2>1 DEF LayerInv
<1>9. CASE UNCHANGED evars
  BY <1>9 DEF evars, mvars, vars, manager, worker, handler, LayerInv
<1>. QED
  BY <1>1, <1>2, <1>3, <1>5, <1>6, <1>7, <1>8, <1>9 DEF ExportNext

\* As long as no live worker is declared dead, the layer of a completed task is
\* that of one answer, whatever failed or was killed while it was written.
THEOREM LayerStaysExact == ASSUME MaxTimeouts = 0 PROVE ExportSpec => []LayerExact
<1>1. ExportInit => Init /\ LayerInv
  BY DEF ExportInit, MetricsInit, Init, LayerInv
<1>2. LayerInv => LayerExact
  BY DEF LayerInv, LayerExact, Exact
<1>3. TypeInv /\ TypeInv' /\ OwnInv /\ [Next]_vars => OwnInv'
  BY StepOwn
<1>. QED
  BY <1>1, <1>2, <1>3, InitTypeInv, StepTypeInv, InitOwn, StepLayerInv, MeteredIsLoop,
     ExportIsMetered, PTL DEF ExportSpec

-----------------------------------------------------------------------------
(* The successes.  An attempt is a token again: it is queued, with a worker, *)
(* or spent on a success, and what it is spent on is a completed task.      *)

\* The workers whose attempt may yet come to a success or put its task back.
Active ==
  {w \in Workers :
     pc[w] \in {"getJob", "process", "ack", "notifyDone", "callBackDone", "reject"}}

Behind(t, w) == cur[w] = t /\ pc[w] \notin {"notifyDone", "callBackDone"}

\* The tasks that have used up an attempt: those completed and told, and those
\* whose outcome a worker is about to bring about.
Spent ==
  {t \in Tasks :
     \/ status[t] = "COMPLETED" /\ (t \in told \/ \E w \in Active : cur[w] = t)
     \/ status[t] = "IN_PROGRESS" /\ \E w \in Active : Behind(t, w)}

Balance(S, A, T, n) ==
  /\ IsFiniteSet(S) /\ IsFiniteSet(A) /\ IsFiniteSet(T) /\ n \in Nat
  /\ Cardinality(S) + Cardinality(A) <= Cardinality(T) + n

SuccessInv ==
  /\ succeeded \in [Workers -> Nat]
  /\ \A w \in Workers : pc[w] = "callBackDone" => cur[w] \in told
  /\ Balance(Successes, Active, Spent, timeouts)

\* A subset of a finite set and one element, without one of its elements or not.
LEMMA Sizes ==
  ASSUME NEW S, NEW S1, NEW x, IsFiniteSet(S)
  PROVE  /\ S1 \subseteq S \cup {x} =>
              /\ IsFiniteSet(S1) /\ Cardinality(S1) \in Nat /\ Cardinality(S) \in Nat
              /\ Cardinality(S1) <= Cardinality(S) + 1
              /\ S1 \subseteq S => Cardinality(S1) <= Cardinality(S)
              /\ S \subseteq S1 => Cardinality(S1) >= Cardinality(S)
              /\ S \subseteq S1 \cup {x} => Cardinality(S1) >= Cardinality(S) - 1
              /\ S \subseteq S1 /\ x \in S1 /\ x \notin S =>
                   Cardinality(S1) >= Cardinality(S) + 1
         /\ x \in S /\ S1 \subseteq S \ {x} => Cardinality(S1) <= Cardinality(S) - 1
<1>1. ASSUME S1 \subseteq S \cup {x}
      PROVE  /\ IsFiniteSet(S1) /\ Cardinality(S1) \in Nat /\ Cardinality(S) \in Nat
             /\ Cardinality(S1) <= Cardinality(S) + 1
             /\ S1 \subseteq S => Cardinality(S1) <= Cardinality(S)
             /\ S \subseteq S1 => Cardinality(S1) >= Cardinality(S)
             /\ S \subseteq S1 \cup {x} => Cardinality(S1) >= Cardinality(S) - 1
             /\ S \subseteq S1 /\ x \in S1 /\ x \notin S =>
                  Cardinality(S1) >= Cardinality(S) + 1
  <2>1. /\ IsFiniteSet(S \cup {x}) /\ Cardinality(S) \in Nat
        /\ Cardinality(S \cup {x}) = (IF x \in S THEN Cardinality(S) ELSE Cardinality(S) + 1)
    BY FS_AddElement, FS_CardinalityType, x \in S => S \cup {x} = S
  <2>2. /\ IsFiniteSet(S1) /\ Cardinality(S1) \in Nat
        /\ Cardinality(S1) <= Cardinality(S \cup {x})
    BY <1>1, <2>1, FS_Subset, FS_CardinalityType
  <2>3. S1 \subseteq S => Cardinality(S1) <= Cardinality(S)
    BY FS_Subset
  <2>4. S \subseteq S1 => Cardinality(S1) >= Cardinality(S)
    BY <2>1, <2>2, FS_Subset
  <2>5. ASSUME S \subseteq S1 \cup {x} PROVE Cardinality(S1) >= Cardinality(S) - 1
    <3>1. /\ IsFiniteSet(S1 \cup {x})
          /\ Cardinality(S1 \cup {x}) \in {Cardinality(S1), Cardinality(S1) + 1}
      BY <2>2, FS_AddElement, x \in S1 => S1 \cup {x} = S1
    <3>2. Cardinality(S) <= Cardinality(S1 \cup {x})
      BY <2>5, <3>1, FS_Subset
    <3>. QED
      BY <2>1, <2>2, <3>1, <3>2
  <2>6. ASSUME S \subseteq S1, x \in S1, x \notin S
        PROVE  Cardinality(S1) >= Cardinality(S) + 1
    <3>1. S1 = S \cup {x}
      BY <1>1, <2>6
    <3>. QED
      BY <2>1, <2>6, <3>1
  <2>. QED
    BY <2>1, <2>2, <2>3, <2>4, <2>5, <2>6
<1>2. ASSUME x \in S, S1 \subseteq S \ {x} PROVE Cardinality(S1) <= Cardinality(S) - 1
  <2>1. IsFiniteSet(S \ {x}) /\ Cardinality(S \ {x}) = Cardinality(S) - 1
    BY <1>2, FS_RemoveElement
  <2>. QED
    BY <1>2, <2>1, FS_Subset
<1>. QED
  BY <1>1, <1>2

\* What a step about one worker a and one task u may do: nothing is spent that was
\* not, a token goes with the worker that had it or is turned into the success s,
\* a task becomes one, or a false timeout makes up for it.
Trade(S, A, T, n, S1, A1, T1, n1, s, a, u) ==
  /\ S1 \subseteq S \cup {s} /\ A1 \subseteq A \cup {a} /\ T1 \subseteq T \cup {u}
  /\ T \subseteq T1 \cup {u} /\ n1 \in Nat
  /\ \/ S1 \subseteq S /\ A1 \subseteq A /\ T \subseteq T1 /\ n1 = n
     \/ S1 \subseteq S /\ a \in A /\ A1 \subseteq A \ {a} /\ n1 = n
     \/ a \in A /\ A1 \subseteq A \ {a} /\ T \subseteq T1 /\ n1 = n
     \/ S1 \subseteq S /\ T \subseteq T1 /\ u \in T1 /\ u \notin T /\ n1 = n
     \/ S1 \subseteq S /\ A1 \subseteq A /\ n1 = n + 1

\* Every such step keeps the balance.
LEMMA BalanceKept ==
  ASSUME NEW S, NEW A, NEW T, NEW n, NEW S1, NEW A1, NEW T1, NEW n1, NEW s, NEW a, NEW u,
         Balance(S, A, T, n), Trade(S, A, T, n, S1, A1, T1, n1, s, a, u)
  PROVE  Balance(S1, A1, T1, n1)
<1>1. /\ IsFiniteSet(S) /\ IsFiniteSet(A) /\ IsFiniteSet(T) /\ n \in Nat
      /\ Cardinality(S) + Cardinality(A) <= Cardinality(T) + n
  BY DEF Balance
<1>2. /\ IsFiniteSet(S1) /\ Cardinality(S1) \in Nat /\ Cardinality(S) \in Nat
      /\ Cardinality(S1) <= Cardinality(S) + 1
      /\ S1 \subseteq S => Cardinality(S1) <= Cardinality(S)
  BY <1>1, Sizes DEF Trade
<1>3. /\ IsFiniteSet(A1) /\ Cardinality(A1) \in Nat /\ Cardinality(A) \in Nat
      /\ Cardinality(A1) <= Cardinality(A) + 1
      /\ A1 \subseteq A => Cardinality(A1) <= Cardinality(A)
      /\ a \in A /\ A1 \subseteq A \ {a} => Cardinality(A1) <= Cardinality(A) - 1
  BY <1>1, Sizes DEF Trade
<1>4. /\ IsFiniteSet(T1) /\ Cardinality(T1) \in Nat /\ Cardinality(T) \in Nat
      /\ Cardinality(T1) >= Cardinality(T) - 1
      /\ T \subseteq T1 => Cardinality(T1) >= Cardinality(T)
      /\ T \subseteq T1 /\ u \in T1 /\ u \notin T => Cardinality(T1) >= Cardinality(T) + 1
  BY <1>1, Sizes DEF Trade
<1>5. Cardinality(S1) + Cardinality(A1) <= Cardinality(T1) + n1
  BY <1>1, <1>2, <1>3, <1>4 DEF Trade
<1>. QED
  BY <1>2, <1>3, <1>4, <1>5 DEF Balance, Trade

\* What a step does to the successes.
LEMMA SuccessesStep ==
  ASSUME succeeded \in [Workers -> Nat], NEW w \in Workers
  PROVE  /\ UNCHANGED succeeded => Successes' = Successes
         /\ succeeded' = [succeeded EXCEPT ![w] = 0] =>
              Successes' \subseteq Successes /\ succeeded' \in [Workers -> Nat]
         /\ RecordSuccess(w) =>
              /\ Successes' \subseteq Successes \cup {<<w, succeeded[w] + 1>>}
              /\ succeeded' \in [Workers -> Nat]
<1>1. UNCHANGED succeeded => Successes' = Successes
  BY DEF Successes
<1>2. ASSUME succeeded' = [succeeded EXCEPT ![w] = 0]
      PROVE  Successes' \subseteq Successes /\ succeeded' \in [Workers -> Nat]
  <2>1. \A v \in Workers : 1 .. succeeded'[v] \subseteq 1 .. succeeded[v]
    BY <1>2
  <2>. QED
    BY <1>2, <2>1 DEF Successes
<1>3. ASSUME RecordSuccess(w)
      PROVE  /\ Successes' \subseteq Successes \cup {<<w, succeeded[w] + 1>>}
             /\ succeeded' \in [Workers -> Nat]
  <2>1. \A v \in Workers : v # w => succeeded'[v] = succeeded[v]
    BY <1>3 DEF RecordSuccess
  <2>2. 1 .. succeeded'[w] \subseteq 1 .. succeeded[w] \cup {succeeded[w] + 1}
    BY <1>3 DEF RecordSuccess
  <2>3. succeeded' \in [Workers -> Nat]
    BY <1>3 DEF RecordSuccess
  <2>. QED
    BY <2>1, <2>2, <2>3 DEF Successes
<1>. QED
  BY <1>1, <1>2, <1>3

\* A step of w that is about the task u alone leaves every other task spent or not.
LEMMA SpentFrame ==
  ASSUME NEW w \in Workers, NEW u,
         \A v \in Workers \ {w} : pc'[v] = pc[v] /\ cur'[v] = cur[v],
         \A t \in Tasks \ {u} : status'[t] = status[t],
         cur[w] \in {u, NoTask}, cur'[w] \in {u, NoTask},
         told \subseteq told', told' \subseteq told \cup {u}
  PROVE  /\ Spent' \subseteq Spent \cup {u} /\ Spent \subseteq Spent' \cup {u}
         /\ Active' \subseteq Active \cup {w} /\ Active \subseteq Active' \cup {w}
         /\ w \notin Active' => Active' \subseteq Active \ {w}
<1>1. /\ Active' \subseteq Active \cup {w} /\ Active \subseteq Active' \cup {w}
      /\ w \notin Active' => Active' \subseteq Active \ {w}
  BY DEF Active
<1>2. ASSUME NEW t \in Tasks \ {u}, NEW v \in Workers, v # w
      PROVE  /\ v \in Active <=> v \in Active'
             /\ cur[v] = t <=> cur'[v] = t
             /\ Behind(t, v) <=> Behind(t, v)'
  BY <1>2 DEF Active, Behind
<1>3. ASSUME NEW t \in Tasks \ {u} PROVE cur[w] # t /\ cur'[w] # t
  BY ConstantsOK
<1>4. ASSUME NEW t \in Tasks \ {u} PROVE t \in Spent <=> t \in Spent'
  <2>1. /\ status'[t] = status[t] /\ (t \in told <=> t \in told')
    BY <1>4
  <2>2. (\E v \in Active : cur[v] = t) <=> (\E v \in Active' : cur'[v] = t)
    BY <1>2, <1>3 DEF Active
  <2>3. (\E v \in Active : Behind(t, v)) <=> (\E v \in Active' : Behind(t, v)')
    BY <1>2, <1>3 DEF Active, Behind
  <2>. QED
    BY <2>1, <2>2, <2>3 DEF Spent
<1>. QED
  BY <1>1, <1>4 DEF Spent

\* Every step of the metered loop keeps the balance.
LEMMA StepSuccessInv ==
  TypeInv /\ TypeInv' /\ LoopInv /\ SuccessInv /\ [MetricsNext]_mvars => SuccessInv'
<1> SUFFICES ASSUME TypeInv, TypeInv', LoopInv, SuccessInv, [MetricsNext]_mvars
             PROVE  SuccessInv'
  OBVIOUS
<1> USE DEF TypeInv, TypeOK
<1>1. /\ succeeded \in [Workers -> Nat] /\ timeouts \in Nat /\ timeouts' \in Nat
      /\ Balance(Successes, Active, Spent, timeouts)
  BY DEF SuccessInv
\* The frame of a step of w about the task u.
<1>2. ASSUME NEW w \in Workers, NEW u,
             \A v \in Workers \ {w} : pc'[v] = pc[v] /\ cur'[v] = cur[v],
             \A t \in Tasks \ {u} : status'[t] = status[t],
             cur[w] \in {u, NoTask}, cur'[w] \in {u, NoTask},
             told \subseteq told', told' \subseteq told \cup {u},
             timeouts' = timeouts,
             pc'[w] = "callBackDone" => cur'[w] \in told',
             \/ UNCHANGED succeeded \/ succeeded' = [succeeded EXCEPT ![w] = 0]
             \/ RecordSuccess(w) /\ w \in Active \ Active' /\ Spent \subseteq Spent',
             \/ w \in Active /\ w \notin Active'
             \/ Active' \subseteq Active /\ Spent \subseteq Spent'
             \/ Spent \subseteq Spent' /\ u \in Spent' /\ u \notin Spent
      PROVE  SuccessInv'
  <2>1. /\ Spent' \subseteq Spent \cup {u} /\ Spent \subseteq Spent' \cup {u}
        /\ Active' \subseteq Active \cup {w}
        /\ w \notin Active' => Active' \subseteq Active \ {w}
    BY <1>2, SpentFrame
  <2>2. /\ Successes' \subseteq Successes \cup {<<w, succeeded[w] + 1>>}
        /\ succeeded' \in [Workers -> Nat]
        /\ \/ Successes' \subseteq Successes
           \/ w \in Active /\ Active' \subseteq Active \ {w} /\ Spent \subseteq Spent'
    <3>1. CASE UNCHANGED succeeded
      <4>1. Successes' = Successes
        BY <1>1, <3>1, SuccessesStep
      <4>. QED
        BY <1>1, <3>1, <4>1
    <3>3. CASE succeeded' = [succeeded EXCEPT ![w] = 0]
      <4>1. Successes' \subseteq Successes /\ succeeded' \in [Workers -> Nat]
        BY <1>1, <3>3, SuccessesStep
      <4>. QED
        BY <4>1
    <3>2. CASE RecordSuccess(w) /\ w \in Active \ Active' /\ Spent \subseteq Spent'
      BY <1>1, <2>1, <3>2, SuccessesStep
    <3>. QED
      BY <1>2, <3>1, <3>2, <3>3
  <2>3. \A v \in Workers : pc'[v] = "callBackDone" => cur'[v] \in told'
    <3> SUFFICES ASSUME NEW v \in Workers, v # w, pc'[v] = "callBackDone"
                 PROVE  cur'[v] \in told'
      BY <1>2
    <3>1. pc'[v] = pc[v] /\ cur'[v] = cur[v] /\ told \subseteq told'
      BY <1>2
    <3>. QED
      BY <3>1 DEF SuccessInv
  <2>4. Trade(Successes, Active, Spent, timeouts, Successes', Active', Spent', timeouts',
              <<w, succeeded[w] + 1>>, w, u)
    BY <1>1, <1>2, <2>1, <2>2 DEF Trade
  <2>5. Balance(Successes', Active', Spent', timeouts')
    BY <1>1, <2>4, BalanceKept
  <2>. QED
    BY <2>2, <2>3, <2>5 DEF SuccessInv, Balance
<1>3. ASSUME NEW w \in Workers, GetJob(w), UNCHANGED succeeded PROVE SuccessInv'
  <2>1. /\ pc' = [pc EXCEPT ![w] = pc'[w]] /\ pc[w] = "getJob"
        /\ pc'[w] \in {"process", "reject"}
        /\ UNCHANGED <<cur, status, told, timeouts>>
    BY <1>3 DEF GetJob, StartHandler, Throw, Goto, manager, heard, bounds
  <2>2. /\ Active' = Active /\ \A t \in Tasks, v \in Workers : Behind(t, v) <=> Behind(t, v)'
    BY <2>1 DEF Active, Behind
  <2>3. Spent \subseteq Spent'
    BY <2>1, <2>2 DEF Spent, Active
  <2>. QED
    BY <1>2, <1>3, <2>1, <2>2, <2>3
<1>4. ASSUME NEW w \in Workers, InCallback(w), pc'[w] # "sleep", UNCHANGED succeeded
      PROVE  SuccessInv'
  <2>1. /\ \A v \in Workers \ {w} : pc'[v] = pc[v]
        /\ UNCHANGED <<cur, timeouts>>
        /\ w \in Active /\ w \in Active'
        /\ Behind(cur[w], w)' \/ ~ Behind(cur[w], w) \/ status'[cur[w]] = "COMPLETED"
        /\ \A t \in Tasks \ {cur[w]} : status'[t] = status[t]
        /\ status'[cur[w]] \in {status[cur[w]], "COMPLETED"}
        /\ told' \in {told, told \cup {cur[w]}}
        /\ pc'[w] = "callBackDone" => cur[w] \in told'
    BY <1>4, <1>1 DEF InCallback, Process, Ack, AckFails, NotifyDone, NotifyDoneFails,
       CallBackDone, CallBackDoneFails, LetGo, Throw, Goto, SetStatus, Fault, manager, heard,
       bounds, Active, Behind, AtHand, Holding
  <2>2. Active' = Active
    BY <2>1 DEF Active
  <2>3. \A t \in Tasks, v \in Workers : v # w => (Behind(t, v) <=> Behind(t, v)')
    BY <2>1 DEF Behind
  <2>4. Spent \subseteq Spent'
    <3> SUFFICES ASSUME NEW t \in Spent PROVE t \in Spent'
      OBVIOUS
    <3>1. CASE status[t] = "COMPLETED"
      <4>1. status'[t] = "COMPLETED"
        BY <2>1, <3>1 DEF Spent
      <4>. QED
        BY <2>1, <2>2, <3>1, <4>1 DEF Spent
    <3>2. CASE status[t] = "IN_PROGRESS"
      <4>1. PICK v \in Active : Behind(t, v)
        BY <3>2 DEF Spent
      <4>2. cur'[v] = t /\ status'[t] \in {status[t], "COMPLETED"} /\ t \in Tasks
        BY <2>1, <4>1 DEF Behind, Spent
      <4>3. CASE status'[t] = "COMPLETED"
        BY <2>2, <4>2, <4>3 DEF Spent
      <4>4. CASE status'[t] = "IN_PROGRESS"
        <5>1. Behind(t, v)'
          BY <2>1, <2>3, <4>1, <4>4 DEF Behind, Active
        <5>. QED
          BY <2>2, <4>2, <4>4, <5>1 DEF Spent
      <4>. QED
        BY <3>2, <4>2, <4>3, <4>4
    <3>. QED
      BY <3>1, <3>2 DEF Spent
  <2>. QED
    BY <1>2, <1>4, <2>1, <2>2, <2>4
<1>5. ASSUME NEW w \in Workers, Returns(w) PROVE SuccessInv'
  <2>1. /\ pc[w] \in {"notifyDone", "callBackDone"} /\ cur[w] \in Tasks
        /\ LetGo(w, "sleep") /\ UNCHANGED <<status, timeouts>>
        /\ told' \in {told, told \cup {cur[w]}} /\ cur[w] \in told'
    BY <1>5 DEF Returns, InCallback, Process, Ack, AckFails, NotifyDone, NotifyDoneFails,
       CallBackDone, CallBackDoneFails, Throw, Goto, manager, heard, bounds, SuccessInv,
       AtHand, Holding
  <2>2. /\ \A v \in Workers \ {w} : pc'[v] = pc[v] /\ cur'[v] = cur[v]
        /\ pc'[w] = "sleep" /\ cur'[w] = NoTask /\ w \in Active \ Active'
    BY <2>1 DEF LetGo, Goto, Active
  <2>3. Spent \subseteq Spent'
    <3> SUFFICES ASSUME NEW t \in Spent PROVE t \in Spent'
      OBVIOUS
    <3>1. \A v \in Active : v # w => v \in Active' /\ (Behind(t, v) => Behind(t, v)')
      BY <2>2 DEF Active, Behind
    <3>2. CASE status[t] = "COMPLETED" /\ (t \in told \/ cur[w] = t)
      BY <2>1, <3>2 DEF Spent
    <3>3. CASE status[t] = "COMPLETED" /\ \E v \in Active : v # w /\ cur[v] = t
      <4>1. PICK v \in Active : v # w /\ cur[v] = t
        BY <3>3
      <4>2. v \in Active' /\ cur'[v] = t
        BY <2>2, <3>1, <4>1 DEF Active
      <4>. QED
        BY <2>1, <3>3, <4>2 DEF Spent
    <3>4. CASE status[t] = "IN_PROGRESS"
      <4>1. PICK v \in Active : Behind(t, v)
        BY <3>4 DEF Spent
      <4>2. v # w
        BY <2>1, <4>1 DEF Behind
      <4>. QED
        BY <2>1, <3>1, <3>4, <4>1, <4>2 DEF Spent
    <3>. QED
      BY <3>2, <3>3, <3>4 DEF Spent
  <2>. QED
    BY <1>2, <1>5, <2>1, <2>2, <2>3 DEF Returns
<1>6. ASSUME NEW w \in Workers, Throws(w) \/ Continues(w) PROVE SuccessInv'
  BY <1>4, <1>6 DEF Throws, Continues, metrics
\* A worker that lets go of a task, outside the callback or for good.
<1>7. ASSUME NEW w \in Workers, NEW p \in {"dequeue", "sleep", "exited"}, LetGo(w, p),
             told' \in {told, told \cup {cur[w]}}, UNCHANGED timeouts,
             \A t \in Tasks \ {cur[w]} : status'[t] = status[t],
             w \notin Active => UNCHANGED status,
             UNCHANGED succeeded \/ succeeded' = [succeeded EXCEPT ![w] = 0]
      PROVE  SuccessInv'
  <2>1. /\ \A v \in Workers \ {w} : pc'[v] = pc[v] /\ cur'[v] = cur[v]
        /\ pc'[w] = p /\ cur'[w] = NoTask /\ w \notin Active'
    BY <1>7 DEF LetGo, Goto, Active
  <2>2. w \notin Active => Active' \subseteq Active /\ Spent \subseteq Spent'
    BY <1>7, <2>1 DEF Active, Spent, Behind
  <2>. QED
    BY <1>2, <1>7, <2>1, <2>2
\* A step elsewhere in the loop that neither ends nor begins an attempt.
<1>8. ASSUME NEW w \in Workers, NEW p \in {"dequeue", "sleep", "callBackFailed"},
             w \notin Active, Goto(w, p),
             told' \in {told, told \cup {cur[w]}}, UNCHANGED <<timeouts, cur, status, succeeded>>
      PROVE  SuccessInv'
  <2>1. /\ \A v \in Workers \ {w} : pc'[v] = pc[v] /\ cur'[v] = cur[v]
        /\ pc'[w] = p /\ w \notin Active'
    BY <1>8 DEF Goto, Active
  <2>2. Active' \subseteq Active /\ Spent \subseteq Spent'
    BY <1>8, <2>1 DEF Active, Spent, Behind
  <2>. QED
    BY <1>2, <1>8, <2>1, <2>2
<1>9. ASSUME NEW w \in Workers, NEW t \in Tasks, DequeueTask(w, t), UNCHANGED succeeded
      PROVE  SuccessInv'
  <2>1. /\ pc[w] = "dequeue" /\ cur[w] = NoTask /\ status[t] = "PENDING"
        /\ pc' = [pc EXCEPT ![w] = "getJob"] /\ cur' = [cur EXCEPT ![w] = t]
        /\ status' = [status EXCEPT ![t] = "IN_PROGRESS"]
        /\ UNCHANGED <<told, timeouts>>
    BY <1>9 DEF DequeueTask, Available, Goto, heard, bounds, LoopInv, Holding
  <2>2. /\ w \notin Active /\ w \in Active' /\ Behind(t, w)'
        /\ \A v \in Active : v \in Active' /\ cur'[v] = cur[v]
        /\ \A v \in Active, u \in Tasks : Behind(u, v) => Behind(u, v)'
    BY <2>1 DEF Active, Behind
  <2>3. t \notin Spent /\ t \in Spent'
    BY <2>1, <2>2 DEF Spent
  <2>4. Spent \subseteq Spent'
    BY <2>1, <2>2, <2>3 DEF Spent
  <2>5. /\ \A v \in Workers \ {w} : pc'[v] = pc[v] /\ cur'[v] = cur[v]
        /\ pc'[w] = "getJob" /\ cur'[w] = t
        /\ \A u \in Tasks \ {t} : status'[u] = status[u]
    BY <2>1
  <2>. QED
    BY <1>2, <1>9, <2>1, <2>3, <2>4, <2>5
<1>10. ASSUME NEW w \in Workers, UNCHANGED succeeded,
              DequeueNothing(w) \/ DequeueFails(w) \/ WakeUp(w) \/ Restart(w)
       PROVE  SuccessInv'
  <2>1. /\ pc[w] \in {"dequeue", "sleep", "exited"} /\ cur[w] = NoTask
        /\ \A v \in Workers \ {w} : pc'[v] = pc[v]
        /\ pc'[w] \in {"dequeue", "sleep"}
        /\ UNCHANGED <<cur, told, timeouts>>
    BY <1>10 DEF DequeueNothing, DequeueFails, WakeUp, Restart, Goto, Fault, heard, bounds,
       LoopInv, Holding
  <2>2. PICK u : /\ \A t \in Tasks \ {u} : status'[t] = status[t]
                 /\ u \in Tasks => \/ status'[u] = status[u]
                                   \/ status[u] = "PENDING"
    BY <1>10 DEF DequeueNothing, DequeueFails, WakeUp, Restart, Available, manager
  <2>3. Active' = Active
    BY <2>1 DEF Active
  <2>4. \A t \in Tasks, v \in Active : Behind(t, v) => Behind(t, v)'
    BY <2>1 DEF Active, Behind
  <2>5. Spent \subseteq Spent'
    BY <2>1, <2>2, <2>3, <2>4 DEF Spent
  <2>. QED
    BY <1>2, <1>10, <2>1, <2>2, <2>3, <2>5
<1>11. ASSUME NEW w \in Workers, GetJobFails(w), UNCHANGED succeeded PROVE SuccessInv'
  BY <1>7, <1>11 DEF GetJobFails, Fault, manager, heard
<1>12. ASSUME NEW w \in Workers, Reject(w), UNCHANGED succeeded PROVE SuccessInv'
  <2>1. /\ pc[w] = "reject" /\ w \in Active
        /\ \A t \in Tasks \ {cur[w]} : status'[t] = status[t]
        /\ UNCHANGED <<told, timeouts>>
    BY <1>12 DEF Reject, ApplyReject, SetStatus, heard, bounds, Active
  <2>2. CASE LetGo(w, "sleep")
    BY <1>7, <1>12, <2>1, <2>2
  <2>3. CASE Goto(w, "notifyFailed") /\ UNCHANGED cur
    <3>1. /\ \A v \in Workers \ {w} : pc'[v] = pc[v] /\ cur'[v] = cur[v]
          /\ pc'[w] = "notifyFailed" /\ w \notin Active'
      BY <2>3 DEF Goto, Active
    <3>. QED
      BY <1>2, <1>12, <2>1, <2>3, <3>1
  <2>. QED
    BY <1>12, <2>2, <2>3 DEF Reject
<1>13. ASSUME NEW w \in Workers, NotifyFailed(w) \/ CallBackFailed(w), UNCHANGED succeeded
       PROVE  SuccessInv'
  <2>1. /\ w \notin Active /\ UNCHANGED <<status, timeouts>>
        /\ told' \in {told, told \cup {cur[w]}}
        /\ LetGo(w, "sleep") \/ (Goto(w, "callBackFailed") /\ UNCHANGED cur)
    BY <1>13 DEF NotifyFailed, CallBackFailed, manager, bounds, Active
  <2>. QED
    BY <1>7, <1>8, <1>13, <2>1
<1>14. ASSUME NEW w \in Workers, Outside(w) PROVE SuccessInv'
  BY <1>9, <1>10, <1>11, <1>12, <1>13, <1>14 DEF Outside, metrics
<1>15. ASSUME NEW w \in Workers, Ends(w) PROVE SuccessInv'
  <2>1. /\ LetGo(w, "exited") /\ UNCHANGED timeouts
        /\ told' \in {told, told \cup {cur[w]}}
        /\ succeeded' = [succeeded EXCEPT ![w] = 0]
    BY <1>15 DEF Ends, RejectFails, NotifyFailedFails, CallBackFailedFails, Crash, Exit,
       Fault, heard
  <2>2. \A t \in Tasks \ {cur[w]} : status'[t] = status[t]
    BY <1>15 DEF Ends, RejectFails, ApplyReject, SetStatus, NotifyFailedFails,
       CallBackFailedFails, Crash, manager
  <2>3. w \notin Active => UNCHANGED status
    BY <1>15 DEF Ends, RejectFails, NotifyFailedFails, CallBackFailedFails, Crash, manager,
       Active
  <2>. QED
    BY <1>7, <2>1, <2>2, <2>3
<1>16. ASSUME NEW t \in Tasks, Release(t) \/ FalseTimeout(t), UNCHANGED succeeded
       PROVE  SuccessInv'
  <2>1. /\ UNCHANGED <<pc, cur, told>> /\ status[t] = "IN_PROGRESS"
        /\ status' = [status EXCEPT ![t] = "PENDING"]
        /\ \/ UNCHANGED timeouts /\ \A w \in Workers : cur[w] # t
           \/ timeouts' = timeouts + 1
    BY <1>16 DEF Release, FalseTimeout, Requeue, SetStatus, worker, heard
  <2>2. /\ Active' = Active /\ Successes' = Successes
        /\ \A u \in Tasks, w \in Workers : Behind(u, w)' <=> Behind(u, w)
    BY <1>16, <2>1 DEF Active, Successes, Behind
  <2>3. Spent' \subseteq Spent /\ Spent \subseteq Spent' \cup {t}
    <3>1. t \notin Spent' /\ \A u \in Tasks \ {t} : status'[u] = status[u]
      BY <2>1 DEF Spent
    <3>2. \A u \in Tasks \ {t} : u \in Spent <=> u \in Spent'
      BY <2>1, <2>2, <3>1 DEF Spent, Active
    <3>. QED
      BY <3>1, <3>2 DEF Spent
  <2>4. (\A w \in Workers : cur[w] # t) => Spent \subseteq Spent'
    <3>1. (\A w \in Workers : cur[w] # t) => t \notin Spent
      BY <2>1 DEF Spent, Active, Behind
    <3>. QED
      BY <2>3, <3>1
  <2>5. Trade(Successes, Active, Spent, timeouts, Successes', Active', Spent', timeouts',
              <<t, 0>>, t, t)
    BY <1>1, <2>1, <2>2, <2>3, <2>4 DEF Trade
  <2>6. Balance(Successes', Active', Spent', timeouts')
    BY <1>1, <2>5, BalanceKept
  <2>. QED
    BY <1>1, <1>16, <2>1, <2>6 DEF SuccessInv
<1>17. CASE UNCHANGED mvars
  <2>1. UNCHANGED <<pc, cur, told, status, timeouts, succeeded>>
    BY <1>17 DEF mvars, vars, worker, manager, heard, bounds, metrics
  <2>2. Successes' = Successes /\ Active' = Active /\ Spent' = Spent
    BY <2>1 DEF Successes, Active, Spent, Behind
  <2>. QED
    BY <1>1, <2>1, <2>2 DEF SuccessInv
<1>18. ASSUME NEW w \in Workers, Enter(w) \/ EnterThrows(w) PROVE SuccessInv'
  BY <1>3, <1>18 DEF Enter, EnterThrows, metrics
<1>19. CASE TakeBack
  BY <1>16, <1>19 DEF TakeBack, metrics
<1>. QED
  BY <1>5, <1>6, <1>14, <1>15, <1>17, <1>18, <1>19 DEF MetricsNext

\* What is spent and not completed and told is at hand of an active worker.
LEMMA SuccessInvBounds == TypeInv /\ SuccessInv => SuccessesAreTold
<1> SUFFICES ASSUME TypeInv, SuccessInv PROVE SuccessesAreTold
  OBVIOUS
<1> DEFINE Done == {t \in told : status[t] = "COMPLETED"}
           AtHandOf == {cur[w] : w \in Active}
           f == [w \in Active |-> cur[w]]
<1>1. /\ IsFiniteSet(Successes) /\ IsFiniteSet(Active) /\ IsFiniteSet(Spent)
      /\ Cardinality(Successes) + Cardinality(Active) <= Cardinality(Spent) + timeouts
      /\ Cardinality(Successes) \in Nat /\ Cardinality(Active) \in Nat
      /\ Cardinality(Spent) \in Nat /\ timeouts \in Nat
  BY FS_CardinalityType DEF SuccessInv, Balance
<1>2. /\ Spent \subseteq Done \cup AtHandOf
      /\ Done \subseteq Spent
  BY DEF Spent, Behind, TypeInv, TypeOK
<1>3. IsFiniteSet(AtHandOf) /\ Cardinality(AtHandOf) <= Cardinality(Active)
  <2>1. f \in Surjection(Active, AtHandOf)
    BY DEF Surjection
  <2> HIDE DEF f, AtHandOf
  <2>. QED
    BY <1>1, <2>1, FS_Surjection
<1>4. IsFiniteSet(Done)
  BY <1>1, <1>2, FS_Subset
<1> HIDE DEF Done, AtHandOf
<1>5. /\ IsFiniteSet(Done \cup AtHandOf)
      /\ Cardinality(Done \cup AtHandOf)
           = Cardinality(Done) + Cardinality(AtHandOf) - Cardinality(Done \cap AtHandOf)
  BY <1>3, <1>4, FS_Union
<1>6. /\ Cardinality(Done \cap AtHandOf) \in Nat /\ Cardinality(Done) \in Nat
      /\ Cardinality(AtHandOf) \in Nat
  BY <1>3, <1>4, FS_Intersection, FS_CardinalityType
<1>7. Cardinality(Spent) <= Cardinality(Done \cup AtHandOf)
  BY <1>2, <1>5, FS_Subset
<1>8. Cardinality(Successes) <= Cardinality(Done) + timeouts
  BY <1>1, <1>3, <1>5, <1>6, <1>7
<1>. QED
  BY <1>8 DEF SuccessesAreTold, Done

\* For any workers and tasks, whatever fails, crashes or times out: there are never
\* more successes counted than tasks completed and told, and false timeouts.
THEOREM SuccessesStayTold == ExportSpec => []SuccessesAreTold
<1>1. ExportInit => Init /\ LoopInv /\ SuccessInv
  <2> SUFFICES ASSUME ExportInit PROVE Init /\ LoopInv /\ SuccessInv
    OBVIOUS
  <2>1. Init /\ LoopInv
    BY DEF ExportInit, MetricsInit, Init, LoopInv, Holding
  <2>2. Active = {}
    BY <2>1 DEF Init, Active
  <2>3. Successes = {} /\ Spent = {}
    BY <2>1 DEF Init, ExportInit, MetricsInit, Successes, Spent
  <2>4. IsFiniteSet({}) /\ Cardinality({}) = 0
    BY FS_EmptySet
  <2>5. Balance(Successes, Active, Spent, timeouts)
    BY <2>1, <2>2, <2>3, <2>4 DEF Init, Balance
  <2>. QED
    BY <2>1, <2>5 DEF Init, ExportInit, MetricsInit, SuccessInv
<1>. QED
  BY <1>1, InitTypeInv, StepTypeInv, StepLoopInv, StepSuccessInv, SuccessInvBounds,
     MeteredIsLoop, ExportIsMetered, PTL DEF ExportSpec

=============================================================================
