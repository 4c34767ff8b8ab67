------------------------- MODULE JobProcessorProofs -------------------------
(***************************************************************************)
(* What holds of JobProcessor for any number of workers and tasks, any     *)
(* maximum of attempts and any number of faults, crashes and timeouts.     *)
(***************************************************************************)
EXTENDS JobProcessor, FiniteSetTheorems, TLAPS

\* Where the loop has a task at hand.
Holding == {"getJob", "process", "ack", "notifyDone", "callBackDone",
            "reject", "notifyFailed", "callBackFailed"}

AtHand == \A w \in Workers : pc[w] \in Holding => cur[w] \in Tasks

TypeInv == TypeOK /\ AtHand

\* A function stays one of its type when one of its values is replaced.
LEMMA Update ==
  ASSUME NEW S, NEW T, NEW f \in [S -> T], NEW x, NEW v \in T
  PROVE  [f EXCEPT ![x] = v] \in [S -> T]
OBVIOUS

\* The first state has its types.
LEMMA InitTypeInv == Init => TypeInv
<1> SUFFICES ASSUME Init PROVE TypeInv
  OBVIOUS
<1>1. TypeOK
  <2>1. Nothing \in [attempts : Nat, reason : Reasons]
    BY DEF Nothing, Reasons
  <2>2. \A t \in Tasks : callbacks[t] \in Seq(Outcome)
    BY DEF Init
  <2>. QED
    BY <2>1, <2>2 DEF Init, TypeOK, Status, Reasons, Points, Errors, Outcome
<1>2. AtHand
  BY DEF Init, AtHand, Holding
<1>. QED
  BY <1>1, <1>2 DEF TypeInv

\* Letting go of the task at hand keeps the types of the loop.
LEMMA LetGoTypes ==
  ASSUME TypeInv, NEW w \in Workers, NEW point \in Points \ Holding, LetGo(w, point)
  PROVE  /\ pc'   \in [Workers -> Points]
         /\ slot' \in [Workers -> Nat \ {0}]
         /\ cur'  \in [Workers -> Tasks \cup {NoTask}]
         /\ seen' \in [Workers -> [attempts : Nat, reason : Reasons]]
         /\ err'  \in [Workers -> Errors]
         /\ AtHand'
<1>1. Nothing \in [attempts : Nat, reason : Reasons]
  BY DEF Nothing, Reasons
<1>2. /\ pc' \in [Workers -> Points] /\ slot' \in [Workers -> Nat \ {0}]
      /\ cur' \in [Workers -> Tasks \cup {NoTask}] /\ err' \in [Workers -> Errors]
  BY DEF TypeInv, TypeOK, LetGo, Goto, Errors
<1>3. seen' \in [Workers -> [attempts : Nat, reason : Reasons]]
  BY <1>1 DEF TypeInv, TypeOK, LetGo
<1>4. AtHand'
  BY DEF TypeInv, TypeOK, AtHand, LetGo, Goto
<1>. QED
  BY <1>2, <1>3, <1>4

\* A callback adds an outcome to what the urls of the task heard.
LEMMA SendTypes ==
  ASSUME TypeInv, NEW t \in Tasks, NEW outcome \in Outcome, Send(t, outcome)
  PROVE  callbacks' \in [Tasks -> Seq(Outcome)]
<1>1. Append(callbacks[t], outcome) \in Seq(Outcome)
  BY DEF TypeInv, TypeOK
<1>. QED
  BY <1>1 DEF TypeInv, TypeOK, Send

\* A rejected task keeps a known reason, whatever the error was.
LEMMA RejectTypes ==
  ASSUME TypeInv, NEW w \in Workers, cur[w] \in Tasks, ApplyReject(w)
  PROVE  /\ status'   \in [Tasks -> Status]
         /\ attempts' \in [Tasks -> Nat]
         /\ reason'   \in [Tasks -> Reasons]
<1>1. Message(w) \in Reasons
  BY DEF TypeInv, TypeOK, Message, Reasons
<1>2. reason' \in [Tasks -> Reasons]
  BY <1>1 DEF TypeInv, TypeOK, ApplyReject
<1>3. attempts[cur[w]] + 1 \in Nat
  BY DEF TypeInv, TypeOK
<1>4. status' \in [Tasks -> Status]
  BY DEF TypeInv, TypeOK, ApplyReject, SetStatus, Status
<1>5. attempts' \in [Tasks -> Nat]
  <2>1. \/ attempts' = attempts
        \/ attempts' = [attempts EXCEPT ![cur[w]] = attempts[cur[w]] + 1]
    BY DEF ApplyReject
  <2>. QED
    BY <1>3, <2>1 DEF TypeInv, TypeOK
<1>. QED
  BY <1>2, <1>4, <1>5

\* Every action of the loop and of its surroundings keeps the types.
LEMMA StepTypeInv == TypeInv /\ [Next]_vars => TypeInv'
<1> SUFFICES ASSUME TypeInv, [Next]_vars PROVE TypeInv'
  OBVIOUS
<1> USE DEF TypeInv, TypeOK, AtHand, Holding, Status, Outcome, Reasons, Errors, Points
<1>0. Nothing \in [attempts : Nat, reason : Reasons]
  BY DEF Nothing
<1>1. ASSUME NEW w \in Workers, NEW t \in Tasks, DequeueTask(w, t) PROVE TypeInv'
  <2>1. /\ status' \in [Tasks -> Status] /\ beats' \in [Workers -> SUBSET Tasks]
        /\ pc' \in [Workers -> Points] /\ cur' \in [Workers -> Tasks \cup {NoTask}]
    BY <1>1 DEF DequeueTask, Goto
  <2>2. seen' \in [Workers -> [attempts : Nat, reason : Reasons]]
    <3>1. [attempts |-> attempts[t], reason |-> reason[t]]
             \in [attempts : Nat, reason : Reasons]
      OBVIOUS
    <3>. QED
      BY <1>1, <3>1 DEF DequeueTask
  <2>3. AtHand'
    BY <1>1 DEF DequeueTask, Goto
  <2>. QED
    BY <1>1, <2>1, <2>2, <2>3 DEF DequeueTask, heard, history, bounds
<1>2. ASSUME NEW w \in Workers, DequeueNothing(w) PROVE TypeInv'
  <2>1. slot' \in [Workers -> Nat \ {0}]
    <3>1. slot[w] + 1 \in Nat \ {0}
      OBVIOUS
    <3>2. \/ slot' = [slot EXCEPT ![w] = slot[w] + 1]
          \/ slot' = [slot EXCEPT ![w] = 1]
      BY <1>2 DEF DequeueNothing
    <3>3. slot \in [Workers -> Nat \ {0}] /\ 1 \in Nat \ {0}
      OBVIOUS
    <3>. QED
      BY ONLY <3>1, <3>2, <3>3, Update
  <2>2. pc' \in [Workers -> Points] /\ AtHand'
    BY <1>2 DEF DequeueNothing, Goto
  <2>. QED
    BY <1>2, <2>1, <2>2 DEF DequeueNothing, manager, heard, history, bounds
<1>3. ASSUME NEW w \in Workers, GetJob(w) PROVE TypeInv'
  <2>1. pc' \in [Workers -> Points] /\ err' \in [Workers -> Errors] /\ AtHand'
    BY <1>3 DEF GetJob, StartHandler, Throw, Goto
  <2>2. runs' \in [Tasks -> Nat] /\ ran' \in [Tasks -> SUBSET Nat]
    <3>1. CASE UNCHANGED history
      BY <3>1 DEF history
    <3>2. CASE StartHandler(w)
      <4>1. cur[w] \in Tasks /\ seen[w].attempts \in Nat
        BY <1>3 DEF GetJob
      <4>2. /\ runs[cur[w]] + 1 \in Nat
            /\ ran[cur[w]] \cup {seen[w].attempts} \in SUBSET Nat
        BY <4>1
      <4>. QED
        BY <3>2, <4>2 DEF StartHandler
    <3>. QED
      BY <1>3, <3>1, <3>2 DEF GetJob
  <2>. QED
    BY <1>3, <2>1, <2>2 DEF GetJob, manager, heard, bounds
<1>4. ASSUME NEW w \in Workers, Process(w) PROVE TypeInv'
  <2>1. pc' \in [Workers -> Points] /\ err' \in [Workers -> Errors] /\ AtHand'
    <3>1. CASE Goto(w, "ack") /\ UNCHANGED err
      BY <1>4, <3>1 DEF Process, Goto
    <3>2. ASSUME NEW e \in {"recoverable", "unrecoverable"}, Throw(w, e)
          PROVE  /\ pc' \in [Workers -> Points] /\ err' \in [Workers -> Errors]
                 /\ AtHand'
      BY <1>4, <3>2 DEF Process, Throw, Goto
    <3>. QED
      BY <1>4, <3>1, <3>2 DEF Process
  <2>. QED
    BY <1>4, <2>1 DEF Process, manager, heard, history, bounds
<1>5. ASSUME NEW w \in Workers, Ack(w) PROVE TypeInv'
  <2>1. status' \in [Tasks -> Status] /\ beats' \in [Workers -> SUBSET Tasks]
    BY <1>5 DEF Ack, StopBeat, SetStatus
  <2>2. pc' \in [Workers -> Points] /\ AtHand'
    BY <1>5 DEF Ack, Goto
  <2>. QED
    BY <1>5, <2>1, <2>2 DEF Ack, heard, history, bounds
<1>6. ASSUME NEW w \in Workers, NotifyDone(w) PROVE TypeInv'
  <2>1. told' \in SUBSET Tasks
    BY <1>6 DEF NotifyDone
  <2>2. CASE LetGo(w, "sleep")
    BY <1>6, <2>1, <2>2, LetGoTypes DEF NotifyDone, manager, history, bounds
  <2>3. CASE Goto(w, "callBackDone") /\ UNCHANGED <<slot, cur, seen, err>>
    <3>1. pc' \in [Workers -> Points] /\ AtHand'
      BY <1>6, <2>3 DEF NotifyDone, Goto
    <3>. QED
      BY <1>6, <2>1, <2>3, <3>1 DEF NotifyDone, manager, history, bounds
  <2>. QED
    BY <1>6, <2>2, <2>3 DEF NotifyDone
<1>7. ASSUME NEW w \in Workers, CallBackDone(w) PROVE TypeInv'
  <2>1. callbacks' \in [Tasks -> Seq(Outcome)]
    BY <1>7, SendTypes DEF CallBackDone
  <2>. QED
    BY <1>7, <2>1, LetGoTypes DEF CallBackDone, manager, history, bounds
<1>8. ASSUME NEW w \in Workers, Reject(w) PROVE TypeInv'
  <2>1. /\ status' \in [Tasks -> Status] /\ attempts' \in [Tasks -> Nat]
        /\ reason' \in [Tasks -> Reasons]
    BY <1>8, RejectTypes DEF Reject
  <2>2. beats' \in [Workers -> SUBSET Tasks]
    BY <1>8 DEF Reject, StopBeat
  <2>3. CASE LetGo(w, "sleep")
    BY <1>8, <2>1, <2>2, <2>3, LetGoTypes DEF Reject, heard, history, bounds
  <2>4. CASE Goto(w, "notifyFailed") /\ UNCHANGED <<slot, cur, seen, err>>
    <3>1. pc' \in [Workers -> Points] /\ AtHand'
      BY <1>8, <2>4 DEF Reject, Goto
    <3>. QED
      BY <1>8, <2>1, <2>2, <2>4, <3>1 DEF Reject, heard, history, bounds
  <2>. QED
    BY <1>8, <2>3, <2>4 DEF Reject
<1>9. ASSUME NEW w \in Workers, NotifyFailed(w) PROVE TypeInv'
  <2>1. told' \in SUBSET Tasks
    BY <1>9 DEF NotifyFailed
  <2>2. CASE LetGo(w, "sleep")
    BY <1>9, <2>1, <2>2, LetGoTypes DEF NotifyFailed, manager, history, bounds
  <2>3. CASE Goto(w, "callBackFailed") /\ UNCHANGED <<slot, cur, seen, err>>
    <3>1. pc' \in [Workers -> Points] /\ AtHand'
      BY <1>9, <2>3 DEF NotifyFailed, Goto
    <3>. QED
      BY <1>9, <2>1, <2>3, <3>1 DEF NotifyFailed, manager, history, bounds
  <2>. QED
    BY <1>9, <2>2, <2>3 DEF NotifyFailed
<1>10. ASSUME NEW w \in Workers, CallBackFailed(w) PROVE TypeInv'
  <2>1. callbacks' \in [Tasks -> Seq(Outcome)]
    BY <1>10, SendTypes DEF CallBackFailed
  <2>. QED
    BY <1>10, <2>1, LetGoTypes DEF CallBackFailed, manager, history, bounds
<1>11. ASSUME NEW w \in Workers, WakeUp(w) \/ Restart(w) PROVE TypeInv'
  BY <1>11 DEF WakeUp, Restart, Goto, manager, heard, history, bounds
<1>12. ASSUME NEW w \in Workers, DequeueFails(w) PROVE TypeInv'
  BY <1>12 DEF DequeueFails, Fault, heard, history
<1>13. ASSUME NEW w \in Workers, GetJobFails(w) PROVE TypeInv'
  BY <1>0, <1>13 DEF GetJobFails, Fault, LetGo, Goto, manager, heard, history
<1>14. ASSUME NEW w \in Workers, AckFails(w) PROVE TypeInv'
  BY <1>14 DEF AckFails, Fault, StopBeat, SetStatus, Throw, Goto, heard, history
<1>15. ASSUME NEW w \in Workers, NotifyDoneFails(w) PROVE TypeInv'
  BY <1>15 DEF NotifyDoneFails, Fault, Throw, Goto, manager, history
<1>16. ASSUME NEW w \in Workers, CallBackDoneFails(w) PROVE TypeInv'
  BY <1>16 DEF CallBackDoneFails, Fault, Throw, Goto, manager, heard, history
<1>17. ASSUME NEW w \in Workers, RejectFails(w) PROVE TypeInv'
  <2>1. /\ status' \in [Tasks -> Status] /\ attempts' \in [Tasks -> Nat]
        /\ reason' \in [Tasks -> Reasons]
    BY <1>17, RejectTypes DEF RejectFails, manager
  <2>2. beats' \in [Workers -> SUBSET Tasks]
    BY <1>17 DEF RejectFails, Exit
  <2>3. LetGo(w, "exited")
    BY <1>17 DEF RejectFails, Exit
  <2>4. /\ faults' \in Nat /\ UNCHANGED <<crashes, timeouts, told, callbacks, runs, ran>>
    BY <1>17 DEF RejectFails, Fault, heard, history
  <2>5. TypeOK' /\ AtHand'
    BY <2>1, <2>2, <2>3, <2>4, LetGoTypes
  <2>. QED
    BY <2>5
<1>18. ASSUME NEW w \in Workers, NotifyFailedFails(w) PROVE TypeInv'
  BY <1>0, <1>18 DEF NotifyFailedFails, Fault, Exit, LetGo, Goto, manager, history
<1>19. ASSUME NEW w \in Workers, CallBackFailedFails(w) PROVE TypeInv'
  BY <1>0, <1>19 DEF CallBackFailedFails, Fault, Exit, LetGo, Goto, manager, heard, history
<1>20. ASSUME NEW w \in Workers, Crash(w) PROVE TypeInv'
  BY <1>0, <1>20 DEF Crash, Exit, LetGo, Goto, manager, heard, history
<1>21. ASSUME NEW t \in Tasks, Release(t) \/ FalseTimeout(t) PROVE TypeInv'
  <2>1. Requeue(t) /\ timeouts' \in Nat
    BY <1>21 DEF Release, FalseTimeout
  <2>2. attempts[t] + 1 \in Nat
    OBVIOUS
  <2>3. status' \in [Tasks -> Status] /\ attempts' \in [Tasks -> Nat]
    BY <2>1, <2>2 DEF Requeue, SetStatus
  <2>. QED
    BY <2>1, <2>3 DEF Requeue, worker, heard, history
<1>22. CASE UNCHANGED vars
  BY <1>22 DEF vars, manager, worker, heard, history, bounds
<1>. QED
  BY <1>1, <1>2, <1>3, <1>4, <1>5, <1>6, <1>7, <1>8, <1>9, <1>10, <1>11, <1>12, <1>13,
     <1>14, <1>15, <1>16, <1>17, <1>18, <1>19, <1>20, <1>21, <1>22
     DEF Next, Work, Failure

\* The state always has its types, and a worker past its dequeue has a task.
THEOREM TypesHold == Spec => []TypeOK
<1>1. TypeInv => TypeOK
  BY DEF TypeInv
<1>. QED
  BY <1>1, InitTypeInv, StepTypeInv, PTL DEF Spec

-----------------------------------------------------------------------------
(* AttemptsBounded.  A dequeue hands out the number of attempts the task   *)
(* has then, and the task is not pending again before that number has      *)
(* grown: no number is handed out twice, so none is run twice, and none    *)
(* from MaxAttempts on is run at all.                                      *)

\* The attempt numbers that were run are below the limit, and used up.
UsedUp ==
  \A t \in Tasks : \A a \in ran[t] :
    /\ a < MaxAttempts /\ a <= attempts[t]
    /\ status[t] = "PENDING" => a < attempts[t]

\* The number a worker was handed out was not run, and will not be handed out again.
Fresh(w) ==
  LET t == cur[w]  a == seen[w].attempts IN
  /\ a \notin ran[t] /\ a <= attempts[t]
  /\ status[t] = "PENDING" => a < attempts[t]

Ticketed(w) == pc[w] = "getJob"

Tickets ==
  /\ \A w \in Workers : Ticketed(w) => Fresh(w)
  /\ \A v, w \in Workers :
       /\ v # w /\ Ticketed(v) /\ Ticketed(w) /\ cur[v] = cur[w]
       => seen[v].attempts # seen[w].attempts

Counted == \A t \in Tasks : IsFiniteSet(ran[t]) /\ runs[t] = Cardinality(ran[t])

AttemptsInv == UsedUp /\ Tickets /\ Counted

\* No step takes attempts back, and a task becomes pending only with one more.
Grows ==
  \A t \in Tasks :
    /\ attempts'[t] >= attempts[t]
    /\ status'[t] = "PENDING" =>
         (status[t] = "PENDING" \/ attempts'[t] > attempts[t])

\* A rejected task comes back to the queue only with one attempt more (l.76-77).
LEMMA RejectGrows ==
  ASSUME TypeInv, NEW w \in Workers, cur[w] \in Tasks, ApplyReject(w)
  PROVE  Grows
<1>1. \A t \in Tasks : attempts[t] \in Nat
  BY DEF TypeInv, TypeOK
<1>2. CASE Unrecoverable(err[w])
  BY <1>1, <1>2 DEF TypeInv, TypeOK, ApplyReject, SetStatus, Grows
<1>3. CASE ~ Unrecoverable(err[w])
  <2>1. /\ status' = [status EXCEPT ![cur[w]] = "PENDING"]
        /\ attempts' = [attempts EXCEPT ![cur[w]] = attempts[cur[w]] + 1]
    BY <1>3 DEF ApplyReject, SetStatus
  <2>. QED
    BY <1>1, <2>1 DEF TypeInv, TypeOK, Grows
<1>. QED
  BY <1>2, <1>3

\* A step that changes no status but to something else than PENDING, and no attempts.
LEMMA CalmGrows ==
  ASSUME TypeInv, UNCHANGED attempts,
         \A t \in Tasks : status'[t] = "PENDING" => status[t] = "PENDING"
  PROVE  Grows
BY DEF TypeInv, TypeOK, Grows

\* Attempts never decrease, and a step that puts a task back in the queue counts one.
LEMMA StepGrows == TypeInv /\ [Next]_vars => Grows
<1> SUFFICES ASSUME TypeInv, [Next]_vars PROVE Grows
  OBVIOUS
<1>1. ASSUME NEW w \in Workers, Reject(w) \/ RejectFails(w) PROVE Grows
  <2>1. cur[w] \in Tasks
    BY <1>1 DEF TypeInv, AtHand, Holding, Reject, RejectFails
  <2>2. CASE ApplyReject(w)
    BY <2>1, <2>2, RejectGrows
  <2>3. CASE UNCHANGED manager
    BY <2>3, CalmGrows DEF manager
  <2>. QED
    BY <1>1, <2>2, <2>3 DEF Reject, RejectFails
<1>2. ASSUME NEW t \in Tasks, Release(t) \/ FalseTimeout(t) PROVE Grows
  <2>1. /\ status' = [status EXCEPT ![t] = "PENDING"]
        /\ attempts' = [attempts EXCEPT ![t] = attempts[t] + 1]
    BY <1>2 DEF Release, FalseTimeout, Requeue, SetStatus
  <2>2. \A u \in Tasks : attempts[u] \in Nat
    BY DEF TypeInv, TypeOK
  <2>. QED
    BY <2>1, <2>2 DEF TypeInv, TypeOK, Grows
<1>3. ASSUME NEW w \in Workers,
             \/ \E t \in Tasks : DequeueTask(w, t)
             \/ DequeueFails(w) \/ Ack(w) \/ AckFails(w)
      PROVE  Grows
  <2>1. UNCHANGED attempts
    BY <1>3 DEF DequeueTask, DequeueFails, Ack, AckFails
  <2>2. \A t \in Tasks : status'[t] = "PENDING" => status[t] = "PENDING"
    BY <1>3 DEF TypeInv, TypeOK, DequeueTask, DequeueFails, Ack, AckFails, SetStatus
  <2>. QED
    BY <2>1, <2>2, CalmGrows
<1>4. CASE UNCHANGED manager
  BY <1>4, CalmGrows DEF manager
<1>. QED
  BY <1>1, <1>2, <1>3, <1>4
     DEF Next, Work, Failure, DequeueNothing, GetJob, Process, NotifyDone, CallBackDone,
         NotifyFailed, CallBackFailed, WakeUp, Restart, GetJobFails, NotifyDoneFails,
         CallBackDoneFails, NotifyFailedFails, CallBackFailedFails, Crash, vars

\* A step that runs no handler and hands out no task keeps the invariant.
LEMMA QuietStep ==
  ASSUME TypeInv, TypeInv', AttemptsInv, Grows, UNCHANGED history,
         \A w \in Workers : Ticketed(w)' =>
            Ticketed(w) /\ cur'[w] = cur[w] /\ seen'[w] = seen[w]
  PROVE  AttemptsInv'
<1>1. /\ \A t \in Tasks : attempts[t] \in Nat /\ attempts'[t] \in Nat /\ ran[t] \in SUBSET Nat
      /\ \A w \in Workers : seen[w].attempts \in Nat
      /\ MaxAttempts \in Nat
  BY ConstantsOK DEF TypeInv, TypeOK
<1>2. UsedUp'
  <2> SUFFICES ASSUME NEW t \in Tasks, NEW a \in ran[t]
               PROVE  /\ a < MaxAttempts /\ a <= attempts'[t]
                      /\ status'[t] = "PENDING" => a < attempts'[t]
    BY DEF UsedUp, history
  <2>. QED
    BY <1>1 DEF AttemptsInv, UsedUp, Grows
<1>3. \A w \in Workers : Ticketed(w)' => Fresh(w)'
  <2> SUFFICES ASSUME NEW w \in Workers, Ticketed(w)' PROVE Fresh(w)'
    OBVIOUS
  <2>1. Ticketed(w) /\ cur'[w] = cur[w] /\ seen'[w] = seen[w] /\ ran' = ran
    BY DEF history
  <2>2. cur[w] \in Tasks
    BY <2>1 DEF TypeInv, AtHand, Holding, Ticketed
  <2>3. Fresh(w)
    BY <2>1 DEF AttemptsInv, Tickets
  <2>. QED
    BY <1>1, <2>1, <2>2, <2>3 DEF Fresh, Grows
<1>4. Tickets'
  BY <1>3 DEF AttemptsInv, Tickets
<1>5. Counted'
  BY DEF AttemptsInv, Counted, history
<1>. QED
  BY <1>2, <1>4, <1>5 DEF AttemptsInv

\* The worker that dequeues a task holds the only ticket for its attempt number, as
\* the task is no longer PENDING (l.105).
LEMMA DequeueTaskStep ==
  ASSUME TypeInv, TypeInv', AttemptsInv, Grows,
         NEW w \in Workers, NEW t \in Tasks, DequeueTask(w, t)
  PROVE  AttemptsInv'
<1>1. /\ status[t] = "PENDING" /\ status' = [status EXCEPT ![t] = "IN_PROGRESS"]
      /\ attempts' = attempts /\ ran' = ran /\ runs' = runs
      /\ cur' = [cur EXCEPT ![w] = t]
      /\ seen' = [seen EXCEPT ![w] = [attempts |-> attempts[t], reason |-> reason[t]]]
      /\ pc' = [pc EXCEPT ![w] = "getJob"] /\ pc[w] = "dequeue"
  BY DEF DequeueTask, Available, Goto, history
<1>2. /\ \A u \in Tasks : attempts[u] \in Nat /\ ran[u] \in SUBSET Nat
      /\ \A v \in Workers : seen[v].attempts \in Nat
      /\ MaxAttempts \in Nat
  BY ConstantsOK DEF TypeInv, TypeOK
<1>3. /\ cur'[w] = t /\ seen'[w].attempts = attempts[t] /\ status'[t] = "IN_PROGRESS"
      /\ \A v \in Workers \ {w} : cur'[v] = cur[v] /\ seen'[v] = seen[v] /\ pc'[v] = pc[v]
      /\ \A u \in Tasks \ {t} : status'[u] = status[u]
  BY <1>1 DEF TypeInv, TypeOK
<1>4. UsedUp'
  BY <1>1, <1>2, <1>3 DEF AttemptsInv, UsedUp
<1>5. Fresh(w)'
  <2>1. attempts[t] \notin ran[t]
    BY <1>1, <1>2 DEF AttemptsInv, UsedUp
  <2>. QED
    BY <1>1, <1>2, <1>3, <2>1 DEF Fresh
<1>6. \A v \in Workers \ {w} : Ticketed(v)' =>
        /\ Fresh(v)'
        /\ cur[v] = t => seen[v].attempts < attempts[t]
  <2> SUFFICES ASSUME NEW v \in Workers \ {w}, Ticketed(v)'
               PROVE  /\ Fresh(v)'
                      /\ cur[v] = t => seen[v].attempts < attempts[t]
    OBVIOUS
  <2>1. Fresh(v) /\ cur[v] \in Tasks
    BY <1>3 DEF AttemptsInv, Tickets, Ticketed, TypeInv, AtHand, Holding
  <2>. QED
    BY <1>1, <1>2, <1>3, <2>1 DEF Fresh
<1>7. Tickets'
  <2>1. \A v \in Workers : Ticketed(v)' => Fresh(v)'
    BY <1>5, <1>6
  <2>2. ASSUME NEW u \in Workers, NEW v \in Workers,
               u # v, Ticketed(u)', Ticketed(v)', cur'[u] = cur'[v]
        PROVE  seen'[u].attempts # seen'[v].attempts
    <3>1. CASE u = w
      BY <1>2, <1>3, <1>6, <2>2, <3>1
    <3>2. CASE v = w
      BY <1>2, <1>3, <1>6, <2>2, <3>2
    <3>3. CASE u # w /\ v # w
      BY <1>3, <2>2, <3>3 DEF AttemptsInv, Tickets, Ticketed
    <3>. QED
      BY <3>1, <3>2, <3>3
  <2>. QED
    BY <2>1, <2>2 DEF Tickets
<1>8. Counted'
  BY <1>1 DEF AttemptsInv, Counted
<1>. QED
  BY <1>4, <1>7, <1>8 DEF AttemptsInv

\* A handler starts with a number no handler ran with before, and below MaxAttempts
\* (l.58-60).
LEMMA GetJobStep ==
  ASSUME TypeInv, TypeInv', AttemptsInv, NEW w \in Workers, GetJob(w), StartHandler(w),
         ~ Exhausted(w)
  PROVE  AttemptsInv'
<1> DEFINE t == cur[w]
           a == seen[w].attempts
<1>1. /\ t \in Tasks /\ a \in Nat /\ a < MaxAttempts /\ Ticketed(w) /\ Fresh(w)
  BY ConstantsOK DEF TypeInv, TypeOK, AtHand, Holding, GetJob, Exhausted, Ticketed,
                     AttemptsInv, Tickets
<1>2. /\ status' = status /\ attempts' = attempts /\ cur' = cur /\ seen' = seen
      /\ pc' = [pc EXCEPT ![w] = "process"]
      /\ ran' = [ran EXCEPT ![t] = ran[t] \cup {a}]
      /\ runs' = [runs EXCEPT ![t] = runs[t] + 1]
  BY DEF GetJob, StartHandler, Goto, manager
<1>3. /\ ran'[t] = ran[t] \cup {a} /\ \A u \in Tasks \ {t} : ran'[u] = ran[u]
      /\ runs'[t] = runs[t] + 1 /\ \A u \in Tasks \ {t} : runs'[u] = runs[u]
  BY <1>1, <1>2 DEF TypeInv, TypeOK
<1>4. \A v \in Workers : Ticketed(v)' => v # w /\ Ticketed(v)
  BY <1>2 DEF TypeInv, TypeOK, Ticketed
<1>5. UsedUp'
  BY <1>1, <1>2, <1>3 DEF AttemptsInv, UsedUp, Fresh
<1>6. \A v \in Workers : Ticketed(v)' => Fresh(v)'
  <2> SUFFICES ASSUME NEW v \in Workers, Ticketed(v)' PROVE Fresh(v)'
    OBVIOUS
  <2>1. Fresh(v) /\ cur[v] \in Tasks /\ (cur[v] = t => seen[v].attempts # a)
    BY <1>1, <1>4 DEF AttemptsInv, Tickets, Ticketed, TypeInv, AtHand, Holding
  <2>. QED
    BY <1>2, <1>3, <2>1 DEF Fresh
<1>7. Tickets'
  BY <1>2, <1>4, <1>6 DEF AttemptsInv, Tickets
<1>8. Counted'
  <2>1. IsFiniteSet(ran[t]) /\ runs[t] = Cardinality(ran[t]) /\ a \notin ran[t]
    BY <1>1 DEF AttemptsInv, Counted, Fresh
  <2>2. /\ IsFiniteSet(ran[t] \cup {a})
        /\ Cardinality(ran[t] \cup {a}) = Cardinality(ran[t]) + 1
    BY <2>1, FS_AddElement
  <2>. QED
    BY <1>3, <2>1, <2>2 DEF AttemptsInv, Counted
<1>. QED
  BY <1>5, <1>7, <1>8 DEF AttemptsInv

\* Every step keeps the invariant that bounds the attempts.
LEMMA StepAttemptsInv == TypeInv /\ TypeInv' /\ AttemptsInv /\ [Next]_vars => AttemptsInv'
<1> SUFFICES ASSUME TypeInv, TypeInv', AttemptsInv, [Next]_vars PROVE AttemptsInv'
  OBVIOUS
<1>1. Grows
  BY StepGrows
<1>2. CASE \E w \in Workers, t \in Tasks : DequeueTask(w, t)
  BY <1>1, <1>2, DequeueTaskStep
<1>3. CASE \E w \in Workers : GetJob(w) /\ StartHandler(w) /\ ~ Exhausted(w)
  BY <1>3, GetJobStep
<1>4. CASE UNCHANGED history /\ UNCHANGED <<pc, cur, seen>>
  BY <1>1, <1>4, QuietStep DEF Ticketed
<1>5. ASSUME NEW w \in Workers, UNCHANGED history, UNCHANGED <<cur, seen>>,
             NEW p \in Points \ {"getJob"}, Goto(w, p)
      PROVE  AttemptsInv'
  <2>1. \A v \in Workers : Ticketed(v)' => Ticketed(v)
    BY <1>5 DEF TypeInv, TypeOK, Ticketed, Goto
  <2>. QED
    BY <1>1, <1>5, <2>1, QuietStep
<1>6. ASSUME NEW w \in Workers, UNCHANGED history,
             NEW p \in Points \ {"getJob"}, LetGo(w, p)
      PROVE  AttemptsInv'
  <2>1. \A v \in Workers : Ticketed(v)' =>
          Ticketed(v) /\ cur'[v] = cur[v] /\ seen'[v] = seen[v]
    BY <1>6 DEF TypeInv, TypeOK, Ticketed, LetGo, Goto
  <2>. QED
    BY <1>1, <1>6, <2>1, QuietStep
<1>7. ASSUME NEW w \in Workers, GetJob(w) \/ Process(w) \/ Ack(w) \/ AckFails(w) PROVE AttemptsInv'
  BY <1>3, <1>5, <1>7 DEF GetJob, Process, Ack, AckFails, Throw, Points
<1>8. ASSUME NEW w \in Workers,
             NotifyDone(w) \/ NotifyDoneFails(w) \/ CallBackDone(w) \/ CallBackDoneFails(w)
      PROVE  AttemptsInv'
  BY <1>5, <1>6, <1>8 DEF NotifyDone, NotifyDoneFails, CallBackDone, CallBackDoneFails, Throw,
                          Points
<1>9. ASSUME NEW w \in Workers,
             NotifyFailed(w) \/ NotifyFailedFails(w) \/ CallBackFailed(w) \/ CallBackFailedFails(w)
      PROVE  AttemptsInv'
  BY <1>5, <1>6, <1>9 DEF NotifyFailed, NotifyFailedFails, CallBackFailed, CallBackFailedFails,
                          Exit, Points
<1>10. ASSUME NEW w \in Workers, Reject(w) \/ RejectFails(w) \/ Crash(w) \/ GetJobFails(w)
       PROVE  AttemptsInv'
  BY <1>5, <1>6, <1>10 DEF Reject, RejectFails, Crash, GetJobFails, Exit, Points
<1>11. ASSUME NEW w \in Workers, DequeueNothing(w) \/ DequeueFails(w) \/ WakeUp(w) \/ Restart(w)
       PROVE  AttemptsInv'
  BY <1>4, <1>5, <1>11 DEF DequeueNothing, DequeueFails, WakeUp, Restart, Points
<1>12. ASSUME NEW t \in Tasks, Release(t) \/ FalseTimeout(t) PROVE AttemptsInv'
  BY <1>4, <1>12 DEF Release, FalseTimeout, Requeue, worker
<1>13. CASE UNCHANGED vars
  BY <1>4, <1>13 DEF vars, worker
<1>. QED
  BY <1>2, <1>7, <1>8, <1>9, <1>10, <1>11, <1>12, <1>13 DEF Next, Work, Failure

\* As many runs as attempt numbers run, all of them below MaxAttempts.
LEMMA AttemptsInvBounds == TypeInv /\ AttemptsInv => AttemptsBounded
<1> SUFFICES ASSUME TypeInv, AttemptsInv, NEW t \in Tasks PROVE runs[t] <= MaxAttempts
  BY DEF AttemptsBounded
<1>1. ran[t] \subseteq 0 .. MaxAttempts - 1
  BY ConstantsOK DEF TypeInv, TypeOK, AttemptsInv, UsedUp
<1>2. /\ IsFiniteSet(0 .. MaxAttempts - 1)
      /\ Cardinality(0 .. MaxAttempts - 1) = MaxAttempts
  BY ConstantsOK, FS_Interval
<1>3. Cardinality(ran[t]) <= Cardinality(0 .. MaxAttempts - 1)
  BY <1>1, <1>2, FS_Subset
<1>. QED
  BY <1>2, <1>3 DEF AttemptsInv, Counted

\* For any number of workers, tasks, faults, crashes and false timeouts, a handler runs
\* at most MaxAttempts times on a task.
THEOREM AttemptsStayBounded == Spec => []AttemptsBounded
<1>1. Init => AttemptsInv
  <2>1. IsFiniteSet({}) /\ Cardinality({}) = 0
    BY FS_EmptySet
  <2>. QED
    BY <2>1 DEF Init, AttemptsInv, UsedUp, Tickets, Ticketed, Counted
<1>. QED
  BY <1>1, InitTypeInv, StepTypeInv, StepAttemptsInv, AttemptsInvBounds, PTL DEF Spec

-----------------------------------------------------------------------------
(* HoldersBounded.  A task is a token: it lies in the queue or with a      *)
(* worker, and only a false timeout makes another one of it.               *)

Load(t) == Cardinality(Holders(t)) + (IF status[t] = "PENDING" THEN 1 ELSE 0)

HoldInv == \A t \in Tasks : IsFiniteSet(Holders(t)) /\ Load(t) <= 1 + timeouts

\* A worker that goes on or lets go, and puts a task back in the queue only as it
\* lets go of it, adds no token.
LEMMA TokensKept ==
  ASSUME TypeInv, HoldInv, timeouts' = timeouts, NEW w \in Workers,
         \A v \in Workers \ {w} : cur'[v] = cur[v],
         cur'[w] = cur[w] \/ cur'[w] = NoTask,
         \A t \in Tasks : status'[t] = "PENDING" =>
           status[t] = "PENDING" \/ (cur[w] = t /\ cur'[w] = NoTask)
  PROVE  HoldInv'
<1> SUFFICES ASSUME NEW t \in Tasks
             PROVE  IsFiniteSet(Holders(t)') /\ Load(t)' <= 1 + timeouts
  BY DEF HoldInv
<1> DEFINE H == Holders(t)
<1>1. IsFiniteSet(H) /\ Load(t) <= 1 + timeouts /\ Cardinality(H) \in Nat /\ timeouts \in Nat
  BY FS_CardinalityType DEF HoldInv, TypeInv, TypeOK
<1>2. H' \subseteq H
  BY ConstantsOK DEF Holders
<1>3. IsFiniteSet(H') /\ Cardinality(H') \in Nat /\ Cardinality(H') <= Cardinality(H)
  BY <1>1, <1>2, FS_Subset, FS_CardinalityType
<1>4. CASE status'[t] = "PENDING" => status[t] = "PENDING"
  <2> HIDE DEF H
  <2>1. /\ Load(t) = Cardinality(H) + (IF status[t] = "PENDING" THEN 1 ELSE 0)
        /\ Load(t)' = Cardinality(H') + (IF status'[t] = "PENDING" THEN 1 ELSE 0)
    BY DEF Load, H
  <2>2. IsFiniteSet(H') /\ Load(t)' <= 1 + timeouts
    BY <1>1, <1>3, <1>4, <2>1
  <2>. QED
    BY <2>2 DEF H
<1>5. CASE status[t] # "PENDING" /\ cur[w] = t /\ cur'[w] = NoTask
  <2>1. w \in H /\ H' \subseteq H \ {w}
    BY <1>2, <1>5, ConstantsOK DEF Holders
  <2>2. IsFiniteSet(H \ {w}) /\ Cardinality(H \ {w}) = Cardinality(H) - 1
    BY <1>1, <2>1, FS_RemoveElement
  <2>3. Cardinality(H') <= Cardinality(H) - 1
    BY <2>1, <2>2, FS_Subset
  <2> HIDE DEF H
  <2>4. /\ Load(t) = Cardinality(H)
        /\ Load(t)' = Cardinality(H') + (IF status'[t] = "PENDING" THEN 1 ELSE 0)
    BY <1>1, <1>5 DEF Load, H
  <2>5. IsFiniteSet(H') /\ Load(t)' <= 1 + timeouts
    BY <1>1, <1>3, <2>3, <2>4
  <2>. QED
    BY <2>5 DEF H
<1>. QED
  BY <1>4, <1>5

\* A dequeue moves the token of a task from the queue to the worker.
LEMMA TokenTaken ==
  ASSUME TypeInv, HoldInv, NEW w \in Workers, NEW u \in Tasks, DequeueTask(w, u)
  PROVE  HoldInv'
<1>1. /\ status[u] = "PENDING" /\ status' = [status EXCEPT ![u] = "IN_PROGRESS"]
      /\ cur' = [cur EXCEPT ![w] = u] /\ timeouts' = timeouts /\ timeouts \in Nat
  BY DEF DequeueTask, Available, bounds, TypeInv, TypeOK
<1> SUFFICES ASSUME NEW t \in Tasks
             PROVE  IsFiniteSet(Holders(t)') /\ Load(t)' <= 1 + timeouts
  BY <1>1 DEF HoldInv
<1> DEFINE H == Holders(t)
<1>2. IsFiniteSet(H) /\ Load(t) <= 1 + timeouts /\ Cardinality(H) \in Nat
  BY FS_CardinalityType DEF HoldInv
<1>3. CASE t = u
  <2>1. H' \subseteq H \cup {w}
    BY <1>1 DEF Holders, TypeInv, TypeOK
  <2>2. IsFiniteSet(H \cup {w}) /\ Cardinality(H \cup {w}) <= Cardinality(H) + 1
    BY <1>2, FS_AddElement
  <2>3. IsFiniteSet(H') /\ Cardinality(H') <= Cardinality(H \cup {w})
    BY <2>1, <2>2, FS_Subset
  <2>4. status'[t] # "PENDING" /\ Cardinality(H') \in Nat /\ Cardinality(H \cup {w}) \in Nat
    BY <1>1, <1>3, <2>2, <2>3, FS_CardinalityType DEF TypeInv, TypeOK
  <2> HIDE DEF H
  <2>5. Load(t) = Cardinality(H) + 1 /\ Load(t)' = Cardinality(H')
    BY <1>1, <1>3, <2>4 DEF Load, H
  <2>6. IsFiniteSet(H') /\ Load(t)' <= 1 + timeouts
    BY <1>1, <1>2, <2>2, <2>3, <2>4, <2>5
  <2>. QED
    BY <2>6 DEF H
<1>4. CASE t # u
  <2>1. H' \subseteq H /\ status'[t] = status[t]
    BY <1>1, <1>4 DEF Holders, TypeInv, TypeOK
  <2>2. IsFiniteSet(H') /\ Cardinality(H') \in Nat /\ Cardinality(H') <= Cardinality(H)
    BY <1>2, <2>1, FS_Subset, FS_CardinalityType
  <2> HIDE DEF H
  <2>3. /\ Load(t) = Cardinality(H) + (IF status[t] = "PENDING" THEN 1 ELSE 0)
        /\ Load(t)' = Cardinality(H') + (IF status[t] = "PENDING" THEN 1 ELSE 0)
    BY <2>1 DEF Load, H
  <2>4. IsFiniteSet(H') /\ Load(t)' <= 1 + timeouts
    BY <1>1, <1>2, <2>2, <2>3
  <2>. QED
    BY <2>4 DEF H
<1>. QED
  BY <1>3, <1>4

\* A task without a holder is put back as its only token; a false timeout makes one
\* more, and counts.
LEMMA TokenMade ==
  ASSUME TypeInv, HoldInv, NEW u \in Tasks, Release(u) \/ FalseTimeout(u)
  PROVE  HoldInv'
<1>1. /\ cur' = cur /\ timeouts \in Nat /\ status[u] = "IN_PROGRESS"
      /\ status' = [status EXCEPT ![u] = "PENDING"]
      /\ \/ timeouts' = timeouts /\ \A v \in Workers : cur[v] # u
         \/ timeouts' = timeouts + 1
  BY DEF Release, FalseTimeout, Requeue, SetStatus, worker, TypeInv, TypeOK
<1> SUFFICES ASSUME NEW t \in Tasks
             PROVE  IsFiniteSet(Holders(t)') /\ Load(t)' <= 1 + timeouts'
  BY DEF HoldInv
<1>2. /\ IsFiniteSet(Holders(t)) /\ Load(t) <= 1 + timeouts /\ Cardinality(Holders(t)) \in Nat
  BY FS_CardinalityType DEF HoldInv
<1>3. Holders(t)' = Holders(t)
  BY <1>1 DEF Holders
<1>4. /\ Load(t) = Cardinality(Holders(t)) + (IF status[t] = "PENDING" THEN 1 ELSE 0)
      /\ Load(t)' = Cardinality(Holders(t)) + (IF status'[t] = "PENDING" THEN 1 ELSE 0)
  BY <1>3 DEF Load
<1>5. CASE t # u
  <2>1. status'[t] = status[t]
    BY <1>1, <1>5 DEF TypeInv, TypeOK
  <2>. QED
    BY <1>1, <1>2, <1>3, <1>4, <2>1
<1>6. CASE t = u /\ \A v \in Workers : cur[v] # u
  <2>1. Cardinality(Holders(t)) = 0
    BY <1>6, FS_EmptySet DEF Holders
  <2>. QED
    BY <1>1, <1>2, <1>3, <1>4, <2>1
<1>7. CASE t = u /\ timeouts' = timeouts + 1
  BY <1>1, <1>2, <1>3, <1>4, <1>7
<1>. QED
  BY <1>1, <1>5, <1>6, <1>7

\* Every step keeps the number of tokens, but for a false timeout.
LEMMA StepHoldInv == TypeInv /\ HoldInv /\ [Next]_vars => HoldInv'
<1> SUFFICES ASSUME TypeInv, HoldInv, [Next]_vars PROVE HoldInv'
  OBVIOUS
<1>1. CASE \E w \in Workers, t \in Tasks : DequeueTask(w, t)
  BY <1>1, TokenTaken
<1>2. CASE \E t \in Tasks : Release(t) \/ FalseTimeout(t)
  BY <1>2, TokenMade
<1>3. ASSUME NEW w \in Workers, UNCHANGED timeouts,
             UNCHANGED cur \/ \E p \in Points : LetGo(w, p),
             \A t \in Tasks : status'[t] = "PENDING" => status[t] = "PENDING"
      PROVE  HoldInv'
  <2>1. /\ \A v \in Workers \ {w} : cur'[v] = cur[v]
        /\ cur'[w] = cur[w] \/ cur'[w] = NoTask
    BY <1>3 DEF LetGo, TypeInv, TypeOK
  <2>. QED
    BY <1>3, <2>1, TokensKept
<1>4. ASSUME NEW w \in Workers,
             DequeueFails(w) \/ Ack(w) \/ AckFails(w)
      PROVE  HoldInv'
  <2>1. UNCHANGED <<timeouts, cur>>
    BY <1>4 DEF DequeueFails, Ack, AckFails, Fault, bounds
  <2>2. \A t \in Tasks : status'[t] = "PENDING" => status[t] = "PENDING"
    BY <1>4 DEF DequeueFails, Ack, AckFails, SetStatus, TypeInv, TypeOK
  <2>. QED
    BY <1>3, <2>1, <2>2
<1>5. ASSUME NEW w \in Workers,
             \/ DequeueNothing(w) \/ GetJob(w) \/ GetJobFails(w) \/ Process(w)
             \/ NotifyDone(w) \/ NotifyDoneFails(w) \/ CallBackDone(w) \/ CallBackDoneFails(w)
             \/ NotifyFailed(w) \/ NotifyFailedFails(w) \/ CallBackFailed(w)
             \/ CallBackFailedFails(w) \/ WakeUp(w) \/ Restart(w) \/ Crash(w)
      PROVE  HoldInv'
  <2>1. UNCHANGED <<timeouts, status>>
    BY <1>5 DEF DequeueNothing, GetJob, GetJobFails, Process, NotifyDone, NotifyDoneFails,
                CallBackDone, CallBackDoneFails, NotifyFailed, NotifyFailedFails,
                CallBackFailed, CallBackFailedFails, WakeUp, Restart, Crash, Fault,
                manager, bounds
  <2>2. UNCHANGED cur \/ \E p \in Points : LetGo(w, p)
    BY <1>5 DEF DequeueNothing, GetJob, GetJobFails, Process, NotifyDone, NotifyDoneFails,
                CallBackDone, CallBackDoneFails, NotifyFailed, NotifyFailedFails,
                CallBackFailed, CallBackFailedFails, WakeUp, Restart, Crash, Exit, Points
  <2>. QED
    BY <1>3, <2>1, <2>2
<1>6. ASSUME NEW w \in Workers, Reject(w) \/ RejectFails(w) PROVE HoldInv'
  <2>1. UNCHANGED timeouts /\ cur[w] \in Tasks
    BY <1>6 DEF Reject, RejectFails, Fault, bounds, TypeInv, AtHand, Holding
  <2>2. CASE Reject(w) /\ Unrecoverable(err[w])
    <3>1. UNCHANGED cur /\ status' = [status EXCEPT ![cur[w]] = "FAILED"]
      BY <2>2 DEF Reject, ApplyReject, SetStatus
    <3>. QED
      BY <1>3, <2>1, <3>1 DEF TypeInv, TypeOK
  <2>3. ASSUME NEW p \in Points, LetGo(w, p), ApplyReject(w) \/ UNCHANGED manager
        PROVE  HoldInv'
    <3>1. cur'[w] = NoTask /\ \A v \in Workers \ {w} : cur'[v] = cur[v]
      BY <2>3 DEF LetGo, TypeInv, TypeOK
    <3>2. \A t \in Tasks : t # cur[w] => status'[t] = status[t]
      BY <2>3 DEF ApplyReject, SetStatus, manager, TypeInv, TypeOK
    <3>. QED
      BY <2>1, <3>1, <3>2, TokensKept
  <2>. QED
    BY <1>6, <2>2, <2>3 DEF Reject, RejectFails, Exit, Points
<1>7. CASE UNCHANGED vars
  BY <1>7 DEF vars, manager, worker, bounds, HoldInv, Load, Holders
<1>. QED
  BY <1>1, <1>2, <1>4, <1>5, <1>6, <1>7 DEF Next, Work, Failure

\* For any number of workers and whatever fails, crashes or times out: a task never
\* has more holders, the queue counted as one, than one and one for each false timeout.
THEOREM HoldersStayBounded == Spec => []HoldersBounded
<1>1. Init => HoldInv
  <2> SUFFICES ASSUME Init, NEW t \in Tasks
               PROVE  IsFiniteSet(Holders(t)) /\ Load(t) <= 1 + timeouts
    BY DEF HoldInv
  <2>1. Holders(t) = {}
    BY ConstantsOK DEF Init, Holders
  <2>. QED
    BY <2>1, FS_EmptySet DEF Init, Load
<1>2. HoldInv => HoldersBounded
  BY DEF HoldInv, Load, HoldersBounded
<1>. QED
  BY <1>1, <1>2, InitTypeInv, StepTypeInv, StepHoldInv, PTL DEF Spec

=============================================================================
