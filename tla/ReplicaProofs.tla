--------------------------- MODULE ReplicaProofs ---------------------------
(***************************************************************************)
(* What holds of Replica for any configured task types and any number of   *)
(* pending tasks.                                                          *)
(***************************************************************************)
EXTENDS Replica, TLAPS

Started == {"head", "poll", "getJob", "work", "catch", "sleep", "left"}

\* An instance that started has what its type requires.
Configured ==
  pc \in Started =>
    /\ ValidInstance
    /\ handlers = HandlersOf(instance)
    /\ Required(instance) \subseteq dirs

\* The pair polled is one of the instance's, and so is that of the task at hand.
InRange ==
  /\ slot \in 1 .. Len(JobTypesToProcess) * Len(TaskTypes)
  /\ cur \in IF pc \in {"getJob", "work", "catch"} THEN Permitted \X TypesOfTasks
                                                   ELSE {NoPair}

\* A task that was taken after stop was the last: the loop polls no more.
LastScan ==
  /\ isRunning => late = 0
  /\ late \in {0, 1} /\ (late = 1 => pc # "poll")
  /\ pc \in {"boot", "exited"} => isRunning

Rest ==
  /\ instance \in InstanceTypes \cup {"unset"}
  /\ dirs \subseteq Dirs
  /\ pc \in Started \cup {"boot", "exited"}
  /\ handlers \subseteq InstanceTypes
  /\ isRunning \in BOOLEAN /\ runOnce \in BOOLEAN
  /\ waiting \in [Pairs -> 0 .. MaxWaiting]

ReplicaInv == Rest /\ Configured /\ InRange /\ LastScan

\* The position of a pair in the scan, divided by the number of task types, is
\* the position of its job type.
LEMMA Position ==
  ASSUME NEW k \in Nat, NEW n \in Nat, NEW i \in 1 .. k * n, n > 0
  PROVE  /\ ((i - 1) \div n) + 1 \in 1 .. k
         /\ ((i - 1) % n) + 1 \in 1 .. n
<1> DEFINE q == (i - 1) \div n
           r == (i - 1) % n
<1>1. q \in Nat /\ r \in 0 .. n - 1 /\ i - 1 = n * q + r
  OBVIOUS
<1>2. q < k
  <2> SUFFICES ASSUME q >= k PROVE FALSE
    BY <1>1
  <2>1. n * q >= k * n
    BY <1>1
  <2>. QED
    BY <1>1, <2>1
<1>. QED
  BY <1>1, <1>2

\* Every pair that is polled is one the instance is responsible for.
LEMMA PolledIsPermitted ==
  ASSUME NEW i \in 1 .. Len(JobTypesToProcess) * Len(TaskTypes)
  PROVE  /\ i \in DOMAIN Polls
         /\ Polls[i] \in Permitted \X TypesOfTasks
         /\ Polls[i] \in Pairs
<1>1. /\ Len(JobTypesToProcess) \in Nat
      /\ DOMAIN JobTypesToProcess = 1 .. Len(JobTypesToProcess)
      /\ Permitted \subseteq JobTypes
  <2>1. CASE instance = "export"
    BY <2>1 DEF JobTypesToProcess, Permitted, JobTypes
  <2>2. CASE instance # "export"
    <3>1. JobTypesToProcess = <<"new", "update", "swapUpdate">>
      BY <2>2 DEF JobTypesToProcess
    <3>2. Len(JobTypesToProcess) = 3 /\ DOMAIN JobTypesToProcess = 1 .. 3
      BY <3>1
    <3>. QED
      BY <3>1, <3>2 DEF Permitted, JobTypes
  <2>. QED
    BY <2>1, <2>2
<1>2. /\ Len(TaskTypes) \in Nat /\ Len(TaskTypes) > 0
      /\ DOMAIN TaskTypes = 1 .. Len(TaskTypes)
  BY ConstantsOK
<1>3. /\ ((i - 1) \div Len(TaskTypes)) + 1 \in DOMAIN JobTypesToProcess
      /\ ((i - 1) % Len(TaskTypes)) + 1 \in DOMAIN TaskTypes
  BY <1>1, <1>2, Position
<1>. QED
  BY <1>1, <1>3 DEF Polls, Permitted, TypesOfTasks, Pairs

-----------------------------------------------------------------------------
(* The invariant.                                                          *)

\* There are pairs to poll.
LEMMA SomethingPolled == 1 \in 1 .. Len(JobTypesToProcess) * Len(TaskTypes)
<1>1. Len(JobTypesToProcess) \in {1, 3}
  BY DEF JobTypesToProcess
<1>2. Len(TaskTypes) \in Nat /\ Len(TaskTypes) > 0
  BY ConstantsOK
<1>. QED
  BY <1>1, <1>2

\* An instance polls at most three job types.
LEMMA SlotBounded ==
  ASSUME slot \in 1 .. Len(JobTypesToProcess) * Len(TaskTypes)
  PROVE  slot \in 1 .. 3 * Len(TaskTypes)
<1>1. Len(TaskTypes) \in Nat
  BY ConstantsOK
<1>2. Len(JobTypesToProcess) = 1 \/ Len(JobTypesToProcess) = 3
  BY DEF JobTypesToProcess
<1>3. Len(JobTypesToProcess) * Len(TaskTypes) <= 3 * Len(TaskTypes)
  <2>1. CASE Len(JobTypesToProcess) = 1
    BY <1>1, <2>1
  <2>2. CASE Len(JobTypesToProcess) = 3
    BY <2>2, <1>1
  <2>. QED
    BY <1>2, <2>1, <2>2
<1>4. Len(JobTypesToProcess) * Len(TaskTypes) \in Nat
  BY <1>1, <1>2
<1>. QED
  BY ONLY <1>1, <1>3, <1>4, slot \in 1 .. Len(JobTypesToProcess) * Len(TaskTypes)

LEMMA InitReplicaInv == Init => ReplicaInv
<1> SUFFICES ASSUME Init PROVE ReplicaInv
  OBVIOUS
<1>1. waiting \in [Pairs -> 0 .. MaxWaiting]
  BY ConstantsOK DEF Init
<1>. QED
  BY <1>1, SomethingPolled
     DEF Init, ReplicaInv, Rest, Configured, InRange, LastScan, Started, InstanceTypes

\* The process is over: nothing of it is left but its configuration.
LEMMA ExitStep ==
  ASSUME ReplicaInv, Exit, waiting' \in [Pairs -> 0 .. MaxWaiting]
  PROVE  ReplicaInv'
<1>1. 1 \in 1 .. Len(JobTypesToProcess') * Len(TaskTypes)
  BY SomethingPolled DEF Exit, config, JobTypesToProcess
<1>. QED
  BY <1>1 DEF ReplicaInv, Rest, Configured, InRange, LastScan, Started, Exit, config

\* A step within the loop that keeps its configuration keeps the invariant.
LEMMA LoopStep ==
  ASSUME ReplicaInv, pc \in Started, pc' \in Started, UNCHANGED <<config, handlers>>,
         slot' \in 1 .. Len(JobTypesToProcess) * Len(TaskTypes),
         cur' \in IF pc' \in {"getJob", "work", "catch"} THEN Permitted \X TypesOfTasks
                                                         ELSE {NoPair},
         isRunning' \in BOOLEAN,
         waiting' \in [Pairs -> 0 .. MaxWaiting],
         isRunning' => late' = 0,
         late' \in {0, 1} /\ (late' = 1 => pc' # "poll")
  PROVE  ReplicaInv'
BY DEF ReplicaInv, Rest, Configured, InRange, LastScan, Started, config, ValidInstance,
   JobTypesToProcess, Permitted

\* A task less of a pair.
LEMMA TakeTypes ==
  ASSUME waiting \in [Pairs -> 0 .. MaxWaiting], NEW p \in Pairs, Take(p)
  PROVE  waiting' \in [Pairs -> 0 .. MaxWaiting]
BY ConstantsOK DEF Take

LEMMA StepReplicaInv == ReplicaInv /\ [Next]_vars => ReplicaInv'
<1> SUFFICES ASSUME ReplicaInv, [Next]_vars PROVE ReplicaInv'
  OBVIOUS
<1> USE DEF ReplicaInv, Rest, InRange, LastScan, Started
<1>1. CASE Refuse \/ CatchThrows \/ Crash
  BY <1>1, ExitStep DEF Refuse, CatchThrows, Crash
<1>2. CASE Listen
  BY <1>2 DEF Listen, Configured, HandlersOf, InstanceTypes, config, ValidInstance,
     JobTypesToProcess, Permitted
<1>3. CASE Restart
  BY <1>3 DEF Restart, Configured, config, JobTypesToProcess, Permitted
<1>4. CASE LoopHead
  BY <1>4, SomethingPolled, LoopStep DEF LoopHead
<1>5. CASE DequeueTask
  <2>1. Polls[slot] \in Permitted \X TypesOfTasks /\ Polls[slot] \in Pairs
    BY PolledIsPermitted
  <2>2. waiting' \in [Pairs -> 0 .. MaxWaiting]
    BY <1>5, <2>1, TakeTypes DEF DequeueTask
  <2>3. late = 0
    BY <1>5 DEF DequeueTask
  <2>. QED
    BY <1>5, <2>1, <2>2, <2>3, LoopStep DEF DequeueTask
<1>6. CASE DequeueNothing
  <2>1. CASE MorePairs
    <3>1. slot + 1 \in 1 .. Len(JobTypesToProcess) * Len(TaskTypes)
      <4>1. Len(Polls) = Len(JobTypesToProcess) * Len(TaskTypes)
        <5>1. Len(JobTypesToProcess) \in {1, 3} /\ Len(TaskTypes) \in Nat
          BY ConstantsOK DEF JobTypesToProcess
        <5>2. Len(JobTypesToProcess) * Len(TaskTypes) \in Nat
          BY <5>1
        <5>. QED
          BY <5>2 DEF Polls
      <4>. QED
        BY <2>1, <4>1 DEF MorePairs
    <3>. QED
      BY <1>6, <2>1, <3>1, LoopStep DEF DequeueNothing
  <2>2. CASE ~ MorePairs
    BY <1>6, <2>2, SomethingPolled, LoopStep DEF DequeueNothing, EndIteration
  <2>. QED
    BY <2>1, <2>2
<1>7. CASE DequeueFails
  <2>1. waiting' \in [Pairs -> 0 .. MaxWaiting]
    BY <1>7, PolledIsPermitted, TakeTypes DEF DequeueFails
  <2>. QED
    BY <1>7, <2>1, LoopStep DEF DequeueFails, Continue
<1>8. CASE GetJobFails
  BY <1>8, LoopStep DEF GetJobFails, Continue
<1>9. CASE FindHandler \/ WorkThrows
  BY <1>9, LoopStep DEF FindHandler, WorkThrows
<1>10. CASE WorkReturns \/ CatchReturns
  BY <1>10, LoopStep DEF WorkReturns, CatchReturns, EndIteration
<1>11. CASE WakeUp \/ Stop
  <2>1. CASE WakeUp
    BY <2>1, LoopStep DEF WakeUp
  <2>2. CASE Stop
    <3>1. pc \in Started /\ late = 0
      BY <2>2 DEF Stop
    <3>. QED
      BY <2>2, <3>1, LoopStep DEF Stop
  <2>. QED
    BY <1>11, <2>1, <2>2
<1>12. ASSUME NEW p \in Pairs, Arrive(p) \/ TakenElsewhere(p) PROVE ReplicaInv'
  <2>1. waiting' \in [Pairs -> 0 .. MaxWaiting]
    <3>1. CASE Arrive(p)
      BY <3>1, ConstantsOK DEF Arrive
    <3>2. CASE TakenElsewhere(p)
      BY <3>2, TakeTypes DEF TakenElsewhere
    <3>. QED
      BY <1>12, <3>1, <3>2
  <2>. QED
    BY <1>12, <2>1 DEF Arrive, TakenElsewhere, config, Configured, ValidInstance,
       JobTypesToProcess, Permitted
<1>13. ASSUME NEW d \in Dirs, Mount(d) PROVE ReplicaInv'
  BY <1>13 DEF Mount, Configured, ValidInstance, JobTypesToProcess, Permitted
<1>14. CASE UNCHANGED vars
  BY <1>14 DEF vars, config, Configured, ValidInstance, JobTypesToProcess, Permitted
<1>. QED
  BY <1>1, <1>2, <1>3, <1>4, <1>5, <1>6, <1>7, <1>8, <1>9, <1>10, <1>11, <1>12, <1>13, <1>14
     DEF Next, Proceed, Answer

\* The variables of a replica keep their types, for any configured task types.
THEOREM ReplicaTypes == Spec => []TypeOK
<1>1. ReplicaInv => TypeOK
  <2>1. Permitted \subseteq JobTypes
    BY DEF Permitted, JobTypesToProcess, JobTypes
  <2>2. ReplicaInv => cur \in IF pc \in {"getJob", "work", "catch"} THEN Pairs ELSE {NoPair}
    BY <2>1 DEF ReplicaInv, InRange, Pairs
  <2>. QED
    BY <2>2, SlotBounded DEF ReplicaInv, Rest, InRange, LastScan, Started, TypeOK
<1>. QED
  BY <1>1, InitReplicaInv, StepReplicaInv, PTL DEF Spec

\* Whatever task types are configured, a replica takes a task only if it polls for
\* it, has the handler for it and found the directories that handler needs.
THEOREM OnlyItsOwn == Spec => []TakesOnlyItsOwn
<1>1. ReplicaInv => TakesOnlyItsOwn
  BY DEF ReplicaInv, Rest, Configured, InRange, TakesOnlyItsOwn, Started, HandlerToken,
     HandlersOf, Permitted, JobTypesToProcess, Required, ValidInstance, InstanceTypes
<1>. QED
  BY <1>1, InitReplicaInv, StepReplicaInv, PTL DEF Spec

\* After stop at most one more task is taken, wherever the scan was.
THEOREM AtMostOneMore == Spec => []OneMoreTask
<1>1. ReplicaInv => OneMoreTask
  BY DEF ReplicaInv, LastScan, OneMoreTask
<1>. QED
  BY <1>1, InitReplicaInv, StepReplicaInv, PTL DEF Spec

=============================================================================
