---------------------------- MODULE TaskMetrics ----------------------------
(***************************************************************************)
(* withTaskMetrics of src/common/otel/metrics/taskMetrics.ts around what   *)
(* the polling loop of JobProcessor does with a task: the gauge of active  *)
(* tasks and the counter of successes, in the memory of each process.  One *)
(* call uses the same labels throughout, so their sums are modelled; what  *)
(* is counted and timed besides is not.                                    *)
(***************************************************************************)
EXTENDS JobProcessor

VARIABLES
  gauge,      \* polygon_parts_active_tasks
  succeeded   \* polygon_parts_tasks_success_total

metrics == <<gauge, succeeded>>
mvars   == <<vars, metrics>>

MetricsInit ==
  /\ Init
  /\ gauge     = [w \in Workers |-> 0]
  /\ succeeded = [w \in Workers |-> 0]

\* Mutant: no "finally", so that an error skips the decrement.
DecrementUnlessThrown(w) ==
  gauge' = IF pc'[w] = "reject" THEN gauge ELSE [gauge EXCEPT ![w] = @ - 1]

IncrementActiveTasks(w) == gauge' = [gauge EXCEPT ![w] = @ + 1]
DecrementActiveTasks(w) == gauge' = [gauge EXCEPT ![w] = @ - 1]

RecordSuccess(w) == succeeded' = [succeeded EXCEPT ![w] = @ + 1]

-----------------------------------------------------------------------------
(* The callback of the loop, fn, from its call to its end.                 *)

\* fn is called, and awaits the handler or throws at once.
Enter(w) ==
  /\ GetJob(w) /\ pc'[w] = "process"
  /\ IncrementActiveTasks(w)
  /\ UNCHANGED succeeded

\* The gauge goes up and down again.
EnterThrows(w) == GetJob(w) /\ pc'[w] = "reject" /\ UNCHANGED metrics

InCallback(w) ==
  \/ Process(w) \/ Ack(w) \/ AckFails(w) \/ NotifyDone(w) \/ NotifyDoneFails(w)
  \/ CallBackDone(w) \/ CallBackDoneFails(w)

Continues(w) ==
  /\ InCallback(w) /\ pc'[w] \notin {"sleep", "reject"}
  /\ UNCHANGED metrics

\* Mutant: the success is recorded although the callback threw.
Threw(w) == InCallback(w) /\ pc'[w] = "reject" /\ RecordSuccess(w) /\ DecrementActiveTasks(w)

Returns(w) ==
  /\ InCallback(w) /\ pc'[w] = "sleep"
  /\ RecordSuccess(w) /\ DecrementActiveTasks(w)

Throws(w) ==
  /\ InCallback(w) /\ pc'[w] = "reject"
  /\ DecrementActiveTasks(w) /\ UNCHANGED succeeded

-----------------------------------------------------------------------------

Outside(w) ==
  /\ \/ (\E t \in Tasks : DequeueTask(w, t)) \/ DequeueNothing(w) \/ DequeueFails(w)
     \/ GetJobFails(w) \/ Reject(w) \/ NotifyFailed(w) \/ CallBackFailed(w)
     \/ WakeUp(w) \/ Restart(w)
  /\ UNCHANGED metrics

\* The registry is gone with its process.
Ends(w) ==
  /\ RejectFails(w) \/ NotifyFailedFails(w) \/ CallBackFailedFails(w) \/ Crash(w)
  /\ gauge'     = [gauge EXCEPT ![w] = 0]
  /\ succeeded' = [succeeded EXCEPT ![w] = 0]

TakeBack ==
  /\ \E t \in Tasks : Release(t) \/ FalseTimeout(t)
  /\ UNCHANGED metrics

MetricsNext ==
  \/ \E w \in Workers :
       \/ Enter(w) \/ EnterThrows(w) \/ Continues(w) \/ Returns(w) \/ Throws(w)
       \/ Outside(w) \/ Ends(w)
  \/ TakeBack

MetricsSpec == MetricsInit /\ [][MetricsNext]_mvars

-----------------------------------------------------------------------------
(* Properties.                                                             *)

\* "Current number of active tasks" (README.md:273): on every way out of the
\* callback, and over exits and restarts of the process, the gauge of a
\* process is 1 while a handler has a task that is not yet over, and else 0.
GaugeIsActive ==
  \A w \in Workers :
    gauge[w] = IF cur[w] # NoTask /\ err[w] = "none" /\ pc[w] # "getJob" THEN 1 ELSE 0

\* One element for each success that the live processes have counted.
Successes == UNION {{w} \X (1 .. succeeded[w]) : w \in Workers}

\* "Total number of successful tasks" (README.md:275): each success counted by
\* any replica is a task of its own, completed in the job manager and told
\* to the tracker; a task that is run again is not counted twice, unless
\* a live worker was declared dead (l.56-65 of jobProcessor.ts).
SuccessesAreTold ==
  Cardinality(Successes) <= Cardinality({t \in told : status[t] = "COMPLETED"}) + timeouts

=============================================================================
