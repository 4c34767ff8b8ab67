---------------------------- MODULE TaskLifecycle ---------------------------
(***************************************************************************)
(* What the service promises about a task to those who see only the job    *)
(* manager, the job tracker and the callbacks: how a task may move, that   *)
(* the tracker hears of finished tasks only, and that the answer given to  *)
(* the callback urls is the last word on the task.                         *)
(***************************************************************************)
EXTENDS Naturals

CONSTANTS Tasks, MaxAttempts

VARIABLES
  status,    \* as the job manager keeps it
  attempts,
  runs,      \* how many times the task was worked on
  told,      \* the tasks the tracker was told of
  answer     \* the outcome the callback urls were given, or "none"

vars == <<status, attempts, runs, told, answer>>

Init ==
  /\ status   = [t \in Tasks |-> "PENDING"]
  /\ attempts = [t \in Tasks |-> 0]
  /\ runs     = [t \in Tasks |-> 0]
  /\ told     = {}
  /\ answer   = [t \in Tasks |-> "none"]

Finished(t) == status[t] \in {"COMPLETED", "FAILED"}

Take(t) ==
  /\ status[t] = "PENDING"
  /\ status' = [status EXCEPT ![t] = "IN_PROGRESS"]
  /\ UNCHANGED <<attempts, runs, told, answer>>

Run(t) ==
  /\ status[t] = "IN_PROGRESS"
  /\ attempts[t] < MaxAttempts
  /\ runs[t] < MaxAttempts
  /\ runs' = [runs EXCEPT ![t] = @ + 1]
  /\ UNCHANGED <<status, attempts, told, answer>>

Finish(t) ==
  /\ status[t] = "IN_PROGRESS"
  /\ \E s \in {"COMPLETED", "FAILED"} : status' = [status EXCEPT ![t] = s]
  /\ UNCHANGED <<attempts, runs, told, answer>>

\* An unfinished task goes back to the queue, and so does a completed one of
\* which nobody was given an answer yet.
Requeue(t) ==
  /\ status[t] \in {"IN_PROGRESS", "COMPLETED"} /\ answer[t] = "none"
  /\ status'   = [status EXCEPT ![t] = "PENDING"]
  /\ attempts' = [attempts EXCEPT ![t] = @ + 1]
  /\ UNCHANGED <<runs, told, answer>>

Tell(t) ==
  /\ Finished(t)
  /\ told' = told \cup {t}
  /\ UNCHANGED <<status, attempts, runs, answer>>

Answer(t) ==
  /\ Finished(t) /\ t \in told
  /\ answer[t] = "none"
  /\ answer' = [answer EXCEPT ![t] = status[t]]
  /\ UNCHANGED <<status, attempts, runs, told>>

Next == \E t \in Tasks :
  Take(t) \/ Run(t) \/ Finish(t) \/ Requeue(t) \/ Tell(t) \/ Answer(t)

Spec == Init /\ [][Next]_vars

=============================================================================
