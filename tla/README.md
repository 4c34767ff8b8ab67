# polygon-parts-worker: a verification project

TLA+ models of the polygon parts worker, the TLC runs that check them and the theorems
that TLAPS proves about them. Paths are relative to the directory that holds `src/` (the
repository) and `tla/` (this project); `l.77` is a line of the file under discussion.

## 1. The system

Several replicas of the service poll a **job manager** for tasks. A replica is either an
ingestion instance, which validates shapefiles, or an export instance, which adds polygon
parts to a GeoPackage. Replicas share nothing but the job manager, the disk with the
reports, S3, and the outside services.

| Part | Keeps | Operations | Talks to | Correct when |
|---|---|---|---|---|
| `JobProcessor` (`src/src/models/jobProcessor.ts`) | nothing between iterations; the job, task, handler and error of one | dequeue by job and task type, check the attempts, run the handler, ack, reject, sleep | queue client, job manager, job tracker, handler | a task is run a bounded number of times, by one worker at a time, ends, and its end is reported once and truly |
| Queue client, job manager (external) | the tasks: status, attempts, reason, parameters; heartbeats | dequeue, ack, reject, updateTask, release of inactive tasks | | |
| `IngestionJobHandler` (`models/ingestion/ingestionHandler.ts`) | a collector and a writer, made anew for each task; the task as dequeued | processJob, load and save the reader's state, process a chunk, record the result, send callbacks | shapefile reader, polygon parts manager, writer, S3, job manager | the verdict, the report and the link of a completed task are those of its shapefile |
| `ValidationErrorCollector` | counts, thresholds, the invalid features of the chunk in work | add vertices, metadata and validation errors, clear | | every error is counted once and shown on one row, however the file is cut |
| `ShapefileReportWriter` | the report directory of the job, on shared disk | writeChunk (create or append), finalize (reuse, delete or zip) | ogr2ogr, disk | the report shows all invalid features |
| `S3Service` | | upload, then delete | S3, disk | a report is always somewhere |
| `CallbackClient`, `JobTrackerClient`, `PolygonPartsManagerClient` | | one request each | HTTP | |
| `ExportJobHandler`, `utils` | | find parts, clamp resolutions, overwrite the layer in the GeoPackage | polygon parts manager, ogr2ogr | a completed task has every part in its layer, at the coarser of its own and the requested resolution |
| `TaskMetrics`, `ShapefileMetrics` | counters, gauges | | Prometheus | the gauge of active tasks is balanced |
| server, configuration, injection | the container with the one handler of the instance | start-up: validate the instance type and the directories, register the handler, start the polling | disk | a replica runs only if it can work on what it polls |

What makes it hard: every call the loop awaits may throw, before or after it took effect; an
error in the loop's catch block ends the process; a process may be killed between any two
awaits and is started again; the job manager takes tasks back from workers it believes dead,
sometimes wrongly; a retried task resumes from a checkpoint, with the files of earlier attempts
on disk and without what they kept in memory.

## 2. The modules

| Module | Models |
|---|---|
| `TaskLifecycle` | the abstract promise: how a task may move, that the tracker hears of finished tasks only, and that the answer to the callback urls is the last word |
| `JobProcessor` | the polling loop of all replicas with the job manager, heartbeats, tracker and callbacks, and the mapping to `TaskLifecycle` |
| `MCJobProcessor` | its instances |
| `JobProcessorProofs` | theorems about `JobProcessor` under any faults, crashes and false timeouts |
| `JobProcessorOwnership` | theorems about `JobProcessor` while no live worker is declared dead |
| `JobProcessorRefinement` | proof that `JobProcessor` implements `TaskLifecycle` under the same condition |
| `Replica` | one replica from start-up to its end: configuration, handler, stop, runOnce, and polling while tasks keep arriving |
| `MCReplica` | an instance of it |
| `ReplicaProofs` | theorems about it |
| `TaskMetrics` | the gauge and the success counter around the loop of `JobProcessor` |
| `ExportInstance` | the loop, its metrics and the handler of export tasks, composed |
| `MCExportInstance` | its instances |
| `ExportInstanceProofs` | theorems about it; the bounds of `JobProcessor` carried over |
| `ValidationTask` | one validation task through all its attempts: checkpoint, report, zip, upload, recorded result, callback |
| `MCValidationTask` | its instances |
| `ValidationTaskProofs` | theorems about `ValidationTask` under any faults, crashes and false timeouts |
| `ValidationTaskAlone` | theorems about it while no live worker is declared dead |
| `ErrorCollector` | what one attempt makes of a file, feature by feature: chunks, errors, thresholds, rows, verdict |
| `Thresholds` | the percentage arithmetic of `checkThresholdExceeded` |
| `MCErrorCollector` | an instance of `ErrorCollector` |
| `ErrorCollectorProofs` | theorems about both |

### JobProcessor

One action stands for what runs between two awaits; `pc[w]` names the await a worker is at.
`cur`, `seen` and `err` are the locals of an iteration: the task at hand, its attempts and
reason *as dequeued*, and the class of the error caught. `slot` is the position in the nested
loops of `getJobAndTask`. `GetJob` is all of the stretch from the job's arrival to the start of
`processJob`: the attempts check either throws or the handler starts. What a handler does is
`Process`: it returns, throws, or throws an `UnrecoverableTaskError`.

A call named in `FaultyCalls` may fail, at most `MaxFaults` times in a behaviour, and each
`...Fails` action allows both that the call took effect and that it did not, where it has an
effect. Outside the `catch` block a failure leads to it (`Throw`); inside, the rejection
leaves `start` and `index.ts` exits (`Exit`). `Crash` kills a process anywhere, `Restart`
starts it again.

External, modelled from how the code uses it: `dequeue` takes a PENDING task of the pair, sets
it IN_PROGRESS and starts heartbeats; `ack` and `reject` stop the heartbeats first and then
update the task in one step; a recoverable reject makes it PENDING with one attempt more, an
unrecoverable one FAILED; `Release` takes back a task in progress that no live process works
on or sends heartbeats for, with one attempt more. `FalseTimeout` takes one back from a live
worker, at most `MaxTimeouts` times; with 0 heartbeats are accurate.

`runs`, `ran` are history variables and restrict nothing.

### Replica

The start-up of `containerConfig.ts` and the control of `start` for one replica, whatever its
configuration: `instance` is the configured type, which may be invalid, `dirs` the required
directories that exist. `Refuse` is a start-up that throws, `Listen` one that registers the
handler and begins to poll. The tasks are counters here, one for each pair of job and task type,
and never run out: `Arrive` adds one, `TakenElsewhere` is another replica. Calls fail without
limit. What the loop does with a task is abstracted to whether it throws and whether the catch
block does. `Continue` is the `continue` of l.72, which skips both the sleep and the look at
`runOnce`; `Stop` may come at any time, as `stop` is synchronous and the loop looks at
`isRunning` only at its head. `late` is a history variable. `JobProcessor` keeps what this
module leaves out, several workers and the fate of a task; the two share the polling order.

### TaskMetrics and ExportInstance

`TaskMetrics` extends `JobProcessor`: each of its actions is an action of the loop together with
what `withTaskMetrics` does to the registry of that process (`Enter`, `Returns`, `Throws`), or
one outside the callback. `Ends` is the end of a process, whose registry is lost. Metrics are
taken as enabled; with the labels left out a gauge is a number.

`ExportInstance` puts the handler into that composition: `Process` of `JobProcessor` becomes the
request (`FindParts`) and ogr2ogr (`WriteLayer`). `features[w]` is what ogr2ogr is
given, `layer[t]` the layer in the task's GeoPackage. The handler wraps nothing: whatever fails,
a missing package, the request, a part that names no feature of it, ogr2ogr, is rethrown and so
recoverable (`HandlerThrows`). ogr2ogr with `-overwrite` is external: when it fails or is killed
the layer may be as before, broken, or complete (`CutShort`). Two requests of a
retried task may get different answers.

### ValidationTask

The same loop seen from one task, with the handler opened up. A chunk of the file is clean, has
minor errors (small holes and geometries, that count beyond a threshold) or critical ones; the
file is any function of its chunks, and the storage provider is FS or S3, both chosen in `Init`.
`params` are the task's parameters in the job manager (checkpoint `next`, the chunks behind the
error summary, the verdict, the report); `snap[w]` are the parameters as dequeued, which
`saveState` spreads under the new state (l.197), and `latest[w]` those read again before
the result is recorded (l.373). `found[w]` is the collector, by chunk. `shp` counts
the rows each chunk has in `report.shp`, or is `NoShp` while there is no such file, `zips` are the
zips ever made, `disk` and `s3` say
where they are. `qmd` is the set of
chunks the `.qmd` file on disk is about. `writeChunk` is two steps, because ogr2ogr runs after
the file was looked for; writing the `.qmd`, zipping and tidying are three, because the process
may fail or die in between and the zip takes in whatever matches `report.*`.

`Fail` is any await that throws, followed by the recoverable reject; a write, a save, a record
or an upload that fails may have taken effect. `FailStale` is a write or an upload that fails
because of what *another* attempt did to the files.

External: the reader resumes after the chunk it loaded, cuts the file the same way every time
and calls `saveState` after each chunk; `updateTask` replaces the parameters; ogr2ogr refuses to
create a layer that exists; unlinking a file fails silently (`CleanUp`). Reject is one step here.

### ErrorCollector

One attempt without failures. A feature is a record: its id (or none), whether the reader skips
it for its vertices, whether the schema refuses it, and the errors polygon parts manager finds
in it. The reader cuts the file anywhere, up to `MaxChunk` features at a time, and the answer may
hold a part that is none of the chunk's. The actions are the stretches between the awaits of
`process`: `ReadChunk` (vertices and metadata errors up to the request), `ChunkValidated`,
`ChunkWritten`, and `Judge` (verdict, summary, clear). A percentage is
rounded to hundredths and compared with a threshold in hundredths. The code computes it in doubles,
whose error (some 10^-14) matters only in the exact middle of two hundredths, as any other percentage
of fewer than 10^11 features is further from it. Such a tie needs a number of features that is a
multiple of 32, and its double is either the middle, which `toFixed` rounds up, or just
below it: 1 of 32 gives 3.13 and 3 of 20000 gives 0.01. Which ties are rounded up
is the constant `TiesUp`. The run's files have no tie, so that its value does not matter there, and the
theorems hold for every value of it.
The answer's `smallHolesCount` is taken as the number of parts with small holes.
The errors one response or one stretch of the reader brings are a set; `AddErrors` gives them to
`AddError` one by one, the earliest first, by a recursive function on their number (`Collecting`).

This module is what entitles `ValidationTask` to treat a chunk as a class and the verdict as a
function of the chunks counted.

## 3. The runs

| Run | Instance | Shows |
|---|---|---|
| `JPSafety` | 2 ingestion workers, 2 tasks of 2 job types (one with callback urls), maxAttempts 2, 2 faults of any call, 1 crash | `AttemptsBounded`, `HoldersBounded`, `CallbackOnceAndFinal`, `FailedIsFinal`, `CauseSurvives`, and `ImplementsLifecycle` |
| `JPTimeouts` | `ExportInstance`: 2 export workers, 2 configured task types, one task with a package and one without, answers with parts finer and coarser than requested and one with an unknown request id, 1 fault, 1 crash, 1 false timeout | the two bounds hold when a live worker is declared dead; `GaugeIsActive`, `SuccessesAreTold`, `LayerExact` |
| `RPPolling` | one replica of each configuration, 1 task type, so 3 pairs for ingestion and 1 for export, up to 1 task waiting for each; failures, stops and crashes without limit | `TakesOnlyItsOwn`, `OneMoreTask`, `StopEnds`, `RunOnceEnds`, `PairServed` |
| `JPLiveness` | as `JPSafety` with one of the tasks, 2 faults of any call but `getJob`, 1 crash, 1 false timeout, with fairness | `EventuallyFinished`, `OutcomeIsReported` |
| `VTSafety` | 1 worker, 3 chunks, 1 minor chunk tolerated, maxAttempts 3, 2 faults, 1 crash | the nine properties of the report, its summary, its checkpoint and its verdict |
| `VTOverlap` | 2 workers on the task, 2 chunks, maxAttempts 2, 1 fault, 1 crash, 1 false timeout | `CheckpointCovered`, `RowsBounded` under overlapping attempts |
| `ECSafety` | all files of 3 features of 24 kinds (2 ids and none), all cuts, thresholds 33.33 % and 66.67 % | counts, rows and verdict are those of the file |

Each of the remaining runs ends in a violation, of something the repository says of itself:

| Run | What TLC finds |
|---|---|
| `JPReopened` / `CompletedIsFinal` | ack, tracker, then the job lookup of `sendCallBacks` throws: the catch block rejects the *completed* task as recoverable. The test "should complete task successfully even when callback fails" makes a url fail, which is caught; the lookup before it is not. |
| `JPExhausted` / `ExhaustedIsCalledBack` | two failed attempts, then the attempts check throws before there is a handler: FAILED, the tracker is told, the callback urls are not. No call fails. |
| `JPOrphan` / `EventuallyFinished` | `getJob` throws once: the loop goes on, the task stays IN_PROGRESS and its heartbeats keep it from being released. |
| `VTResumed` / `VerdictIsTheFiles` | a critical chunk is written and checkpointed, the attempt fails, the next one resumes behind it with an empty collector and completes the task as valid. |
| `VTFirstChunk` / `FirstChunkStartsReport` | a first chunk that is written again is appended to the report of the failed attempt. |

**Why the bounds are enough.** Two workers and two tasks give every race for a task and every
order of polling two pairs; a third worker can only repeat what the second does, as workers meet
at the job manager alone. Two attempts give a first run, a retry and the give-up. Two faults
let a failure meet another in the catch block or in the retry, one crash and one false timeout
meet any of them. `JPLiveness` has one task, for which two
workers compete: that a task is not passed over for others is the question of `RPPolling`, whose
tasks never run out. Three chunks give a chunk before, at and after a resume; two minor chunks
against a limit of one give both sides of the threshold. In `RPPolling` three pairs
give one before and one after the pair in question; a second waiting task would only be taken like
the first. Three features give two that share an
id, alone in a chunk, together, or with a third; 33.33 and 66.67 are the limits that one
and two of three features meet exactly after rounding, and exceed and miss before it.

**Symmetry** over workers (and over the two ids of `ErrorCollector`) is used in runs without
liveness only. `CHECK_DEADLOCK FALSE` stands in the `ValidationTask` and `ErrorCollector` runs,
whose one task or one file comes to an end; the polling loop never stops, and its runs check
deadlock.

**Fairness** (`JobProcessor!FairSpec`): weak fairness of each worker's own steps, because the
event loop runs on, requests return or throw (failing is an action of its own, never forced), and
an exited container is restarted by its orchestrator; weak fairness of `Release`, because the job
manager looks for inactive tasks periodically. No fairness is assumed of failures, crashes,
or of which way a handler ends. Under it a task ends because attempts run out.

In `Replica` the fairness is weak fairness of `Proceed`, all that the replica does when no call
fails. Failures are not bounded there, so `RunOnceEnds` and `PairServed` name what they need
besides: `ManagerAnswers`, a job manager that, asked again and again, answers each poll some time
and finds the job some time (strong fairness, a premise of the properties and no part of the
specification). `StopEnds` needs none of that.

### Where the properties stop

- With a false timeout two attempts work on the same task and files. `CallbackOnceAndFinal`,
  `FailedIsFinal`, `ImplementsLifecycle`, `NoFalseAlarm`, `ReportComplete`, `ReportDownloadable`
  and `CheckpointMonotone` are claimed without false timeouts only; TLC finds them violated with
  one. For `NoFalseAlarm`: the second worker's `saveState` writes parameters without a verdict
  over the recorded one, and the first then calls back with `isValid ?? false` of a good file.
- `SummaryShown` and `LayerExact` are claimed without false timeouts too: two workers share the
  `.qmd` and the layer. `LayerExact` says so in its own premise. `SuccessesAreTold` allows one
  success more for each false timeout, because both workers may complete the task.
- `PairServed` is about pairs whose predecessors have no tasks in the end. With a steady stream of
  `new` tasks, `update` tasks starve: the scan starts over after every task (l.102).
- After an error in the catch block the process exits: a task FAILED in the job manager may then
  never be announced. `OutcomeIsReported` is stated for behaviours without exits.
- `PairServed` and `RunOnceEnds` need a job manager that answers; `StopEnds` and `OneMoreTask` are about
  a `stop` during the loop, which only tests call.
- A zip made by an attempt that dies before it is recorded is lost, and so are the errors that
  attempt counted. `ReportDownloadable` says that no file is called invalid without a report for it; an
  invalid file called valid is what `VTResumed` shows.
- `FirstAttemptExact` is the strongest statement about the verdict the code supports; `VTResumed`
  shows why it does not extend to retries.
- `RowsFaithful` promises one row for each id, not for each feature: features that share an id,
  or have none, are merged.

Every property of a passing run has a mutant, a small plausible bug in one definition (they are
marked `Mutant` in the modules and are used by no specification), which makes TLC find that
property violated on the same instance.

## 4. The theorems

`JobProcessorProofs` proves, for any sets of workers and tasks, any polling order, any limits and
any set of failing calls, from `ConstantsOK` alone:

- `TypesHold`: `Spec => []TypeOK`. The types are not inductive by themselves, since most steps
  write to `cur[w]`'s task: `TypeInv` adds that a worker past its dequeue has a task.
- `AttemptsStayBounded`: `Spec => []AttemptsBounded`, with crashes and false timeouts. `runs`
  says nothing about the past by itself, so the inductive invariant `AttemptsInv` speaks of the
  attempt numbers handed out. `Tickets`: the number a worker holds before its handler starts was
  never run, is not above the task's counter, is below it if the task is PENDING again, and no
  two workers hold the same number of the same task. `UsedUp`: the numbers run are below the
  limit and used up in the same sense. `Counted`: a task has had as many runs as numbers run.
  The step that matters is `DequeueTask`, which hands out the counter of a PENDING task, so a
  number nobody holds; the lemma `Grows` says that no step makes a task PENDING without counting.
  The bound then is the cardinality of a subset of `0 .. MaxAttempts - 1`.
- `HoldersStayBounded`: `Spec => []HoldersBounded`, with crashes and false timeouts. `HoldInv`
  adds that the holders of a task are finitely many, and treats a task as a token that lies in
  the queue or with a worker: a dequeue moves it (`TokenTaken`), a worker puts it back only as it
  lets go of it (`TokensKept`), and only a false timeout makes another (`TokenMade`).

`JobProcessorOwnership` and `JobProcessorRefinement` assume `MaxTimeouts = 0` besides: the job
manager never takes a task from a live worker. Failures, crashes and restarts stay unbounded.

- `CallbackIsFinal` (`CallbackOnceAndFinal`) and `FailedStays`
  (`FailedIsFinal`) follow from one inductive invariant, `OwnInv`. `Owned`: where the loop
  stands, the status of the task at hand follows. It is IN_PROGRESS up to the ack, then COMPLETED
  or FAILED, and in the catch block either IN_PROGRESS or a COMPLETED task about to be reopened.
  `Alone`: no two workers have the same task. `Settled`: a task whose urls were told is
  finished, was told once, and no worker has it at hand. `OwnStep` is the frame of a step of one
  worker. It keeps `OwnInv` if it changes only its own task and pending ones, and tells the urls
  only as it lets go of the task; each action is shown to be such a step.
- `CauseStays` (`CauseSurvives`) and `LoopIsLifecycle` (`ImplementsLifecycle`) need to know what
  a worker remembers: `LifeInv` says that up to the rejection the fields read at the dequeue are
  still those of the task, and that the tracker was told before the callback urls are called.
  `StepLifecycle` then maps each action to a step of `TaskLifecycle` or to none. That a run is
  still allowed comes from `AttemptsStayBounded`.

`ReplicaProofs` proves for any configured task types, from `ConstantsOK`: `ReplicaTypes`
(`TypeOK`), `OnlyItsOwn` (`TakesOnlyItsOwn`) and `AtMostOneMore` (`OneMoreTask`). Their inductive
invariant `ReplicaInv` says that a replica that is past its start-up has a valid type, its
directories and its handler (`Configured`), that the position in the scan is one of the pairs
(`InRange`; the lemma `Position` is the division that finds the pair), and that a replica that
took a task after `stop` polls no more (`LastScan`).

`ExportInstanceProofs` first proves `ExportIsLoop`, `ExportSpec => Spec`: the composition adds
variables to the loop but no behaviour. So `ExportAttemptsBounded` and `ExportHoldersBounded`
follow from the theorems about `JobProcessor`. `GaugeStaysBalanced` (`GaugeIsActive`) follows
from `GaugeInv`, the gauge as a function of where the loop stands, and `LoopInv`, which relates that
to the task at hand and the error caught; `LayerStaysExact`
(`LayerExact`, under `MaxTimeouts = 0`) needs `OwnInv` again: a task that is completed, or about
to be acknowledged, has an exact layer, and nobody else is at it.

`SuccessesStayTold` (`SuccessesAreTold`) treats an attempt at a task as a token once more, which is
queued, with a worker, or spent on a success. `SuccessInv` balances them: the successes counted and
the workers that may yet come to one (`Active`) are together no more than the tasks an attempt was
spent on (`Spent`) and the false timeouts. The balance is between sizes of sets, so each action is
shown to move at most one worker and at most one task (`Sizes`, `BalanceKept`).

`ValidationTaskProofs` proves, for any workers, chunks and limits, with failures, crashes and false
timeouts, so with attempts that overlap on the same files:

- `TaskTypes`: `Spec => []TypeOK`.
- `RowsAreBounded` (`RowsBounded`). `RowsInv`: an attempt pays for the one time it may write a
  chunk. The rows of a chunk and the workers that have its write before them (`MayWrite`) are no
  more than the attempts there were. Whether the job manager still takes a worker to be at the task
  does not matter to it, which is why it survives a false timeout.
- `CheckpointIsCovered` (`CheckpointCovered`). The checkpoint is copied: into the parameters as
  dequeued, into those read again, and from either back into the task, so an old copy may overwrite
  a new one. `CoverInv` says that every copy, and the place each worker has got to, covers only
  chunks with rows, and that when rows leave the disk in a zip, all other invalid chunks do too.
  `Keeps` is the frame: as long as no rows are lost, what is covered stays so.

`ValidationTaskAlone` assumes besides that no heartbeat comes too late: `OnTime` is `Spec` and
always `timeouts = 0`, which by `NoTimeoutsNoneLate` is all of `Spec` where `MaxTimeouts = 0`.
Each of its properties fails with two attempts at the same files (see above). Its
invariant `TaskInv` has one part for each thing the handler leaves to chance:

- `AloneInv`: a worker at the task is the only one, and the status says so. `ProgressInv`: what the
  handler does not read again is unchanged behind its back, so `latest` is the task. From these
  follows `CheckpointIsMonotone`.
- `VerdictInv`: whatever is called invalid, in the task, in a copy of its parameters or in a
  callback, was so called for errors the file has: `NoAlarmIsFalse`.
- `ReportInv`: until the last chunk is read, `report.shp` has every invalid chunk behind the
  checkpoint, and a zip is made of the whole of it: `ReportsAreComplete` and `SummariesAreShown`.
- `LinkInv`: only the upload that comes next lets a task name a report that is not yet where it is to
  be downloaded from, whatever of recording, uploading and deleting failed before:
  the second half of `ReportsAreDownloadable`. `NamedInv` is the first: whatever copy of the
  parameters calls the file invalid also names a report, as an attempt that counted critical
  errors wrote some of them itself, and so finds a `report.shp` to zip.
- `FirstInv`: an attempt without predecessors counts every chunk it reads: `FirstAttemptIsExact`.

`ErrorCollectorProofs` proves for files of any length, of any features, in any cut, with any answers
of polygon parts manager and any two thresholds, from `LimitsOK` and `FeaturesOK`:

- About `checkThresholdExceeded`, `ExceededGrows`: a count beyond its threshold stays beyond it as it
  grows, whichever way ties are rounded. It rests on the lemma `ExceededIsBeyond`, which takes the
  rounding out of the comparison: an excess of more than half a hundredth is noticed, one of less is
  not, and one of exactly that is if its tie is rounded up (`Quotient`, `TieAt` and `AtTie` reduce the
  quotient to a product).
- `TypesHold` (`TypeOK`), `CountsAreExact` (`CountsExact`), `VerdictIsExact` (`VerdictExact`),
  `RowsAreFaithful` (`RowsFaithful`) and `CriticalErrorsStick` (`CriticalSticks`), all from
  `CollectorInv`. Its core is `Describes`: the counts, entries and flags of the collector are
  those of the features seen, and of the chunk in work, given *as sets*. `OverInv` is needed because the thresholds are
  looked at only when an answer has errors, the one of holes only when it has holes
  (`updateThresholdsTracking`): the flags left behind are still right when a chunk brings none,
  as the count has not moved.
- The loops. `CollectingUnfolds` says what one more error does to the loop of `AddErrors`, and
  `AddErrorsAdds`, by induction on the number of errors, that at its end each count grew by the
  number of errors of its type and each entry got the types of its id, in whatever order. The three
  sources of errors (`VerticesRepresents`, `MetadataRepresents`, `AnswerRepresents`) are shown to
  bring the errors of the features they are about (`Represents`), each once, and `DescribesMore`
  puts the two together. The library's induction theorems cannot be used (they take an operator); the
  lemma `Induction` derives the principle for sets of numbers from the least element of a set.

Every invariant and every action property of a passing run is stated by one of these theorems. What
stays model-checked only is liveness under fairness (`EventuallyFinished`,
`OutcomeIsReported`, `StopEnds`, `RunOnceEnds`, `PairServed`), which is beyond the prover as
ENABLED is. No theorem is about the properties the code violates.

## 5. Not modelled

Of the metrics the counters of processed and failed tasks, the histogram, and all of
`ShapefileMetrics`: they are written and never read, and no state depends on them. The text of
messages and of the `.qmd` file; names, titles and sizes of reports; the mapping and payload of
features; resolutions in metres; the update of the job's status; retries inside the HTTP client;
logging, tracing and the health check; `httpClientV2.ts`, which is commented out from end to end.
A task type without `maxAttempts` in the configuration would be retried for ever (`n >=
undefined` is false); the models take the number as given. `runOnce` is only used by tests, and
`stop` only just before `process.exit`; `Replica` gives both their meaning in the code.

## 6. Plan

1. `JobProcessor` with its lifecycle, `Replica`, `TaskMetrics` and `ExportInstance`: done, safety and
   refinement proved. Left: what remains of `FailedIsFinal` and `CallbackOnceAndFinal` under false
   timeouts, stated, checked and proved.
2. `ValidationTask`: done for one task with report, `.qmd` and zip, safety proved. Left: the same of
   what remains of `CheckpointMonotone` and `ReportDownloadable` when two attempts overlap.
3. `ErrorCollector`: done, safety proved.
4. A composition of the loop with the phases of the ingestion handler, as `ExportInstance` is for
   the export handler, so that the callback's data and its number are checked together; and a proof
   that its handler's part implements `ValidationTask`.
