--------------------------- MODULE ValidationTask ---------------------------
(***************************************************************************)
(* One validation task through all its attempts: processJob of             *)
(* src/models/ingestion/ingestionHandler.ts with the report it writes to   *)
(* the shared disk (shapefileReportWriter.ts), its upload (s3Service.ts)   *)
(* and the callback, run by any of the workers.  An attempt may fail or be *)
(* killed at any of its awaits; the next one resumes from the checkpoint   *)
(* the reader saved in the task.                                           *)
(*                                                                         *)
(* A chunk of the shapefile is clean, has minor errors (small holes and    *)
(* geometries, which count only beyond a threshold) or has critical ones;  *)
(* ErrorCollector models how a chunk gets there.  The loop around          *)
(* processJob is that of JobProcessor, with reject taken as one step.      *)
(***************************************************************************)
EXTENDS Naturals, Sequences, FiniteSets

CONSTANTS
  Workers,
  NumChunks,      \* how many chunks the reader cuts the shapefile into
  MinorLimit,     \* how many chunks with minor errors stay below the threshold
  MaxAttempts,
  MaxFaults, MaxCrashes, MaxTimeouts,
  NoShp           \* stands for the report.shp that is not there

Chunks == 1 .. NumChunks

ASSUME ConstantsOK ==
  /\ NumChunks \in Nat /\ MinorLimit \in Nat /\ MaxAttempts \in Nat
  /\ MaxFaults \in Nat /\ MaxCrashes \in Nat /\ MaxTimeouts \in Nat
  /\ NoShp \notin [Chunks -> Nat]

VARIABLES
  file,       \* what is wrong with each chunk of the shapefile
  provider,   \* reportStorageProvider: "FS" or "S3"
  \* the job manager: the task, with the parameters the service keeps in it
  status, attempts, params,
  \* the report directory of the job: the rows of each chunk in report.shp, or
  \* NoShp; the chunks whose errors report.qmd sums up, or {} if it is not
  \* there; every zip ever made, and which of them are on disk and in S3
  shp, qmd, zips, disk, s3,
  \* each worker: where processJob stands, the parameters as dequeued, the
  \* chunk in work, the chunks its error collector counted, the writing mode,
  \* the report to record, the parameters as read again
  pc, snap, chunk, found, mode, out, latest,
  sent,       \* the data of the callbacks sent
  cleaned,    \* history: a report without critical errors was deleted
  faults, crashes, timeouts

task    == <<status, attempts, params>>
storage == <<shp, qmd, zips, disk, s3>>
local   == <<snap, chunk, found, mode, out, latest>>
ends    == <<sent, cleaned>>
bounds  == <<faults, crashes, timeouts>>
vars    == <<file, provider, task, storage, pc, local, ends, bounds>>

NoZip  == 0
Fresh  == [next |-> 0, counted |-> {}, valid |-> "unset", report |-> NoZip]

Dirty == {c \in Chunks : file[c] # "clean"}

\* hasCriticalErrors, once the errors of these chunks were counted.
Critical(counted) ==
  \/ \E c \in counted : file[c] = "critical"
  \/ Cardinality({c \in counted : file[c] = "minor"}) > MinorLimit

Init ==
  /\ file \in [Chunks -> {"clean", "minor", "critical"}]
  /\ provider \in {"FS", "S3"}
  /\ status = "PENDING" /\ attempts = 0 /\ params = Fresh
  /\ shp = NoShp /\ qmd = {} /\ zips = <<>> /\ disk = {} /\ s3 = {}
  /\ pc     = [w \in Workers |-> "idle"]
  /\ snap   = [w \in Workers |-> Fresh]
  /\ chunk  = [w \in Workers |-> 0]
  /\ found  = [w \in Workers |-> {}]
  /\ mode   = [w \in Workers |-> "none"]
  /\ out    = [w \in Workers |-> NoZip]
  /\ latest = [w \in Workers |-> Fresh]
  /\ sent = <<>> /\ cleaned = FALSE
  /\ faults = 0 /\ crashes = 0 /\ timeouts = 0

-----------------------------------------------------------------------------
(* Helpers.                                                                *)

Goto(w, point) == pc' = [pc EXCEPT ![w] = point]

\* The handler, its collector and its writer are gone: each attempt has its own.
LetGo(w) ==
  /\ Goto(w, "idle")
  /\ snap'   = [snap EXCEPT ![w] = Fresh]
  /\ chunk'  = [chunk EXCEPT ![w] = 0]
  /\ found'  = [found EXCEPT ![w] = {}]
  /\ mode'   = [mode EXCEPT ![w] = "none"]
  /\ out'    = [out EXCEPT ![w] = NoZip]
  /\ latest' = [latest EXCEPT ![w] = Fresh]

Requeue ==
  /\ status' = "PENDING" /\ attempts' = attempts + 1
  /\ UNCHANGED params

GiveUp ==
  /\ status' = "FAILED"
  /\ UNCHANGED <<attempts, params>>

\* The reader goes on with a chunk, or is done and the verdict is due.
ProceedTo(w, c) ==
  IF c \in Chunks
    THEN Goto(w, "validate") /\ chunk' = [chunk EXCEPT ![w] = c]
    ELSE Goto(w, "finalize") /\ UNCHANGED chunk

-----------------------------------------------------------------------------
(* The start of an attempt.                                                *)

\* The task is dequeued, unless its attempts are used up.
Begin(w) ==
  /\ pc[w] = "idle" /\ status = "PENDING" /\ attempts < MaxAttempts
  /\ status' = "IN_PROGRESS"
  /\ snap' = [snap EXCEPT ![w] = params]
  /\ Goto(w, "open")
  /\ UNCHANGED <<file, provider, attempts, params, storage, chunk, found, mode, out,
                 latest, ends, bounds>>

Exhaust(w) ==
  /\ pc[w] = "idle" /\ status = "PENDING" /\ attempts >= MaxAttempts
  /\ GiveUp
  /\ UNCHANGED <<file, provider, storage, pc, local, ends, bounds>>

\* loadState: the reader resumes after the chunk the dequeued task names.
FirstChunk(w) == snap[w].next + 1

Open(w) ==
  /\ pc[w] = "open"
  /\ ProceedTo(w, FirstChunk(w))
  /\ UNCHANGED <<file, provider, task, storage, snap, found, mode, out, latest, ends,
                 bounds>>

\* validateShapefilesExists: a file is missing, which no retry will mend.
OpenMissing(w) ==
  /\ pc[w] = "open"
  /\ GiveUp
  /\ LetGo(w)
  /\ UNCHANGED <<file, provider, storage, ends, bounds>>

-----------------------------------------------------------------------------
(* A chunk: its errors are collected and written, then its state is saved. *)

Validate(w) ==
  /\ pc[w] = "validate"
  /\ IF chunk[w] \in Dirty
       THEN found' = [found EXCEPT ![w] = @ \cup {chunk[w]}] /\ Goto(w, "stat")
       ELSE UNCHANGED found /\ Goto(w, "save")
  /\ UNCHANGED <<file, provider, task, storage, snap, chunk, mode, out, latest, ends,
                 bounds>>

\* writeChunk: the file decides the mode, and ogr2ogr runs after that.
StatShp(w) ==
  /\ pc[w] = "stat"
  /\ mode' = [mode EXCEPT ![w] = IF shp = NoShp THEN "create" ELSE "append"]
  /\ Goto(w, "write")
  /\ UNCHANGED <<file, provider, task, storage, snap, chunk, found, out, latest, ends,
                 bounds>>

NoRows == [c \in Chunks |-> 0]

AddRows(c) == shp' = [(IF shp = NoShp THEN NoRows ELSE shp) EXCEPT ![c] = @ + 1]

\* ogr2ogr refuses to create a layer that is there by now.
CanWrite(w) == mode[w] = "create" => shp = NoShp

\* Mutants: the invalid features are cleared before they are written, or not
\* cleared after they were.
WriteNothing(w) ==
  /\ pc[w] = "write" /\ CanWrite(w)
  /\ shp' = IF shp = NoShp THEN NoRows ELSE shp
  /\ mode' = [mode EXCEPT ![w] = "none"]
  /\ Goto(w, "save")
  /\ UNCHANGED <<file, provider, task, qmd, zips, disk, s3, snap, chunk, found, out, latest,
                 ends, bounds>>

WriteAllFound(w) ==
  /\ pc[w] = "write" /\ CanWrite(w)
  /\ shp' = [c \in Chunks |-> (IF shp = NoShp THEN 0 ELSE shp[c])
                                + (IF c \in found[w] THEN 1 ELSE 0)]
  /\ mode' = [mode EXCEPT ![w] = "none"]
  /\ Goto(w, "save")
  /\ UNCHANGED <<file, provider, task, qmd, zips, disk, s3, snap, chunk, found, out, latest,
                 ends, bounds>>

WriteRows(w) ==
  /\ pc[w] = "write" /\ CanWrite(w)
  /\ AddRows(chunk[w])
  /\ mode' = [mode EXCEPT ![w] = "none"]
  /\ Goto(w, "save")
  /\ UNCHANGED <<file, provider, task, qmd, zips, disk, s3, snap, chunk, found, out, latest,
                 ends, bounds>>

\* Mutant: the state is saved with the chunk the reader is about to read.
SavedAhead(w) == [snap[w] EXCEPT !.next = chunk[w] + 1, !.counted = found[w]]

\* What saveState sends: the parameters as dequeued, with the state and the
\* summary of the errors counted in this attempt.
Saved(w) == [snap[w] EXCEPT !.next = chunk[w], !.counted = found[w]]

SaveState(w) ==
  /\ pc[w] = "save"
  /\ params' = Saved(w)
  /\ ProceedTo(w, chunk[w] + 1)
  /\ UNCHANGED <<file, provider, status, attempts, storage, snap, found, mode, out, latest,
                 ends, bounds>>

-----------------------------------------------------------------------------
(* finalize: the verdict is that of the errors this attempt counted.       *)

\* What archive.glob finds: the rows of each chunk, and the summary that is there.
Zip == [rows |-> IF shp = NoShp THEN NoRows ELSE shp, counted |-> qmd]

OutIs(w, id) == out' = [out EXCEPT ![w] = id] /\ Goto(w, "reread")

\* getExistingZippedReport, of the task as dequeued.
ReusesZip(w) == snap[w].report # NoZip /\ snap[w].report \in disk

FinalizeReuse(w) ==
  /\ pc[w] = "finalize" /\ ReusesZip(w)
  /\ OutIs(w, snap[w].report)
  /\ UNCHANGED <<file, provider, task, storage, snap, chunk, found, mode, latest, ends,
                 bounds>>

FinalizeNothing(w) ==
  /\ pc[w] = "finalize" /\ ~ ReusesZip(w) /\ shp = NoShp
  /\ OutIs(w, NoZip)
  /\ UNCHANGED <<file, provider, task, storage, snap, chunk, found, mode, latest, ends,
                 bounds>>

\* cleanupShapefileComponents: a file that cannot be deleted stays.
CleanUp == shp' \in {NoShp, shp} /\ qmd' \in {{}, qmd}

FinalizeCleaned(w) ==
  /\ pc[w] = "finalize" /\ ~ ReusesZip(w) /\ shp # NoShp /\ ~ Critical(found[w])
  /\ CleanUp /\ cleaned' = TRUE
  /\ OutIs(w, NoZip)
  /\ UNCHANGED <<file, provider, task, qmd, zips, disk, s3, snap, chunk, found, mode, latest,
                 sent, bounds>>

MustReport(w) == ~ ReusesZip(w) /\ shp # NoShp /\ Critical(found[w])

\* Mutant: the collector is cleared before its summary is asked for.
WriteQmdAfterClear(w) ==
  /\ pc[w] = "finalize" /\ MustReport(w)
  /\ qmd' = {}
  /\ Goto(w, "zip")
  /\ UNCHANGED <<file, provider, task, shp, zips, disk, s3, local, ends, bounds>>

WriteQmd(w) ==
  /\ pc[w] = "finalize" /\ MustReport(w)
  /\ qmd' = found[w]
  /\ Goto(w, "zip")
  /\ UNCHANGED <<file, provider, task, shp, zips, disk, s3, local, ends, bounds>>

\* createZipFile, under a name with the time of day in it.
ZipFiles(w) ==
  /\ pc[w] = "zip"
  /\ zips' = Append(zips, Zip)
  /\ disk' = disk \cup {Len(zips')}
  /\ out'  = [out EXCEPT ![w] = Len(zips')]
  /\ Goto(w, "tidy")
  /\ UNCHANGED <<file, provider, task, shp, qmd, s3, snap, chunk, found, mode, latest,
                 ends, bounds>>

Tidy(w) ==
  /\ pc[w] = "tidy"
  /\ CleanUp
  /\ Goto(w, "reread")
  /\ UNCHANGED <<file, provider, task, zips, disk, s3, local, ends, bounds>>

-----------------------------------------------------------------------------
(* updateTaskValidationResult, the upload and the end of the task.         *)

RereadTask(w) ==
  /\ pc[w] = "reread"
  /\ latest' = [latest EXCEPT ![w] = params]
  /\ Goto(w, "record")
  /\ UNCHANGED <<file, provider, task, storage, snap, chunk, found, mode, out, ends, bounds>>

\* Mutants: a negation too few; hasCriticalErrors asked after clear; the
\* parameters as dequeued for those of the task as it is now.
ResultNegated(w) ==
  [latest[w] EXCEPT !.counted = found[w],
                    !.valid = IF Critical(found[w]) THEN "valid" ELSE "invalid",
                    !.report = IF out[w] # NoZip THEN out[w] ELSE @]
ResultAfterClear(w) ==
  [latest[w] EXCEPT !.counted = found[w], !.valid = "valid",
                    !.report = IF out[w] # NoZip THEN out[w] ELSE @]
ResultOfDequeued(w) ==
  [snap[w] EXCEPT !.counted = found[w],
                  !.valid = IF Critical(found[w]) THEN "invalid" ELSE "valid",
                  !.report = IF out[w] # NoZip THEN out[w] ELSE @]

Result(w) ==
  [latest[w] EXCEPT !.counted = found[w],
                    !.valid = IF Critical(found[w]) THEN "invalid" ELSE "valid",
                    !.report = IF out[w] # NoZip THEN out[w] ELSE @]

\* Mutant: the report is taken for uploaded, whatever the provider.
NeverUploads(w) == FALSE

Uploads(w) == provider = "S3" /\ out[w] # NoZip

RecordResult(w) ==
  /\ pc[w] = "record"
  /\ params' = Result(w)
  /\ Goto(w, IF Uploads(w) THEN "upload" ELSE "ack")
  /\ UNCHANGED <<file, provider, status, attempts, storage, local, ends, bounds>>

\* uploadFiles, then deleteFilesFromFilesystem, whose errors are only logged.
Upload(w) ==
  /\ pc[w] = "upload" /\ out[w] \in disk
  /\ s3' = s3 \cup {out[w]}
  /\ disk' \in {disk, disk \ {out[w]}}
  /\ Goto(w, "ack")
  /\ UNCHANGED <<file, provider, task, shp, qmd, zips, local, ends, bounds>>

Ack(w) ==
  /\ pc[w] = "ack"
  /\ status' = "COMPLETED"
  /\ Goto(w, "callBack")
  /\ UNCHANGED <<file, provider, attempts, params, storage, local, ends, bounds>>

\* sendCallBacks, with the verdict and the link of the task as fetched again; a
\* verdict that is not there is sent as "isValid: false".
CallBack(w) ==
  /\ pc[w] = "callBack"
  /\ sent' = Append(sent, [valid |-> params.valid = "valid", report |-> params.report])
  /\ LetGo(w)
  /\ UNCHANGED <<file, provider, task, storage, cleaned, bounds>>

-----------------------------------------------------------------------------
(* Failures: whatever is awaited may throw, and the task is rejected as    *)
(* recoverable.  A write or an upload that fails may have left its effect. *)

Awaits == {"open", "validate", "stat", "write", "save", "finalize", "zip", "tidy", "reread",
           "record", "upload", "ack", "callBack"}

Fail(w) ==
  /\ pc[w] \in Awaits \ {"stat", "tidy"}
  /\ faults < MaxFaults /\ faults' = faults + 1
  /\ \/ UNCHANGED <<params, storage>>
     \/ /\ pc[w] = "write" /\ CanWrite(w)
        /\ AddRows(chunk[w]) /\ UNCHANGED <<params, qmd, zips, disk, s3>>
     \/ /\ pc[w] = "finalize" /\ MustReport(w)
        /\ qmd' = found[w] /\ UNCHANGED <<params, shp, zips, disk, s3>>
     \/ /\ pc[w] = "save" /\ params' = Saved(w) /\ UNCHANGED storage
     \/ /\ pc[w] = "record" /\ params' = Result(w) /\ UNCHANGED storage
     \/ /\ pc[w] = "upload" /\ out[w] \in disk
        /\ s3' = s3 \cup {out[w]} /\ UNCHANGED <<params, shp, qmd, zips, disk>>
  /\ status' = "PENDING" /\ attempts' = attempts + 1
  /\ LetGo(w)
  /\ UNCHANGED <<file, provider, ends, crashes, timeouts>>

\* What other attempts did to the disk makes a write or an upload fail.
FailStale(w) ==
  /\ \/ pc[w] = "write" /\ ~ CanWrite(w)
     \/ pc[w] = "upload" /\ out[w] \notin disk
  /\ Requeue
  /\ LetGo(w)
  /\ UNCHANGED <<file, provider, storage, ends, bounds>>

Crash(w) ==
  /\ pc[w] # "idle"
  /\ crashes < MaxCrashes /\ crashes' = crashes + 1
  /\ LetGo(w)
  /\ UNCHANGED <<file, provider, task, storage, ends, faults, timeouts>>

\* The job manager takes the task back from a worker that is gone ...
Release ==
  /\ status = "IN_PROGRESS" /\ \A w \in Workers : pc[w] = "idle"
  /\ Requeue
  /\ UNCHANGED <<file, provider, storage, pc, local, ends, bounds>>

\* ... or from one whose heartbeats came too late.
FalseTimeout ==
  /\ status = "IN_PROGRESS"
  /\ timeouts < MaxTimeouts /\ timeouts' = timeouts + 1
  /\ Requeue
  /\ UNCHANGED <<file, provider, storage, pc, local, ends, faults, crashes>>

-----------------------------------------------------------------------------

Work(w) ==
  \/ Begin(w) \/ Exhaust(w) \/ Open(w) \/ OpenMissing(w)
  \/ Validate(w) \/ StatShp(w) \/ WriteRows(w) \/ SaveState(w)
  \/ FinalizeReuse(w) \/ FinalizeNothing(w) \/ FinalizeCleaned(w) \/ WriteQmd(w) \/ ZipFiles(w)
  \/ Tidy(w) \/ RereadTask(w) \/ RecordResult(w) \/ Upload(w) \/ Ack(w) \/ CallBack(w)

Next ==
  \/ \E w \in Workers : Work(w) \/ Fail(w) \/ FailStale(w) \/ Crash(w)
  \/ Release \/ FalseTimeout

Spec == Init /\ [][Next]_vars

-----------------------------------------------------------------------------
(* Properties.                                                             *)

Params ==
  [next : 0 .. NumChunks, counted : SUBSET Chunks, valid : {"unset", "valid", "invalid"},
   report : Nat]

TaskTypeOK ==
  /\ file \in [Chunks -> {"clean", "minor", "critical"}]
  /\ provider \in {"FS", "S3"}
  /\ status \in {"PENDING", "IN_PROGRESS", "COMPLETED", "FAILED"}
  /\ attempts \in Nat
  /\ params \in Params

FilesTypeOK ==
  /\ shp = NoShp \/ shp \in [Chunks -> Nat]
  /\ qmd \subseteq Chunks
  /\ zips \in Seq([rows : [Chunks -> Nat], counted : SUBSET Chunks])
  /\ disk \subseteq DOMAIN zips /\ s3 \subseteq DOMAIN zips

HandlerTypeOK ==
  /\ pc     \in [Workers -> Awaits \cup {"idle"}]
  /\ snap   \in [Workers -> Params]
  /\ chunk  \in [Workers -> 0 .. NumChunks]
  /\ found  \in [Workers -> SUBSET Chunks]
  /\ mode   \in [Workers -> {"none", "create", "append"}]
  /\ out    \in [Workers -> Nat]
  /\ latest \in [Workers -> Params]

EndsTypeOK ==
  /\ sent \in Seq([valid : BOOLEAN, report : Nat])
  /\ cleaned \in BOOLEAN
  /\ faults \in Nat /\ crashes \in Nat /\ timeouts \in Nat

TypeOK == TaskTypeOK /\ FilesTypeOK /\ HandlerTypeOK /\ EndsTypeOK

\* A shapefile is never called invalid unless it is: whatever was retried,
\* lost or done twice, only errors that are there are counted (l.81, 377).
NoFalseAlarm ==
  \/ params.valid = "invalid"
  \/ \E i \in DOMAIN sent : ~ sent[i].valid
  => Critical(Dirty)

RowsOf(c) ==
  \/ shp # NoShp /\ shp[c] > 0
  \/ \E i \in DOMAIN zips : zips[i].rows[c] > 0

\* No invalid feature is skipped by a resume: the chunks the checkpoint says
\* are done have their rows on disk, in the report or in a zip made of it,
\* unless an attempt found the file good and deleted them (l.247-253, then
\* saveState).
CheckpointCovered ==
  ~ cleaned => \A c \in 1 .. params.next : c \in Dirty => RowsOf(c)

\* Every zipped report shows the errors of all the invalid chunks of the
\* file, those of earlier attempts included.
ReportComplete ==
  \A i \in DOMAIN zips : \A c \in Dirty : zips[i].rows[c] > 0

\* The summary zipped with a report is the one it was made for: it calls the
\* file invalid, and the report shows what it counts, although report.qmd is
\* written, zipped and deleted apart from report.shp (l.170-193, 310-345).
SummaryShown ==
  \A i \in DOMAIN zips :
    /\ Critical(zips[i].counted)
    /\ \A c \in zips[i].counted : zips[i].rows[c] > 0

\* A chunk is in the report at most once for every attempt at the task.
RowsBounded ==
  shp # NoShp => \A c \in Chunks : shp[c] <= attempts + 1

\* A file called invalid comes with a report, and the report a completed task
\* links to can be downloaded from where the provider keeps reports, whatever of
\* zipping, tidying, recording, uploading and deleting the local copy this and
\* earlier attempts got to (l.85-103).
ReportDownloadable ==
  status = "COMPLETED" =>
    /\ params.valid = "invalid" => params.report # NoZip
    /\ params.report # NoZip => params.report \in (IF provider = "S3" THEN s3 ELSE disk)

\* The verdict of a task completed by its first attempt is the file's, and a
\* file with critical errors comes with a report.
FirstAttemptExact ==
  status = "COMPLETED" /\ attempts = 0 =>
    IF Critical(Dirty)
      THEN params.valid = "invalid" /\ params.report # NoZip
      ELSE params.valid = "valid" /\ params.report = NoZip

\* The checkpoint of the task is never set back (saveState, l.194-203).
CheckpointMonotone == [][params'.next >= params.next]_vars

-----------------------------------------------------------------------------
(* What docs say, and the code does not do.                                *)

\* README.md:248, "Configurable retry attempts with state recovery", and :57,
\* "Failed tasks can resume from the last processed chunk": a task completed
\* after a retry carries the verdict of its file.
VerdictIsTheFiles ==
  status = "COMPLETED" => (params.valid = "invalid" <=> Critical(Dirty))

\* shapefileReportWriter.ts:54, "For the first chunk, creates a new shapefile":
\* once its first chunk is written, the report holds the rows of that chunk only.
FirstChunkStartsReport ==
  \A w \in Workers :
    pc[w] = "save" /\ chunk[w] = 1 /\ 1 \in found[w] => shp = [NoRows EXCEPT ![1] = 1]

=============================================================================
