------------------------- MODULE ValidationTaskAlone -------------------------
(***************************************************************************)
(* What holds of ValidationTask as long as no heartbeat comes too late:    *)
(* attempts fail, are killed and follow each other, but no two of them are *)
(* at the task at the same time.  With a second worker at the same report  *)
(* directory none of these properties is the code's to promise.            *)
(***************************************************************************)
EXTENDS ValidationTaskProofs

NoneLate == timeouts = 0

OnTime == Spec /\ []NoneLate

-----------------------------------------------------------------------------
(* The inductive invariant, one part for each thing it keeps track of.     *)

Reading  == {"validate", "stat", "write", "save"}
Ending   == {"finalize", "zip", "tidy", "reread", "record"}
Recorded == {"upload", "ack", "callBack"}

\* The worker at a task is the only one.
AloneInv ==
  \A w \in Workers : pc[w] # "idle" =>
    /\ status = (IF pc[w] = "callBack" THEN "COMPLETED" ELSE "IN_PROGRESS")
    /\ \A v \in Workers \ {w} : pc[v] = "idle"

\* What a handler does not read again is not changed behind its back: the
\* parameters are as it dequeued them but for the checkpoint it moved.
InStep(w) ==
  /\ pc[w] = "open" => params = snap[w]
  /\ pc[w] \in Reading => chunk[w] \in Chunks /\ params.next = chunk[w] - 1
  /\ pc[w] \in Ending \cup Recorded => params.next = NumChunks
  /\ pc[w] \in Reading \cup Ending => params.report = snap[w].report
  /\ pc[w] = "record" => latest[w] = params

ProgressInv == \A w \in Workers : InStep(w)

\* Whatever is called invalid was so called for errors that are there.
Justified(w) ==
  /\ found[w] \subseteq Dirty
  /\ pc[w] \in {"idle", "open"} => found[w] = {}
  /\ pc[w] \in Recorded => params.valid # "unset"
  /\ snap[w].valid = "invalid" \/ latest[w].valid = "invalid" => Critical(Dirty)

VerdictInv ==
  /\ params.valid = "invalid" => Critical(Dirty)
  /\ \A i \in DOMAIN sent : ~ sent[i].valid => Critical(Dirty)
  /\ \A w \in Workers : Justified(w)

Shown(n) == \A c \in Dirty : c <= n => InShp(c)

\* Until its last chunk is read, the report on disk has every invalid chunk
\* read so far, and a zip is made of the whole of it.
Reports(w) ==
  /\ pc[w] \in {"validate", "stat", "write"} => Shown(chunk[w] - 1)
  /\ pc[w] = "save" => Shown(chunk[w])
  /\ pc[w] = "finalize" /\ found[w] # {} => Shown(NumChunks)
  /\ pc[w] = "zip" => Shown(NumChunks) /\ qmd = found[w] /\ Critical(found[w])

ZipsComplete ==
  \A i \in DOMAIN zips :
    /\ \A c \in Dirty : zips[i].rows[c] > 0
    /\ zips[i].counted \subseteq Dirty /\ Critical(zips[i].counted)

ReportInv ==
  /\ params.next # NumChunks => Shown(params.next)
  /\ \A w \in Workers : Reports(w)
  /\ ZipsComplete

\* Where a report is to be downloaded from.
Home == IF provider = "S3" THEN s3 ELSE disk

AtHome(zip) == zip = NoZip \/ zip \in Home

\* A report the task names is there, or on its way there: only the upload
\* that comes next lets a task name one that is not there yet.
Links(w) ==
  /\ pc[w] \in {"tidy", "reread", "record", "upload"} /\ out[w] # NoZip => out[w] \in disk
  /\ pc[w] \in {"tidy", "upload"} => out[w] # NoZip
  /\ pc[w] \in {"reread", "record"} /\ out[w] = NoZip => AtHome(params.report)
  /\ pc[w] = "upload" => provider = "S3" /\ params.report = out[w]
  /\ pc[w] \in {"ack", "callBack"} => AtHome(params.report)

LinkInv ==
  /\ params.report = NoZip \/ params.report \in disk \cup Home
  /\ status = "COMPLETED" => AtHome(params.report)
  /\ \A w \in Workers : Links(w)

\* Parameters that call a file invalid name its report.
Named(p) == p.valid = "invalid" => p.report # NoZip

\* An attempt that counted critical errors wrote some, and so has a report of them.
HasReport(w) ==
  /\ Named(snap[w])
  /\ pc[w] \in {"reread", "record"} /\ Critical(found[w]) => out[w] # NoZip

NamedInv == Named(params) /\ \A w \in Workers : HasReport(w)

\* The verdict is that of the file, and comes with a report if need be.
Exact ==
  IF Critical(Dirty)
    THEN params.valid = "invalid" /\ params.report # NoZip
    ELSE params.valid = "valid" /\ params.report = NoZip

\* The first attempt counts the errors of every chunk it has read.
CountsAll(w) ==
  /\ pc[w] # "idle" => snap[w] = Fresh
  /\ pc[w] = "validate" => found[w] = {c \in Dirty : c < chunk[w]}
  /\ pc[w] \in {"stat", "write", "save"} => found[w] = {c \in Dirty : c <= chunk[w]}
  /\ pc[w] \in Ending => found[w] = Dirty
  /\ pc[w] \in {"zip", "tidy"} => Critical(Dirty)
  /\ pc[w] \in {"reread", "record"} => (out[w] # NoZip <=> Critical(Dirty))
  /\ pc[w] \in Recorded => Exact

FirstInv ==
  attempts = 0 =>
    /\ status = "PENDING" => params = Fresh
    /\ status = "COMPLETED" => Exact
    /\ \A w \in Workers : CountsAll(w)

-----------------------------------------------------------------------------
(* AloneInv, and what a step of the one worker leaves to look at.          *)

\* The steps there are while no heartbeat is late.
LEMMA OnTimeSteps ==
  ASSUME TypeOK, [Next]_vars, timeouts' = 0
  PROVE  (\E w \in Workers : StepOf(w)) \/ Release \/ UNCHANGED vars
<1>1. ~ FalseTimeout \/ timeouts' # 0
  BY DEF FalseTimeout, TypeOK, EndsTypeOK
<1>. QED
  BY <1>1 DEF Next, StepOf

\* While a worker takes a step, the others are idle.
LEMMA OthersIdle ==
  ASSUME TypeOK, AloneInv, NEW w \in Workers, StepOf(w)
  PROVE  \A v \in Workers \ {w} : pc[v] = "idle" /\ pc'[v] = "idle"
<1>1. Only(w)
  BY StepOfOne
<1>2. CASE pc[w] # "idle"
  BY <1>1, <1>2 DEF AloneInv, Only
<1>3. CASE pc[w] = "idle"
  <2>1. status = "PENDING"
    BY <1>3 DEF StepOf, Work, Begin, Exhaust, Open, OpenMissing, Validate, StatShp, WriteRows,
          SaveState, FinalizeReuse, FinalizeNothing, FinalizeCleaned, WriteQmd, ZipFiles, Tidy,
          RereadTask, RecordResult, Upload, Ack, CallBack, Fail, FailStale, Crash, Awaits
  <2>2. \A v \in Workers : pc[v] = "idle"
    BY <2>1 DEF AloneInv
  <2>. QED
    BY <1>1, <2>2 DEF Only
<1>. QED
  BY <1>2, <1>3

\* An attempt begins when there is no other, and ends before the next begins.
LEMMA StepAloneInv == TypeOK /\ AloneInv /\ [Next]_vars /\ timeouts' = 0 => AloneInv'
<1> SUFFICES ASSUME TypeOK, AloneInv, [Next]_vars, timeouts' = 0 PROVE AloneInv'
  OBVIOUS
<1>1. ASSUME NEW w \in Workers, StepOf(w) PROVE AloneInv'
  <2>1. \A v \in Workers \ {w} : pc[v] = "idle" /\ pc'[v] = "idle"
    BY <1>1, OthersIdle
  <2>2. pc'[w] # "idle" => status' = (IF pc'[w] = "callBack" THEN "COMPLETED" ELSE "IN_PROGRESS")
    <3>1. CASE Begin(w) \/ Ack(w)
      BY <3>1 DEF Begin, Ack, Goto, TypeOK, HandlerTypeOK
    <3>2. CASE OpenMissing(w) \/ CallBack(w) \/ Fail(w) \/ FailStale(w) \/ Crash(w) \/ Exhaust(w)
      BY <3>2 DEF OpenMissing, CallBack, Fail, FailStale, Crash, Exhaust, LetGo, Goto, TypeOK,
                  HandlerTypeOK
    <3>3. CASE Open(w) \/ Validate(w) \/ StatShp(w) \/ WriteRows(w) \/ SaveState(w)
      BY <3>3 DEF Open, Validate, StatShp, WriteRows, SaveState, ProceedTo, Goto, task, TypeOK,
                  HandlerTypeOK, AloneInv
    <3>4. CASE FinalizeReuse(w) \/ FinalizeNothing(w) \/ FinalizeCleaned(w) \/ WriteQmd(w)
      BY <3>4 DEF FinalizeReuse, FinalizeNothing, FinalizeCleaned, WriteQmd, OutIs, Goto, task,
                  TypeOK, HandlerTypeOK, AloneInv
    <3>5. CASE ZipFiles(w) \/ Tidy(w) \/ RereadTask(w) \/ RecordResult(w) \/ Upload(w)
      BY <3>5 DEF ZipFiles, Tidy, RereadTask, RecordResult, Upload, Goto, task, TypeOK,
                  HandlerTypeOK, AloneInv
    <3>. QED
      BY <1>1, <3>1, <3>2, <3>3, <3>4, <3>5 DEF StepOf, Work
  <2>. QED
    BY <2>1, <2>2 DEF AloneInv
<1>2. CASE Release
  BY <1>2 DEF Release, AloneInv
<1>3. CASE UNCHANGED vars
  BY <1>3 DEF vars, task, AloneInv
<1>. QED
  BY <1>1, <1>2, <1>3, OnTimeSteps

-----------------------------------------------------------------------------
(* ProgressInv, from which the checkpoint never goes back.                 *)

\* The reader goes on with a chunk, or has read them all.
LEMMA Proceeds ==
  ASSUME TypeOK, NEW w \in Workers, NEW c \in Nat, ProceedTo(w, c), c <= NumChunks + 1
  PROVE  \/ /\ c \in Chunks /\ pc'[w] = "validate" /\ chunk'[w] = c
         \/ c = NumChunks + 1 /\ pc'[w] = "finalize" /\ chunk'[w] = chunk[w]
         \/ c = 0 /\ pc'[w] = "finalize"
<1>1. CASE c \in Chunks
  BY <1>1 DEF ProceedTo, Goto, TypeOK, HandlerTypeOK
<1>2. CASE c \notin Chunks
  <2>1. c = NumChunks + 1 \/ c = 0
    BY <1>2, ConstantsOK DEF Chunks
  <2>. QED
    BY <1>2, <2>1 DEF ProceedTo, Goto, TypeOK, HandlerTypeOK
<1>. QED
  BY <1>1, <1>2

\* What a worker knows of the task is still so after its step.
LEMMA StepProgressInv ==
  TypeOK /\ AloneInv /\ ProgressInv /\ [Next]_vars /\ timeouts' = 0 => ProgressInv'
<1> SUFFICES ASSUME TypeOK, AloneInv, ProgressInv, [Next]_vars, timeouts' = 0 PROVE ProgressInv'
  OBVIOUS
<1>1. ASSUME NEW w \in Workers, StepOf(w) PROVE ProgressInv'
  <2>1. \A v \in Workers \ {w} : InStep(v)'
    <3>1. \A v \in Workers \ {w} : pc'[v] = "idle"
      BY <1>1, OthersIdle
    <3>. QED
      BY <3>1 DEF InStep, Reading, Ending, Recorded
  <2>2. /\ InStep(w) /\ snap[w].next \in 0 .. NumChunks /\ chunk[w] \in 0 .. NumChunks
        /\ NumChunks \in Nat
    BY ConstantsOK DEF ProgressInv, TypeOK, HandlerTypeOK, Params
  <2>3. InStep(w)'
    <3>1. CASE Begin(w)
      BY <3>1 DEF Begin, Goto, InStep, Reading, Ending, Recorded, TypeOK, HandlerTypeOK
    <3>2. CASE Exhaust(w) \/ OpenMissing(w) \/ CallBack(w) \/ Fail(w) \/ FailStale(w) \/ Crash(w)
      <4>1. pc'[w] = "idle"
        BY <3>2 DEF OpenMissing, CallBack, Fail, FailStale, Crash, Exhaust, LetGo, Goto, TypeOK,
                    HandlerTypeOK
      <4>. QED
        BY <4>1 DEF InStep, Reading, Ending, Recorded
    <3>3. CASE Open(w)
      <4>1. params' = params /\ snap' = snap /\ params = snap[w]
        BY <2>2, <3>3 DEF Open, task, InStep
      <4>2. \/ /\ snap[w].next + 1 \in Chunks /\ pc'[w] = "validate"
               /\ chunk'[w] = snap[w].next + 1
            \/ snap[w].next = NumChunks /\ pc'[w] = "finalize"
        BY <2>2, <3>3, Proceeds DEF Open, FirstChunk
      <4>. QED
        BY <2>2, <4>1, <4>2 DEF InStep, Reading, Ending, Recorded
    <3>4. CASE Validate(w) \/ StatShp(w) \/ WriteRows(w)
      <4>1. /\ params' = params /\ snap' = snap /\ chunk' = chunk /\ pc[w] \in Reading
            /\ pc'[w] \in Reading
        BY <3>4 DEF Validate, StatShp, WriteRows, task, Goto, TypeOK, HandlerTypeOK, Reading
      <4>. QED
        BY <2>2, <4>1 DEF InStep, Reading, Ending, Recorded
    <3>5. CASE SaveState(w)
      <4>1. params'.next = chunk[w] /\ params'.report = snap[w].report /\ snap' = snap
        BY <3>5, SentTypes DEF SaveState, TypeOK
      <4>2. \/ chunk[w] + 1 \in Chunks /\ pc'[w] = "validate" /\ chunk'[w] = chunk[w] + 1
            \/ chunk[w] = NumChunks /\ pc'[w] = "finalize"
        BY <2>2, <3>5, Proceeds DEF SaveState
      <4>. QED
        BY <2>2, <4>1, <4>2 DEF InStep, Reading, Ending, Recorded
    <3>6. CASE FinalizeReuse(w) \/ FinalizeNothing(w) \/ FinalizeCleaned(w) \/ WriteQmd(w)
               \/ ZipFiles(w) \/ Tidy(w)
      <4>1. /\ params' = params /\ snap' = snap /\ pc[w] \in Ending
            /\ pc'[w] \in Ending \ {"record"}
        BY <3>6 DEF FinalizeReuse, FinalizeNothing, FinalizeCleaned, WriteQmd, ZipFiles, Tidy,
                    OutIs, task, local, Goto, TypeOK, HandlerTypeOK, Ending
      <4>. QED
        BY <2>2, <4>1 DEF InStep, Reading, Ending, Recorded
    <3>7. CASE RereadTask(w)
      <4>1. /\ params' = params /\ snap' = snap /\ latest'[w] = params /\ pc[w] = "reread"
            /\ pc'[w] = "record"
        BY <3>7 DEF RereadTask, task, Goto, TypeOK, HandlerTypeOK
      <4>. QED
        BY <2>2, <4>1 DEF InStep, Reading, Ending, Recorded
    <3>8. CASE RecordResult(w)
      <4>1. params'.next = latest[w].next /\ pc[w] = "record" /\ pc'[w] \in Recorded
        BY <3>8, SentTypes DEF RecordResult, Goto, TypeOK, HandlerTypeOK, Recorded
      <4>. QED
        BY <2>2, <4>1 DEF InStep, Reading, Ending, Recorded
    <3>9. CASE Upload(w) \/ Ack(w)
      <4>1. params' = params /\ pc[w] \in Recorded /\ pc'[w] \in Recorded
        BY <3>9 DEF Upload, Ack, task, Goto, TypeOK, HandlerTypeOK, Recorded
      <4>. QED
        BY <2>2, <4>1 DEF InStep, Reading, Ending, Recorded
    <3>. QED
      BY <1>1, <3>1, <3>2, <3>3, <3>4, <3>5, <3>6, <3>7, <3>8, <3>9 DEF StepOf, Work
  <2>. QED
    BY <2>1, <2>3 DEF ProgressInv
<1>2. CASE Release
  BY <1>2 DEF Release, local, ProgressInv, InStep, Reading, Ending, Recorded
<1>3. CASE UNCHANGED vars
  BY <1>3 DEF vars, task, local, ProgressInv, InStep
<1>. QED
  BY <1>1, <1>2, <1>3, OnTimeSteps

\* No worker that is alone at the task sets the checkpoint back.
LEMMA StepCheckpoint ==
  TypeOK /\ ProgressInv /\ [Next]_vars /\ timeouts' = 0 => params'.next >= params.next
<1> SUFFICES ASSUME TypeOK, ProgressInv, [Next]_vars, timeouts' = 0
             PROVE  params'.next >= params.next
  OBVIOUS
<1>0. params.next \in Nat
  BY ConstantsOK DEF TypeOK, TaskTypeOK, Params
<1>1. CASE params' = params
  BY <1>0, <1>1
<1>2. ASSUME NEW w \in Workers, pc[w] = "save", params' = Saved(w)
      PROVE  params'.next >= params.next
  <2>1. params'.next = chunk[w] /\ params.next = chunk[w] - 1 /\ chunk[w] \in Nat
    BY <1>2, SentTypes, ConstantsOK DEF TypeOK, HandlerTypeOK, ProgressInv, InStep, Reading
  <2>. QED
    BY <2>1
<1>3. ASSUME NEW w \in Workers, pc[w] = "record", params' = Result(w)
      PROVE  params'.next >= params.next
  <2>1. params'.next = latest[w].next /\ latest[w] = params
    BY <1>3, SentTypes DEF TypeOK, ProgressInv, InStep
  <2>. QED
    BY <1>0, <2>1
<1>4. ASSUME NEW w \in Workers, StepOf(w) PROVE params'.next >= params.next
  <2>1. \/ params' = params
        \/ pc[w] = "save" /\ params' = Saved(w)
        \/ pc[w] = "record" /\ params' = Result(w)
    BY <1>4 DEF StepOf, Work, Begin, Exhaust, Open, OpenMissing, Validate, StatShp, WriteRows,
          SaveState, FinalizeReuse, FinalizeNothing, FinalizeCleaned, WriteQmd, ZipFiles, Tidy,
          RereadTask, RecordResult, Upload, Ack, CallBack, Fail, FailStale, Crash, GiveUp,
          Requeue, task
  <2>. QED
    BY <1>1, <1>2, <1>3, <2>1
<1>5. CASE Release \/ UNCHANGED vars
  BY <1>1, <1>5 DEF Release, Requeue, vars, task
<1>. QED
  BY <1>4, <1>5, OnTimeSteps

-----------------------------------------------------------------------------
(* VerdictInv: what an attempt counts is there, however little it counts.  *)

\* More errors are no less critical, and no errors are not.
LEMMA CriticalGrows ==
  ASSUME NEW S, NEW T, S \subseteq T, T \subseteq Chunks, Critical(S)
  PROVE  Critical(T) /\ S # {}
<1> DEFINE Minor(X) == {c \in X : file[c] = "minor"}
<1>1. IsFiniteSet(Chunks)
  BY ConstantsOK, FS_Interval DEF Chunks
<1>2. /\ IsFiniteSet(Minor(T)) /\ IsFiniteSet(Minor(S))
      /\ Cardinality(Minor(S)) <= Cardinality(Minor(T))
  <2>1. IsFiniteSet(Minor(T))
    BY <1>1, FS_Subset
  <2>2. Minor(S) \subseteq Minor(T)
    OBVIOUS
  <2>. QED
    BY <2>1, <2>2, FS_Subset
<1>3. /\ Cardinality(Minor(S)) \in Nat /\ Cardinality(Minor(T)) \in Nat /\ MinorLimit \in Nat
      /\ Cardinality({}) = 0
  BY <1>2, FS_CardinalityType, FS_EmptySet, ConstantsOK
<1>4. Critical(S) <=> (\E c \in S : file[c] = "critical") \/ Cardinality(Minor(S)) > MinorLimit
  BY DEF Critical
<1>5. Critical(T) <=> (\E c \in T : file[c] = "critical") \/ Cardinality(Minor(T)) > MinorLimit
  BY DEF Critical
<1>6. S = {} => Minor(S) = {}
  OBVIOUS
<1> HIDE DEF Minor
<1>7. CASE \E c \in S : file[c] = "critical"
  BY <1>5, <1>7
<1>8. CASE Cardinality(Minor(S)) > MinorLimit
  BY <1>2, <1>3, <1>5, <1>6, <1>8
<1>. QED
  BY <1>4, <1>7, <1>8

\* The same errors are as critical as before: the file does not change.
LEMMA SameFile ==
  ASSUME file' = file
  PROVE  /\ Dirty' = Dirty
         /\ \A S : Critical(S)' <=> Critical(S)
         /\ Critical(Dirty)' <=> Critical(Dirty)
<1>1. Dirty' = Dirty
  BY DEF Dirty
<1>2. \A S : Critical(S)' <=> Critical(S)
  BY DEF Critical
<1>3. Critical(Dirty)' <=> Critical(Dirty)
  BY <1>1 DEF Critical
<1>. QED
  BY <1>1, <1>2, <1>3

\* Every step records only verdicts that are justified.
LEMMA StepVerdictInv ==
  TypeOK /\ AloneInv /\ VerdictInv /\ [Next]_vars /\ timeouts' = 0 => VerdictInv'
<1> SUFFICES ASSUME TypeOK, AloneInv, VerdictInv, [Next]_vars, timeouts' = 0 PROVE VerdictInv'
  OBVIOUS
<1> DEFINE Bad == Critical(Dirty)
<1>0. Dirty \subseteq Chunks
  BY DEF Dirty
<1>1. ASSUME NEW w \in Workers, StepOf(w) PROVE VerdictInv'
  <2>1. /\ Only(w) /\ Dirty' = Dirty /\ (Bad' <=> Bad)
        /\ \A v \in Workers \ {w} : pc'[v] = "idle" /\ pc[v] = "idle"
    BY <1>1, StepOfOne, OthersIdle, SameFile
  <2>2. \A v \in Workers \ {w} : Justified(v)'
    <3>1. ASSUME NEW v \in Workers \ {w} PROVE Justified(v)'
      <4>1. /\ Justified(v) /\ found'[v] = found[v] /\ snap'[v] = snap[v]
            /\ latest'[v] = latest[v] /\ pc'[v] = "idle" /\ pc[v] = "idle"
        BY <2>1 DEF VerdictInv, Only
      <4>. QED
        BY <2>1, <4>1 DEF Justified, Recorded
    <3>. QED
      BY <3>1
  <2>3. /\ Justified(w) /\ (params.valid = "invalid" => Bad)
        /\ \A i \in DOMAIN sent : ~ sent[i].valid => Bad
    BY DEF VerdictInv
  <2>4. Critical(found[w]) => Bad
    BY <1>0, <2>3, CriticalGrows DEF Justified
  <2>5. CASE OpenMissing(w) \/ Fail(w) \/ FailStale(w) \/ Crash(w) \/ CallBack(w)
    <3>1. /\ pc'[w] = "idle" /\ found'[w] = {} /\ snap'[w] = Fresh /\ latest'[w] = Fresh
      <4>1. LetGo(w)
        BY <2>5 DEF OpenMissing, Fail, FailStale, Crash, CallBack
      <4>2. pc'[w] = "idle" /\ found'[w] = {}
        BY <4>1 DEF LetGo, Goto, TypeOK, HandlerTypeOK
      <4>3. snap'[w] = Fresh /\ latest'[w] = Fresh
        BY <4>1 DEF LetGo, TypeOK, HandlerTypeOK
      <4>. QED
        BY <4>2, <4>3
    <3>2. Justified(w)'
      BY <3>1 DEF Justified, Recorded, Fresh
    <3>3. params'.valid = "invalid" => Bad
      <4>1. params' = params \/ params' = Saved(w) \/ params' = Result(w)
        BY <2>5 DEF OpenMissing, Fail, FailStale, Crash, CallBack, GiveUp, Requeue, task
      <4>. QED
        BY <2>3, <2>4, <4>1, SentTypes DEF TypeOK, Justified
    <3>4. \A i \in DOMAIN sent' : ~ sent'[i].valid => Bad
      <4>1. CASE sent' = sent
        BY <2>3, <4>1
      <4>2. CASE CallBack(w)
        <5>1. params.valid = "valid" \/ params.valid = "invalid"
          BY <2>3, <4>2 DEF CallBack, Justified, Recorded, TypeOK, TaskTypeOK, Params
        <5>2. sent' = Append(sent, [valid |-> params.valid = "valid", report |-> params.report])
          BY <4>2 DEF CallBack
        <5>3. sent \in Seq([valid : BOOLEAN, report : Nat])
          BY DEF TypeOK, EndsTypeOK
        <5>4. /\ DOMAIN sent' = DOMAIN sent \cup {Len(sent) + 1}
              /\ \A i \in DOMAIN sent : sent'[i] = sent[i]
              /\ sent'[Len(sent) + 1].valid = (params.valid = "valid")
          BY <5>2, <5>3
        <5>. QED
          BY <2>3, <5>1, <5>4
      <4>. QED
        BY <2>5, <4>1, <4>2 DEF OpenMissing, Fail, FailStale, Crash, ends
    <3>. QED
      BY <2>1, <2>2, <3>2, <3>3, <3>4 DEF VerdictInv
  <2>6. CASE SaveState(w) \/ RecordResult(w)
    <3>1. /\ found' = found /\ snap' = snap /\ latest' = latest /\ sent' = sent
      BY <2>6 DEF SaveState, RecordResult, local, ends
    <3>2. CASE SaveState(w)
      <4>1. params'.valid = snap[w].valid
        BY <3>2, SentTypes DEF SaveState, TypeOK
      <4>2. pc'[w] \in {"validate", "finalize"}
        BY <3>2 DEF SaveState, ProceedTo, Goto, TypeOK, HandlerTypeOK
      <4>3. Justified(w)'
        BY <2>1, <2>3, <3>1, <4>2 DEF Justified, Recorded
      <4>. QED
        BY <2>1, <2>2, <2>3, <3>1, <4>1, <4>3 DEF VerdictInv, Justified
    <3>3. CASE RecordResult(w)
      <4>1. params'.valid = (IF Critical(found[w]) THEN "invalid" ELSE "valid")
        BY <3>3, SentTypes DEF RecordResult, TypeOK
      <4>2. pc'[w] \in {"upload", "ack"}
        BY <3>3 DEF RecordResult, Goto, TypeOK, HandlerTypeOK
      <4>3. Justified(w)'
        BY <2>1, <2>3, <3>1, <4>1, <4>2 DEF Justified, Recorded
      <4>. QED
        BY <2>1, <2>2, <2>3, <2>4, <3>1, <4>1, <4>3 DEF VerdictInv
    <3>. QED
      BY <2>6, <3>2, <3>3
  <2>7. CASE Begin(w) \/ Exhaust(w) \/ Open(w) \/ Validate(w) \/ StatShp(w) \/ WriteRows(w)
    <3>1. params' = params /\ sent' = sent /\ latest' = latest
      BY <2>7 DEF Begin, Exhaust, Open, Validate, StatShp, WriteRows, GiveUp, task, local, ends
    <3>2. snap'[w] = snap[w] \/ snap'[w] = params
      BY <2>7 DEF Begin, Exhaust, Open, Validate, StatShp, WriteRows, local, TypeOK, HandlerTypeOK
    <3>3. found'[w] \subseteq Dirty
      BY <2>3, <2>7 DEF Begin, Exhaust, Open, Validate, StatShp, WriteRows, local, TypeOK,
                  HandlerTypeOK, Justified
    <3>4. /\ pc'[w] \notin Recorded
          /\ pc'[w] \in {"idle", "open"} => pc[w] \in {"idle", "open"} /\ found' = found
      BY <2>7 DEF Begin, Exhaust, Open, Validate, StatShp, WriteRows, ProceedTo, Goto, local,
                  TypeOK, HandlerTypeOK, Recorded
    <3>5. Justified(w)'
      BY <2>1, <2>3, <3>1, <3>2, <3>3, <3>4 DEF Justified
    <3>. QED
      BY <2>1, <2>2, <2>3, <3>1, <3>5 DEF VerdictInv
  <2>8. CASE FinalizeReuse(w) \/ FinalizeNothing(w) \/ FinalizeCleaned(w) \/ WriteQmd(w)
             \/ ZipFiles(w) \/ Tidy(w) \/ RereadTask(w)
    <3>1. /\ params' = params /\ sent' = sent /\ found' = found /\ snap' = snap
          /\ pc'[w] \in Ending
          /\ latest'[w] = latest[w] \/ latest'[w] = params
      BY <2>8 DEF FinalizeReuse, FinalizeNothing, FinalizeCleaned, WriteQmd, ZipFiles, Tidy,
                  RereadTask, OutIs, Goto, task, local, ends, TypeOK, HandlerTypeOK, Ending
    <3>2. Justified(w)'
      BY <2>1, <2>3, <3>1 DEF Justified, Recorded, Ending
    <3>. QED
      BY <2>1, <2>2, <2>3, <3>1, <3>2 DEF VerdictInv
  <2>9. CASE Upload(w) \/ Ack(w)
    <3>1. /\ params' = params /\ sent' = sent /\ found' = found /\ snap' = snap
          /\ latest' = latest /\ pc[w] \in Recorded /\ pc'[w] \in Recorded
      BY <2>9 DEF Upload, Ack, Goto, task, local, ends, TypeOK, HandlerTypeOK, Recorded
    <3>2. Justified(w)'
      BY <2>1, <2>3, <3>1 DEF Justified, Recorded
    <3>. QED
      BY <2>1, <2>2, <2>3, <3>1, <3>2 DEF VerdictInv
  <2>. QED
    BY <1>1, <2>5, <2>6, <2>7, <2>8, <2>9 DEF StepOf, Work
<1>2. CASE Release \/ UNCHANGED vars
  <2>1. /\ params' = params /\ sent' = sent /\ found' = found /\ snap' = snap
        /\ latest' = latest /\ pc' = pc /\ Dirty' = Dirty /\ (Bad' <=> Bad)
    BY <1>2, SameFile DEF Release, Requeue, vars, task, local, ends
  <2>. QED
    BY <2>1 DEF VerdictInv, Justified
<1>. QED
  BY <1>1, <1>2, OnTimeSteps

-----------------------------------------------------------------------------
(* ReportInv: the report is whole when it is zipped.                       *)

\* A chunk that is written is shown, with all that were.
LEMMA AddRowsShows ==
  ASSUME TypeOK, file' = file, NEW k, AddRows(k)
  PROVE  /\ \A n : Shown(n) => Shown(n)'
         /\ \A n : n \in Nat /\ n = k /\ Shown(n - 1) => Shown(n)'
<1>1. /\ shp' # NoShp
      /\ \A d \in Chunks :
           shp'[d] = (IF shp = NoShp THEN 0 ELSE shp[d]) + (IF d = k THEN 1 ELSE 0)
  BY AddRowsTypes DEF TypeOK
<1>2. shp # NoShp => \A d \in Chunks : shp[d] \in Nat
  BY DEF TypeOK, FilesTypeOK
<1>3. \A d \in Chunks : (InShp(d) => InShp(d)') /\ (d = k => InShp(d)')
  BY <1>1, <1>2 DEF InShp
<1>4. \A d \in Dirty : d \in Chunks /\ d \in Nat
  BY ConstantsOK DEF Dirty, Chunks
<1>5. Dirty' = Dirty
  BY SameFile
<1>. QED
  BY <1>3, <1>4, <1>5 DEF Shown

\* What is shown stays shown while report.shp does not change.
LEMMA SameShows ==
  ASSUME file' = file, shp' = shp
  PROVE  \A n : Shown(n)' <=> Shown(n)
BY DEF Shown, InShp, Dirty

\* A zip made of a report that shows every invalid chunk shows them, too.
LEMMA ZipComplete ==
  ASSUME TypeOK, NEW w \in Workers, ZipFiles(w), file' = file, ZipsComplete,
         Shown(NumChunks), qmd \subseteq Dirty, Critical(qmd)
  PROVE  ZipsComplete'
<1>1. zips \in Seq(Report) /\ Zip \in Report /\ zips' = Append(zips, Zip)
  BY ZipTypes DEF TypeOK, FilesTypeOK, Report, ZipFiles
<1>2. /\ DOMAIN zips' = DOMAIN zips \cup {Len(zips) + 1}
      /\ \A i \in DOMAIN zips : zips'[i] = zips[i]
      /\ zips'[Len(zips) + 1] = Zip
  BY <1>1
<1>3. \A c \in Dirty : c <= NumChunks
  BY ConstantsOK DEF Dirty, Chunks
<1>4. /\ \A c \in Dirty : Zip.rows[c] > 0
      /\ Zip.counted = qmd
  BY <1>3 DEF Shown, InShp, Zip
<1>5. Dirty' = Dirty /\ \A S : Critical(S)' <=> Critical(S)
  BY SameFile
<1>6. ASSUME NEW i \in DOMAIN zips'
      PROVE  /\ \A c \in Dirty : zips'[i].rows[c] > 0
             /\ zips'[i].counted \subseteq Dirty /\ Critical(zips'[i].counted)
  <2>1. CASE i \in DOMAIN zips
    BY <1>2, <2>1 DEF ZipsComplete
  <2>2. CASE i = Len(zips) + 1
    BY <1>2, <1>4, <2>2
  <2>. QED
    BY <1>2, <1>6, <2>1, <2>2
<1>. QED
  BY <1>5, <1>6 DEF ZipsComplete

\* Every step leaves the report with what was read.
LEMMA StepReportInv ==
  TypeOK /\ AloneInv /\ ProgressInv /\ VerdictInv /\ ReportInv /\ [Next]_vars /\ timeouts' = 0
  => ReportInv'
<1> SUFFICES ASSUME TypeOK, AloneInv, ProgressInv, VerdictInv, ReportInv, [Next]_vars,
                    timeouts' = 0
             PROVE  ReportInv'
  OBVIOUS
<1>0. /\ \A c \in Dirty : c \in Chunks /\ c \in Nat /\ c <= NumChunks
      /\ NumChunks \in Nat
  BY ConstantsOK DEF Dirty, Chunks
<1>1. ASSUME NEW w \in Workers, StepOf(w) PROVE ReportInv'
  <2>1. /\ file' = file /\ Dirty' = Dirty
        /\ \A S : Critical(S)' <=> Critical(S)
    BY <1>1, StepOfOne, SameFile
  <2>2. \A v \in Workers \ {w} : Reports(v)'
    <3>1. \A v \in Workers \ {w} : pc'[v] = "idle"
      BY <1>1, OthersIdle
    <3>. QED
      BY <3>1 DEF Reports
  <2>3. /\ Reports(w) /\ InStep(w) /\ Justified(w) /\ ZipsComplete
        /\ (params.next # NumChunks => Shown(params.next))
        /\ snap[w].next \in 0 .. NumChunks /\ chunk[w] \in 0 .. NumChunks
    BY DEF ReportInv, ProgressInv, VerdictInv, TypeOK, HandlerTypeOK, Params
  <2>4. CASE Begin(w) \/ Exhaust(w) \/ OpenMissing(w) \/ FailStale(w) \/ Crash(w) \/ CallBack(w)
    <3>1. params' = params /\ shp' = shp /\ zips' = zips /\ pc'[w] \in {"idle", "open"}
      BY <2>4 DEF Begin, Exhaust, OpenMissing, FailStale, Crash, CallBack, GiveUp, Requeue, LetGo,
                  Goto, task, storage, TypeOK, HandlerTypeOK
    <3>. QED
      BY <2>1, <2>2, <2>3, <3>1, SameShows DEF ReportInv, Reports, ZipsComplete
  <2>5. CASE Open(w)
    <3>1. params' = params /\ shp' = shp /\ zips' = zips /\ params = snap[w] /\ found[w] = {}
          /\ found' = found
      BY <2>3, <2>5 DEF Open, task, storage, InStep, Justified
    <3>2. \/ /\ snap[w].next + 1 \in Chunks /\ pc'[w] = "validate"
             /\ chunk'[w] = snap[w].next + 1
          \/ snap[w].next = NumChunks /\ pc'[w] = "finalize"
      BY <1>0, <2>3, <2>5, Proceeds DEF Open, FirstChunk
    <3>3. Reports(w)'
      <4>1. CASE pc'[w] = "validate"
        <5>1. snap[w].next # NumChunks
          BY <1>0, <2>3, <3>2, <4>1 DEF Chunks
        <5>2. chunk'[w] - 1 = snap[w].next
          BY <2>3, <3>2, <4>1
        <5>3. Shown(snap[w].next)
          BY <2>3, <3>1, <5>1
        <5>4. \A n : n = snap[w].next => Shown(n)'
          BY <2>1, <3>1, <5>3, SameShows
        <5>. QED
          BY <4>1, <5>2, <5>4 DEF Reports
      <4>2. CASE pc'[w] = "finalize"
        BY <3>1, <4>2 DEF Reports
      <4>. QED
        BY <3>2, <4>1, <4>2
    <3>. QED
      BY <2>1, <2>2, <2>3, <3>1, <3>3, SameShows DEF ReportInv, ZipsComplete
  <2>6. CASE Validate(w) \/ StatShp(w)
    <3>1. params' = params /\ shp' = shp /\ zips' = zips /\ chunk' = chunk
      BY <2>6 DEF Validate, StatShp, task, storage
    <3>2. Shown(chunk[w] - 1)
      BY <2>3, <2>6 DEF Validate, StatShp, Reports
    <3>3. \/ pc'[w] \in {"stat", "write"}
          \/ pc'[w] = "save" /\ chunk[w] \notin Dirty
      BY <2>6 DEF Validate, StatShp, Goto, TypeOK, HandlerTypeOK
    <3>4. chunk[w] \notin Dirty => Shown(chunk[w])
      BY <1>0, <2>3, <3>2 DEF Shown
    <3>5. Reports(w)'
      BY <2>1, <3>1, <3>2, <3>3, <3>4, SameShows DEF Reports
    <3>. QED
      BY <2>1, <2>2, <2>3, <3>1, <3>5, SameShows DEF ReportInv, ZipsComplete
  <2>7. CASE WriteRows(w)
    <3>1. params' = params /\ zips' = zips /\ chunk' = chunk /\ pc'[w] = "save"
          /\ AddRows(chunk[w]) /\ Shown(chunk[w] - 1)
      BY <2>3, <2>7 DEF WriteRows, task, Goto, TypeOK, HandlerTypeOK, Reports
    <3>2. \A n : n = chunk[w] => Shown(n)'
      BY <2>1, <2>3, <3>1, AddRowsShows
    <3>3. Reports(w)'
      BY <3>1, <3>2 DEF Reports
    <3>4. params'.next # NumChunks => Shown(params.next)'
      BY <2>1, <2>3, <3>1, AddRowsShows
    <3>. QED
      BY <2>1, <2>2, <2>3, <3>1, <3>3, <3>4 DEF ReportInv, ZipsComplete
  <2>8. CASE SaveState(w)
    <3>1. /\ shp' = shp /\ zips' = zips /\ params'.next = chunk[w] /\ Shown(chunk[w])
          /\ found' = found
      BY <2>3, <2>8, SentTypes DEF SaveState, storage, TypeOK, Reports
    <3>2. \/ chunk[w] + 1 \in Chunks /\ pc'[w] = "validate" /\ chunk'[w] = chunk[w] + 1
          \/ chunk[w] = NumChunks /\ pc'[w] = "finalize"
      BY <1>0, <2>3, <2>8, Proceeds DEF SaveState
    <3>3. Reports(w)'
      <4>1. CASE pc'[w] = "validate"
        <5>1. chunk'[w] - 1 = chunk[w]
          BY <2>3, <3>2, <4>1
        <5>. QED
          BY <2>1, <3>1, <4>1, <5>1, SameShows DEF Reports
      <4>2. CASE pc'[w] = "finalize"
        BY <2>1, <3>1, <3>2, <4>2, SameShows DEF Reports
      <4>. QED
        BY <3>2, <4>1, <4>2
    <3>. QED
      BY <2>1, <2>2, <2>3, <3>1, <3>3, SameShows DEF ReportInv, ZipsComplete
  <2>9. CASE FinalizeReuse(w) \/ FinalizeNothing(w) \/ RereadTask(w) \/ Upload(w) \/ Ack(w)
    <3>1. /\ params' = params /\ shp' = shp /\ zips' = zips
          /\ pc'[w] \in {"reread", "record", "ack", "callBack"}
      BY <2>9 DEF FinalizeReuse, FinalizeNothing, RereadTask, Upload, Ack, OutIs, Goto, task,
                  storage, TypeOK, HandlerTypeOK
    <3>. QED
      BY <2>1, <2>2, <2>3, <3>1, SameShows DEF ReportInv, Reports, ZipsComplete
  <2>10. CASE FinalizeCleaned(w) \/ Tidy(w)
    <3>1. params' = params /\ zips' = zips /\ pc'[w] = "reread" /\ params.next = NumChunks
      BY <2>3, <2>10 DEF FinalizeCleaned, Tidy, OutIs, Goto, task, TypeOK, HandlerTypeOK, InStep,
                  Ending
    <3>. QED
      BY <2>1, <2>2, <2>3, <3>1 DEF ReportInv, Reports, ZipsComplete
  <2>11. CASE WriteQmd(w)
    <3>1. /\ params' = params /\ shp' = shp /\ zips' = zips /\ pc'[w] = "zip" /\ found' = found
          /\ qmd' = found[w] /\ Critical(found[w]) /\ pc[w] = "finalize"
      BY <2>11 DEF WriteQmd, MustReport, Goto, task, local, TypeOK, HandlerTypeOK
    <3>2. found[w] # {} /\ Shown(NumChunks)
      <4>1. found[w] \subseteq Chunks
        BY DEF TypeOK, HandlerTypeOK
      <4>2. found[w] # {}
        BY <3>1, <4>1, CriticalGrows
      <4>. QED
        BY <2>3, <3>1, <4>2 DEF Reports
    <3>3. Reports(w)'
      BY <2>1, <3>1, <3>2, SameShows DEF Reports
    <3>. QED
      BY <2>1, <2>2, <2>3, <3>1, <3>3, SameShows DEF ReportInv, ZipsComplete
  <2>12. CASE ZipFiles(w)
    <3>1. params' = params /\ shp' = shp /\ pc'[w] = "tidy" /\ pc[w] = "zip"
      BY <2>12 DEF ZipFiles, Goto, task, TypeOK, HandlerTypeOK
    <3>2. Shown(NumChunks) /\ qmd \subseteq Dirty /\ Critical(qmd)
      BY <2>3, <3>1 DEF Reports, Justified
    <3>3. ZipsComplete'
      BY <2>1, <2>3, <2>12, <3>2, ZipComplete
    <3>. QED
      BY <2>1, <2>2, <2>3, <3>1, <3>3, SameShows DEF ReportInv, Reports
  <2>13. CASE RecordResult(w)
    <3>1. /\ shp' = shp /\ zips' = zips /\ pc'[w] \in {"upload", "ack"} /\ pc[w] = "record"
          /\ params'.next = NumChunks
      BY <2>3, <2>13, SentTypes DEF RecordResult, Goto, storage, TypeOK, HandlerTypeOK, InStep,
                  Ending
    <3>. QED
      BY <2>1, <2>2, <2>3, <3>1 DEF ReportInv, Reports, ZipsComplete
  <2>14. CASE Fail(w)
    <3>1. pc'[w] = "idle" /\ zips' = zips
      BY <2>14 DEF Fail, LetGo, Goto, storage, TypeOK, HandlerTypeOK
    <3>2. params'.next # NumChunks => Shown(params'.next) /\ (shp' = shp \/ AddRows(chunk[w]))
      <4>1. CASE params' = params
        BY <2>3, <2>14, <4>1 DEF Fail, storage
      <4>2. CASE pc[w] = "save" /\ params' = Saved(w)
        BY <2>3, <2>14, <4>2, SentTypes DEF Fail, storage, TypeOK, Reports
      <4>3. CASE pc[w] = "record" /\ params' = Result(w)
        BY <2>3, <4>3, SentTypes DEF TypeOK, InStep, Ending
      <4>. QED
        BY <2>14, <4>1, <4>2, <4>3 DEF Fail
    <3>3. params'.next # NumChunks => Shown(params.next)'
      BY <2>1, <3>2, SameShows, AddRowsShows
    <3>. QED
      BY <2>1, <2>2, <2>3, <3>1, <3>3 DEF ReportInv, Reports, ZipsComplete
  <2>. QED
    BY <1>1, <2>4, <2>5, <2>6, <2>7, <2>8, <2>9, <2>10, <2>11, <2>12, <2>13, <2>14
       DEF StepOf, Work
<1>2. CASE Release \/ UNCHANGED vars
  <2>1. /\ params' = params /\ shp' = shp /\ qmd' = qmd /\ zips' = zips /\ found' = found
        /\ chunk' = chunk /\ pc' = pc /\ file' = file
    BY <1>2 DEF Release, Requeue, vars, task, storage, local
  <2>2. Dirty' = Dirty /\ \A S : Critical(S)' <=> Critical(S)
    BY <2>1, SameFile
  <2>3. ASSUME NEW w \in Workers PROVE Reports(w)'
    <3>1. Reports(w)
      BY DEF ReportInv
    <3>. QED
      BY <2>1, <2>2, <3>1, SameShows DEF Reports
  <2>4. ZipsComplete' /\ (params'.next # NumChunks => Shown(params.next)')
    BY <2>1, <2>2, SameShows DEF ReportInv, ZipsComplete
  <2>. QED
    BY <2>3, <2>4 DEF ReportInv
<1>. QED
  BY <1>1, <1>2, OnTimeSteps

-----------------------------------------------------------------------------
(* LinkInv: a report is linked to once it is where it is downloaded from.  *)

\* Only the upload of a report takes it from the disk, and only to S3.
LEMMA FilesStay ==
  ASSUME TypeOK, NEW w \in Workers, StepOf(w), provider' = provider,
         pc[w] = "upload" => provider = "S3"
  PROVE  /\ \A z : AtHome(z) => AtHome(z)'
         /\ \A z : z \in disk \cup Home => z \in disk' \cup Home'
         /\ ~ Upload(w) => disk \subseteq disk'
<1>1. CASE Upload(w)
  BY <1>1 DEF Upload, AtHome, Home
<1>2. CASE ~ Upload(w)
  <2>1. disk \subseteq disk' /\ s3 \subseteq s3'
    BY <1>2 DEF StepOf, Work, Begin, Exhaust, Open, OpenMissing, Validate, StatShp, WriteRows,
          SaveState, FinalizeReuse, FinalizeNothing, FinalizeCleaned, WriteQmd, ZipFiles, Tidy,
          RereadTask, RecordResult, Ack, CallBack, Fail, FailStale, Crash, storage
  <2>. QED
    BY <1>2, <2>1 DEF AtHome, Home
<1>. QED
  BY <1>1, <1>2

\* Only a callback, or the loss of one, is left to do for a task that is completed.
LEMMA CompletedSteps ==
  ASSUME TypeOK, AloneInv, NEW w \in Workers, StepOf(w), status' = "COMPLETED", ~ Ack(w)
  PROVE  status = "COMPLETED" /\ params' = params
<1>1. status = "COMPLETED"
  BY DEF StepOf, Work, Begin, Exhaust, Open, OpenMissing, Validate, StatShp, WriteRows, SaveState,
         FinalizeReuse, FinalizeNothing, FinalizeCleaned, WriteQmd, ZipFiles, Tidy, RereadTask,
         RecordResult, Upload, CallBack, Fail, FailStale, Crash, GiveUp, Requeue, task
<1>2. pc[w] \in {"idle", "callBack"}
  BY <1>1 DEF AloneInv
<1>. QED
  BY <1>1, <1>2 DEF StepOf, Work, Begin, Exhaust, Open, OpenMissing, Validate, StatShp, WriteRows,
         SaveState, FinalizeReuse, FinalizeNothing, FinalizeCleaned, WriteQmd, ZipFiles, Tidy,
         RereadTask, RecordResult, Upload, CallBack, Fail, FailStale, Crash, GiveUp, Requeue, task

\* Every step keeps the report the task names within reach.
LEMMA StepLinkInv ==
  TypeOK /\ AloneInv /\ ProgressInv /\ LinkInv /\ [Next]_vars /\ timeouts' = 0 => LinkInv'
<1> SUFFICES ASSUME TypeOK, AloneInv, ProgressInv, LinkInv, [Next]_vars, timeouts' = 0
             PROVE  LinkInv'
  OBVIOUS
<1>1. ASSUME NEW w \in Workers, StepOf(w) PROVE LinkInv'
  <2>1. provider' = provider
    BY <1>1, StepOfOne
  <2>2. Links(w) /\ InStep(w) /\ (params.report = NoZip \/ params.report \in disk \cup Home)
    BY DEF LinkInv, ProgressInv
  <2>3. /\ \A z : AtHome(z) => AtHome(z)'
        /\ \A z : z \in disk \cup Home => z \in disk' \cup Home'
        /\ ~ Upload(w) => disk \subseteq disk'
    BY <1>1, <2>1, <2>2, FilesStay DEF Links
  <2>4. \A v \in Workers \ {w} : Links(v)'
    <3>1. \A v \in Workers \ {w} : pc'[v] = "idle"
      BY <1>1, OthersIdle
    <3>. QED
      BY <3>1 DEF Links
  <2>5. params'.report = NoZip \/ params'.report \in disk' \cup Home'
    <3>1. CASE params' = params
      BY <2>2, <2>3, <3>1
    <3>2. CASE pc[w] = "save" /\ params' = Saved(w)
      <4>1. params'.report = params.report
        BY <2>2, <3>2, SentTypes DEF TypeOK, InStep, Reading
      <4>. QED
        BY <2>2, <2>3, <4>1
    <3>3. CASE pc[w] = "record" /\ params' = Result(w)
      <4>1. params'.report = (IF out[w] # NoZip THEN out[w] ELSE params.report)
        BY <2>2, <3>3, SentTypes DEF TypeOK, InStep
      <4>. QED
        BY <2>2, <2>3, <3>3, <4>1 DEF Links
    <3>. QED
      BY <1>1, <3>1, <3>2, <3>3 DEF StepOf, Work, Begin, Exhaust, Open, OpenMissing, Validate,
            StatShp, WriteRows, SaveState, FinalizeReuse, FinalizeNothing, FinalizeCleaned,
            WriteQmd, ZipFiles, Tidy, RereadTask, RecordResult, Upload, Ack, CallBack, Fail,
            FailStale, Crash, GiveUp, Requeue, task
  <2>6. status' = "COMPLETED" => AtHome(params.report)'
    <3>1. CASE Ack(w)
      <4>1. AtHome(params.report) /\ params' = params
        BY <2>2, <3>1 DEF Ack, Links
      <4>. QED
        BY <2>3, <4>1
    <3>2. CASE ~ Ack(w)
      BY <1>1, <2>3, <3>2, CompletedSteps DEF LinkInv
    <3>. QED
      BY <3>1, <3>2
  <2>7. Links(w)'
    <3>1. CASE Begin(w) \/ Exhaust(w) \/ OpenMissing(w) \/ FailStale(w) \/ Crash(w) \/ CallBack(w)
               \/ Fail(w) \/ Open(w) \/ Validate(w) \/ StatShp(w) \/ WriteRows(w) \/ SaveState(w)
               \/ WriteQmd(w)
      <4>1. pc'[w] \in {"idle", "open", "validate", "stat", "write", "save", "finalize", "zip"}
        <5>1. CASE Begin(w) \/ Open(w) \/ Validate(w) \/ StatShp(w) \/ WriteRows(w)
                   \/ SaveState(w) \/ WriteQmd(w) \/ Exhaust(w)
          BY <5>1 DEF Begin, Open, Validate, StatShp, WriteRows, SaveState, WriteQmd, Exhaust,
                      ProceedTo, Goto, TypeOK, HandlerTypeOK
        <5>2. CASE OpenMissing(w) \/ FailStale(w) \/ Crash(w) \/ CallBack(w) \/ Fail(w)
          BY <5>2 DEF OpenMissing, FailStale, Crash, CallBack, Fail, LetGo, Goto, TypeOK,
                      HandlerTypeOK
        <5>. QED
          BY <3>1, <5>1, <5>2
      <4>. QED
        BY <4>1 DEF Links
    <3>2. CASE FinalizeReuse(w)
      <4>1. /\ pc'[w] = "reread" /\ out'[w] = snap[w].report /\ snap[w].report # NoZip
            /\ snap[w].report \in disk /\ disk' = disk
        BY <3>2 DEF FinalizeReuse, ReusesZip, OutIs, Goto, storage, TypeOK, HandlerTypeOK
      <4>. QED
        BY <4>1 DEF Links
    <3>3. CASE FinalizeNothing(w) \/ FinalizeCleaned(w)
      <4>1. /\ pc'[w] = "reread" /\ out'[w] = NoZip /\ pc[w] = "finalize" /\ ~ ReusesZip(w)
            /\ params' = params
        BY <3>3 DEF FinalizeNothing, FinalizeCleaned, OutIs, Goto, task, TypeOK, HandlerTypeOK
      <4>2. AtHome(params.report)
        <5>1. params.report = snap[w].report
          BY <2>2, <4>1 DEF InStep, Ending
        <5>2. params.report = NoZip \/ params.report \notin disk
          BY <4>1, <5>1 DEF ReusesZip
        <5>. QED
          BY <2>2, <5>2 DEF AtHome
      <4>3. AtHome(params.report)'
        BY <2>3, <4>1, <4>2
      <4>. QED
        BY <4>1, <4>3 DEF Links
    <3>4. CASE ZipFiles(w)
      <4>1. pc'[w] = "tidy" /\ out'[w] = Len(zips') /\ Len(zips') \in disk'
        BY <3>4 DEF ZipFiles, Goto, TypeOK, HandlerTypeOK
      <4>2. Len(zips') = Len(zips) + 1 /\ Len(zips) \in Nat
        BY <3>4, ZipTypes DEF ZipFiles, TypeOK, FilesTypeOK
      <4>. QED
        BY <4>1, <4>2 DEF Links, NoZip
    <3>5. CASE Tidy(w) \/ RereadTask(w)
      <4>1. /\ pc[w] \in {"tidy", "reread"} /\ pc'[w] \in {"reread", "record"} /\ out' = out
            /\ disk' = disk /\ params' = params
            /\ pc[w] = "tidy" => pc'[w] = "reread"
        BY <3>5 DEF Tidy, RereadTask, Goto, task, storage, local, TypeOK, HandlerTypeOK
      <4>2. out[w] = NoZip => AtHome(params.report)'
        BY <2>2, <2>3, <4>1 DEF Links
      <4>. QED
        BY <2>2, <4>1, <4>2 DEF Links
    <3>6. CASE RecordResult(w)
      <4>1. params'.report = (IF out[w] # NoZip THEN out[w] ELSE params.report)
        BY <2>2, <3>6, SentTypes DEF RecordResult, TypeOK, InStep
      <4>2. /\ out' = out /\ disk' = disk /\ s3' = s3 /\ pc[w] = "record"
            /\ pc'[w] = IF Uploads(w) THEN "upload" ELSE "ack"
        BY <3>6 DEF RecordResult, Goto, storage, local, TypeOK, HandlerTypeOK
      <4>3. provider \in {"FS", "S3"}
        BY DEF TypeOK, TaskTypeOK
      <4>4. CASE Uploads(w)
        BY <2>1, <2>2, <4>1, <4>2, <4>4 DEF Links, Uploads
      <4>5. CASE ~ Uploads(w)
        <5>1. AtHome(params'.report)
          BY <2>2, <4>1, <4>2, <4>3, <4>5 DEF Links, Uploads, AtHome, Home
        <5>2. AtHome(params.report)'
          BY <2>3, <5>1
        <5>. QED
          BY <4>2, <4>5, <5>2 DEF Links
      <4>. QED
        BY <4>4, <4>5
    <3>7. CASE Upload(w)
      <4>1. /\ pc[w] = "upload" /\ pc'[w] = "ack" /\ params' = params
            /\ s3' = s3 \cup {out[w]}
        BY <3>7 DEF Upload, Goto, task, TypeOK, HandlerTypeOK
      <4>2. AtHome(params.report)'
        BY <2>1, <2>2, <4>1 DEF Links, AtHome, Home
      <4>. QED
        BY <4>1, <4>2 DEF Links
    <3>8. CASE Ack(w)
      <4>1. pc'[w] = "callBack" /\ params' = params /\ AtHome(params.report)
        BY <2>2, <3>8 DEF Ack, Goto, TypeOK, HandlerTypeOK, Links
      <4>2. AtHome(params.report)'
        BY <2>3, <4>1
      <4>. QED
        BY <4>1, <4>2 DEF Links
    <3>. QED
      BY <1>1, <3>1, <3>2, <3>3, <3>4, <3>5, <3>6, <3>7, <3>8 DEF StepOf, Work
  <2>. QED
    BY <2>4, <2>5, <2>6, <2>7 DEF LinkInv
<1>2. CASE Release \/ UNCHANGED vars
  <2>1. /\ params' = params /\ disk' = disk /\ s3' = s3 /\ provider' = provider /\ out' = out
        /\ pc' = pc /\ (status' = status \/ status' = "PENDING")
    BY <1>2 DEF Release, Requeue, vars, task, storage, local
  <2>. QED
    BY <2>1 DEF LinkInv, Links, AtHome, Home
<1>. QED
  BY <1>1, <1>2, OnTimeSteps

-----------------------------------------------------------------------------
(* NamedInv: a verdict of invalid is recorded with a report.               *)

\* Without an error nothing is critical.
LEMMA NothingCritical == TypeOK => ~ Critical({})
<1>1. Cardinality({}) = 0
  BY FS_EmptySet
<1>2. {c \in {} : file[c] = "minor"} = {}
  OBVIOUS
<1>. QED
  BY <1>1, <1>2, ConstantsOK DEF Critical

\* An attempt that finds no report.shp, and none to reuse, has counted no error.
LEMMA NoReportNoErrors ==
  ASSUME TypeOK, VerdictInv, ReportInv, NEW w \in Workers, FinalizeNothing(w)
  PROVE  found[w] = {}
<1>1. pc[w] = "finalize" /\ shp = NoShp
  BY DEF FinalizeNothing
<1>2. found[w] # {} => Shown(NumChunks)
  BY <1>1 DEF ReportInv, Reports
<1>3. found[w] \subseteq Dirty
  BY DEF VerdictInv, Justified
<1>4. \A c \in Dirty : c <= NumChunks
  BY ConstantsOK DEF Dirty, Chunks
<1>. QED
  BY <1>1, <1>2, <1>3, <1>4 DEF Shown, InShp

\* No step calls the file invalid without a report to name.
LEMMA StepNamedInv ==
  /\ TypeOK /\ AloneInv /\ ProgressInv /\ VerdictInv /\ ReportInv /\ LinkInv /\ NamedInv
  /\ [Next]_vars /\ timeouts' = 0
  => NamedInv'
<1> SUFFICES ASSUME TypeOK, AloneInv, ProgressInv, VerdictInv, ReportInv, LinkInv, NamedInv,
                    [Next]_vars, timeouts' = 0
             PROVE  NamedInv'
  OBVIOUS
<1>1. ASSUME NEW w \in Workers, StepOf(w) PROVE NamedInv'
  <2>1. file' = file /\ Only(w)
    BY <1>1, StepOfOne
  <2>2. HasReport(w) /\ InStep(w) /\ Links(w) /\ Named(params)
    BY DEF NamedInv, ProgressInv, LinkInv
  <2>3. \A v \in Workers \ {w} : HasReport(v)'
    <3>1. \A v \in Workers \ {w} : pc'[v] = "idle" /\ snap'[v] = snap[v]
      BY <1>1, <2>1, OthersIdle DEF Only
    <3>. QED
      BY <3>1 DEF NamedInv, HasReport, Named
  <2>4. Named(params')
    <3>1. CASE params' = params
      BY <2>2, <3>1
    <3>2. CASE params' = Saved(w)
      <4>1. params'.valid = snap[w].valid /\ params'.report = snap[w].report
        BY <3>2 DEF Saved, TypeOK, HandlerTypeOK, Params
      <4>. QED
        BY <2>2, <4>1 DEF HasReport, Named
    <3>3. CASE pc[w] = "record" /\ params' = Result(w)
      <4>1. /\ params'.report = (IF out[w] # NoZip THEN out[w] ELSE latest[w].report)
            /\ params'.valid = (IF Critical(found[w]) THEN "invalid" ELSE "valid")
        BY <3>3 DEF Result, TypeOK, HandlerTypeOK, Params
      <4>. QED
        BY <2>2, <3>3, <4>1 DEF HasReport, Named
    <3>. QED
      BY <1>1, <3>1, <3>2, <3>3 DEF StepOf, Work, Begin, Exhaust, Open, OpenMissing, Validate,
            StatShp, WriteRows, SaveState, FinalizeReuse, FinalizeNothing, FinalizeCleaned,
            WriteQmd, ZipFiles, Tidy, RereadTask, RecordResult, Upload, Ack, CallBack, Fail,
            FailStale, Crash, GiveUp, Requeue, task
  <2>5. Named(snap'[w])
    <3>1. CASE Begin(w)
      BY <2>2, <3>1 DEF Begin, TypeOK, HandlerTypeOK
    <3>2. CASE OpenMissing(w) \/ CallBack(w) \/ Fail(w) \/ FailStale(w) \/ Crash(w)
      <4>1. snap'[w] = Fresh
        BY <3>2 DEF OpenMissing, CallBack, Fail, FailStale, Crash, LetGo, TypeOK, HandlerTypeOK
      <4>. QED
        BY <4>1 DEF Named, Fresh
    <3>3. CASE snap' = snap
      BY <2>2, <3>3 DEF HasReport
    <3>. QED
      BY <1>1, <3>1, <3>2, <3>3 DEF StepOf, Work, Exhaust, Open, Validate, StatShp, WriteRows,
            SaveState, FinalizeReuse, FinalizeNothing, FinalizeCleaned, WriteQmd, ZipFiles,
            Tidy, RereadTask, RecordResult, Upload, Ack, local
  <2>6. ASSUME pc'[w] \in {"reread", "record"}, Critical(found[w])' PROVE out'[w] # NoZip
    <3>1. Critical(found'[w])
      BY <2>1, <2>6 DEF Critical
    <3>2. CASE FinalizeReuse(w)
      BY <3>2 DEF FinalizeReuse, ReusesZip, OutIs, TypeOK, HandlerTypeOK
    <3>3. CASE FinalizeNothing(w)
      <4>1. found'[w] = {}
        BY <3>3, NoReportNoErrors DEF FinalizeNothing
      <4>. QED
        BY <3>1, <4>1, NothingCritical
    <3>4. CASE FinalizeCleaned(w)
      BY <3>1, <3>4 DEF FinalizeCleaned
    <3>5. CASE Tidy(w)
      BY <2>2, <3>5 DEF Tidy, local, Links
    <3>6. CASE RereadTask(w)
      BY <2>2, <3>1, <3>6 DEF RereadTask, HasReport
    <3>7. ~ (FinalizeReuse(w) \/ FinalizeNothing(w) \/ FinalizeCleaned(w) \/ Tidy(w)
             \/ RereadTask(w)) => pc'[w] \notin {"reread", "record"}
      <4>1. CASE Begin(w) \/ Exhaust(w) \/ Open(w) \/ Validate(w) \/ StatShp(w) \/ WriteRows(w)
                 \/ SaveState(w) \/ WriteQmd(w) \/ ZipFiles(w) \/ RecordResult(w) \/ Upload(w)
                 \/ Ack(w)
        BY <4>1 DEF Begin, Exhaust, Open, Validate, StatShp, WriteRows, SaveState, WriteQmd,
                    ZipFiles, RecordResult, Upload, Ack, ProceedTo, Goto, TypeOK, HandlerTypeOK
      <4>2. CASE OpenMissing(w) \/ CallBack(w) \/ Fail(w) \/ FailStale(w) \/ Crash(w)
        BY <4>2 DEF OpenMissing, CallBack, Fail, FailStale, Crash, LetGo, Goto, TypeOK,
                    HandlerTypeOK
      <4>. QED
        BY <1>1, <4>1, <4>2 DEF StepOf, Work
    <3>. QED
      BY <2>6, <3>2, <3>3, <3>4, <3>5, <3>6, <3>7
  <2>. QED
    BY <2>3, <2>4, <2>5, <2>6 DEF NamedInv, HasReport, Named
<1>2. CASE Release \/ UNCHANGED vars
  <2>1. /\ params' = params /\ snap' = snap /\ pc' = pc /\ found' = found /\ out' = out
        /\ file' = file
    BY <1>2 DEF Release, Requeue, vars, task, local
  <2>. QED
    BY <2>1 DEF NamedInv, HasReport, Named, Critical
<1>. QED
  BY <1>1, <1>2, OnTimeSteps

-----------------------------------------------------------------------------
(* FirstInv: the attempt no other came before sees every chunk.            *)

\* While there was no other attempt, the one at hand counts every error.
LEMMA StepFirstInv ==
  /\ TypeOK /\ AloneInv /\ ProgressInv /\ VerdictInv /\ ReportInv /\ LinkInv /\ FirstInv
  /\ [Next]_vars /\ timeouts' = 0
  => FirstInv'
<1> SUFFICES ASSUME TypeOK, AloneInv, ProgressInv, VerdictInv, ReportInv, LinkInv, FirstInv,
                    [Next]_vars, timeouts' = 0, attempts' = 0
             PROVE  FirstInv'
  BY DEF FirstInv
<1> DEFINE Bad == Critical(Dirty)
<1>a. /\ attempts \in Nat
      /\ \A c \in Dirty : c \in Chunks /\ c \in Nat /\ c >= 1 /\ c <= NumChunks
      /\ NumChunks \in Nat
  BY ConstantsOK DEF Dirty, Chunks, TypeOK, TaskTypeOK
<1>1. ASSUME NEW w \in Workers, StepOf(w) PROVE FirstInv'
  <2>0. attempts = 0
    BY <1>1, <1>a DEF StepOf, Work, Begin, Exhaust, Open, OpenMissing, Validate, StatShp,
          WriteRows, SaveState, FinalizeReuse, FinalizeNothing, FinalizeCleaned, WriteQmd,
          ZipFiles, Tidy, RereadTask, RecordResult, Upload, Ack, CallBack, Fail, FailStale,
          Crash, GiveUp, Requeue, task
  <2>1. file' = file /\ Dirty' = Dirty /\ (Bad' <=> Bad)
    BY <1>1, StepOfOne, SameFile
  <2>2. /\ CountsAll(w) /\ InStep(w) /\ Justified(w) /\ Reports(w) /\ Links(w)
        /\ status = "PENDING" => params = Fresh
        /\ status = "COMPLETED" => Exact
        /\ chunk[w] \in 0 .. NumChunks /\ found[w] \subseteq Chunks
    BY <2>0 DEF FirstInv, ProgressInv, VerdictInv, ReportInv, LinkInv, TypeOK, HandlerTypeOK
  <2>3. \A v \in Workers \ {w} : CountsAll(v)'
    <3>1. \A v \in Workers \ {w} : pc'[v] = "idle"
      BY <1>1, OthersIdle
    <3>. QED
      BY <3>1 DEF CountsAll, Ending, Recorded
  <2>4. status' # "PENDING"
    BY <1>1, <1>a, <2>0 DEF StepOf, Work, Begin, Exhaust, Open, OpenMissing, Validate, StatShp,
          WriteRows, SaveState, FinalizeReuse, FinalizeNothing, FinalizeCleaned, WriteQmd,
          ZipFiles, Tidy, RereadTask, RecordResult, Upload, Ack, CallBack, Fail, FailStale,
          Crash, GiveUp, Requeue, task, AloneInv
  <2>5. status' = "COMPLETED" => Exact'
    <3>1. CASE Ack(w)
      <4>1. Exact /\ params' = params
        BY <2>2, <3>1 DEF Ack, CountsAll, Recorded
      <4>. QED
        BY <2>1, <4>1 DEF Exact
    <3>2. CASE ~ Ack(w)
      BY <1>1, <2>1, <2>2, <3>2, CompletedSteps DEF Exact
    <3>. QED
      BY <3>1, <3>2
  <2>6. CountsAll(w)'
    <3>1. CASE Begin(w)
      <4>1. pc'[w] = "open" /\ snap'[w] = Fresh
        BY <2>2, <3>1 DEF Begin, Goto, TypeOK, HandlerTypeOK
      <4>. QED
        BY <4>1 DEF CountsAll, Ending, Recorded, Fresh
    <3>2. CASE Exhaust(w) \/ OpenMissing(w) \/ CallBack(w) \/ Fail(w) \/ FailStale(w) \/ Crash(w)
      <4>1. pc'[w] = "idle"
        BY <3>2 DEF OpenMissing, CallBack, Fail, FailStale, Crash, Exhaust, LetGo, Goto, TypeOK,
                    HandlerTypeOK
      <4>. QED
        BY <4>1 DEF CountsAll, Ending, Recorded
    <3>3. CASE Open(w)
      <4>1. snap' = snap /\ found' = found /\ snap[w] = Fresh /\ found[w] = {}
        BY <2>2, <3>3 DEF Open, CountsAll, Justified
      <4>2. \/ 1 \in Chunks /\ pc'[w] = "validate" /\ chunk'[w] = 1
            \/ 0 = NumChunks /\ pc'[w] = "finalize"
        BY <1>a, <3>3, <4>1, Proceeds, FreshTypes DEF Open, FirstChunk
      <4>3. {c \in Dirty : c < 1} = {} /\ (0 = NumChunks => Dirty = {})
        BY <1>a
      <4>4. CASE pc'[w] = "validate"
        BY <2>1, <4>1, <4>2, <4>3, <4>4 DEF CountsAll, Ending, Recorded, Fresh
      <4>5. CASE pc'[w] = "finalize"
        BY <2>1, <4>1, <4>2, <4>3, <4>5 DEF CountsAll, Ending, Recorded, Fresh
      <4>. QED
        BY <4>2, <4>4, <4>5
    <3>4. CASE Validate(w)
      <4>1. snap' = snap /\ chunk' = chunk /\ pc[w] = "validate" /\ pc'[w] \in {"stat", "save"}
        BY <3>4 DEF Validate, Goto, TypeOK, HandlerTypeOK
      <4>2. found'[w] = IF chunk[w] \in Dirty THEN found[w] \cup {chunk[w]} ELSE found[w]
        BY <3>4 DEF Validate, TypeOK, HandlerTypeOK
      <4>3. found[w] = {c \in Dirty : c < chunk[w]}
        BY <2>2, <4>1 DEF CountsAll
      <4>4. found'[w] = {c \in Dirty : c <= chunk[w]}
        BY <1>a, <2>2, <4>2, <4>3
      <4>. QED
        BY <2>1, <2>2, <4>1, <4>4 DEF CountsAll, Ending, Recorded, Fresh
    <3>5. CASE StatShp(w) \/ WriteRows(w)
      <4>1. /\ snap' = snap /\ chunk' = chunk /\ found' = found
            /\ pc[w] \in {"stat", "write"} /\ pc'[w] \in {"write", "save"}
        BY <3>5 DEF StatShp, WriteRows, Goto, TypeOK, HandlerTypeOK
      <4>. QED
        BY <2>1, <2>2, <4>1 DEF CountsAll, Ending, Recorded, Fresh
    <3>6. CASE SaveState(w)
      <4>1. snap' = snap /\ found' = found /\ pc[w] = "save"
        BY <3>6 DEF SaveState
      <4>2. \/ chunk[w] + 1 \in Chunks /\ pc'[w] = "validate" /\ chunk'[w] = chunk[w] + 1
            \/ chunk[w] = NumChunks /\ pc'[w] = "finalize"
        BY <1>a, <2>2, <3>6, Proceeds DEF SaveState
      <4>3. found[w] = {c \in Dirty : c <= chunk[w]}
        BY <2>2, <4>1 DEF CountsAll
      <4>4. /\ {c \in Dirty : c <= chunk[w]} = {c \in Dirty : c < chunk[w] + 1}
            /\ chunk[w] = NumChunks => {c \in Dirty : c <= chunk[w]} = Dirty
        BY <1>a, <2>2
      <4>5. CASE pc'[w] = "validate"
        BY <2>1, <2>2, <4>1, <4>2, <4>3, <4>4, <4>5 DEF CountsAll, Ending, Recorded, Fresh
      <4>6. CASE pc'[w] = "finalize"
        BY <2>1, <2>2, <4>1, <4>2, <4>3, <4>4, <4>6 DEF CountsAll, Ending, Recorded, Fresh
      <4>. QED
        BY <4>2, <4>5, <4>6
    <3>7. CASE FinalizeReuse(w)
      BY <2>2, <3>7 DEF FinalizeReuse, ReusesZip, CountsAll, Fresh
    <3>8. CASE FinalizeNothing(w) \/ FinalizeCleaned(w)
      <4>1. /\ snap' = snap /\ found' = found /\ pc[w] = "finalize" /\ pc'[w] = "reread"
            /\ out'[w] = NoZip /\ found[w] = Dirty
        BY <2>2, <3>8 DEF FinalizeNothing, FinalizeCleaned, OutIs, Goto, TypeOK, HandlerTypeOK,
                    CountsAll, Ending
      <4>2. ~ Bad
        <5>1. CASE FinalizeCleaned(w)
          BY <4>1, <5>1 DEF FinalizeCleaned
        <5>2. CASE FinalizeNothing(w)
          <6>1. Dirty = {}
            BY <1>a, <2>2, <4>1, <5>2 DEF FinalizeNothing, Reports, Shown, InShp
          <6>. QED
            BY <6>1, CriticalGrows
        <5>. QED
          BY <3>8, <5>1, <5>2
      <4>. QED
        BY <2>1, <2>2, <4>1, <4>2 DEF CountsAll, Ending, Recorded, Fresh
    <3>9. CASE WriteQmd(w)
      <4>1. /\ snap' = snap /\ found' = found /\ pc[w] = "finalize" /\ pc'[w] = "zip"
            /\ Critical(found[w]) /\ found[w] = Dirty
        BY <2>2, <3>9 DEF WriteQmd, MustReport, Goto, local, TypeOK, HandlerTypeOK, CountsAll,
                    Ending
      <4>. QED
        BY <2>1, <2>2, <4>1 DEF CountsAll, Ending, Recorded, Fresh
    <3>10. CASE ZipFiles(w) \/ Tidy(w) \/ RereadTask(w)
      <4>1. /\ snap' = snap /\ found' = found
            /\ \/ pc[w] = "zip" /\ pc'[w] = "tidy"
               \/ pc[w] = "tidy" /\ pc'[w] = "reread" /\ out' = out
               \/ pc[w] = "reread" /\ pc'[w] = "record" /\ out' = out
        BY <3>10 DEF ZipFiles, Tidy, RereadTask, Goto, local, TypeOK, HandlerTypeOK
      <4>2. pc[w] = "tidy" => out[w] # NoZip
        BY <2>2 DEF Links
      <4>. QED
        BY <2>1, <2>2, <4>1, <4>2 DEF CountsAll, Ending, Recorded, Fresh
    <3>11. CASE RecordResult(w)
      <4>1. /\ snap' = snap /\ found' = found /\ pc[w] = "record" /\ pc'[w] \in {"upload", "ack"}
        BY <3>11 DEF RecordResult, Goto, local, TypeOK, HandlerTypeOK
      <4>2. /\ found[w] = Dirty /\ (out[w] # NoZip <=> Bad) /\ latest[w] = params
            /\ params.report = NoZip
        BY <2>2, <4>1 DEF CountsAll, Ending, InStep, Fresh
      <4>3. /\ params'.valid = (IF Critical(found[w]) THEN "invalid" ELSE "valid")
            /\ params'.report = (IF out[w] # NoZip THEN out[w] ELSE latest[w].report)
        BY <3>11, SentTypes DEF RecordResult, TypeOK
      <4>4. /\ Bad => params'.valid = "invalid" /\ params'.report # NoZip
            /\ ~ Bad => params'.valid = "valid" /\ params'.report = NoZip
        BY <4>2, <4>3
      <4>5. Exact'
        BY <2>1, <4>4 DEF Exact
      <4>. QED
        BY <2>1, <2>2, <4>1, <4>5 DEF CountsAll, Ending, Recorded, Fresh
    <3>12. CASE Upload(w) \/ Ack(w)
      <4>1. /\ snap' = snap /\ params' = params /\ pc[w] \in {"upload", "ack"}
            /\ pc'[w] \in {"ack", "callBack"}
        BY <3>12 DEF Upload, Ack, Goto, task, local, TypeOK, HandlerTypeOK
      <4>2. Exact'
        BY <2>1, <2>2, <4>1 DEF CountsAll, Recorded, Exact
      <4>. QED
        BY <2>2, <4>1, <4>2 DEF CountsAll, Ending, Recorded, Fresh
    <3>. QED
      BY <1>1, <3>1, <3>2, <3>3, <3>4, <3>5, <3>6, <3>7, <3>8, <3>9, <3>10, <3>11, <3>12
         DEF StepOf, Work
  <2>. QED
    BY <2>3, <2>4, <2>5, <2>6 DEF FirstInv
<1>2. CASE Release
  BY <1>2, <1>a DEF Release, Requeue
<1>3. CASE UNCHANGED vars
  BY <1>3 DEF vars, task, local, FirstInv, CountsAll, Exact, Critical, Dirty
<1>. QED
  BY <1>1, <1>2, <1>3, OnTimeSteps

-----------------------------------------------------------------------------
(* The theorems.                                                           *)

TaskInv ==
  /\ TypeOK /\ AloneInv /\ ProgressInv /\ VerdictInv
  /\ ReportInv /\ LinkInv /\ NamedInv /\ FirstInv

\* A new task, and idle workers, are as the invariant says.
LEMMA InitTaskInv == Init => TaskInv
<1> SUFFICES ASSUME Init PROVE TaskInv
  OBVIOUS
<1>1. TypeOK
  BY InitTypeOK
<1>2. /\ status = "PENDING" /\ params = Fresh /\ zips = <<>> /\ sent = <<>>
      /\ \A w \in Workers :
           pc[w] = "idle" /\ snap[w] = Fresh /\ latest[w] = Fresh /\ found[w] = {}
  BY DEF Init
<1>3. /\ Fresh.valid = "unset" /\ Fresh.report = NoZip /\ Fresh.next = 0
      /\ DOMAIN zips = {} /\ DOMAIN sent = {}
      /\ \A c \in Dirty : ~ (c <= 0)
  BY <1>2, ConstantsOK DEF Fresh, Dirty, Chunks
<1>4. AloneInv /\ ProgressInv
  BY <1>2 DEF AloneInv, ProgressInv, InStep, Reading, Ending, Recorded
<1>5. VerdictInv
  BY <1>2, <1>3 DEF VerdictInv, Justified, Recorded
<1>6. ReportInv
  BY <1>2, <1>3 DEF ReportInv, Reports, Shown, ZipsComplete
<1>7. LinkInv
  BY <1>2, <1>3 DEF LinkInv, Links
<1>8. NamedInv
  BY <1>2, <1>3 DEF NamedInv, HasReport, Named
<1>9. FirstInv
  BY <1>2 DEF FirstInv, CountsAll, Ending, Recorded
<1>. QED
  BY <1>1, <1>4, <1>5, <1>6, <1>7, <1>8, <1>9 DEF TaskInv

\* That is so of every behaviour if the job manager never takes a task from a worker that
\* is alive, as in the instances TLC checks these properties on.
LEMMA NoTimeoutsNoneLate ==
  ASSUME MaxTimeouts = 0
  PROVE  Spec => OnTime
<1>1. Init => NoneLate
  BY DEF Init, NoneLate
<1>2. NoneLate /\ [Next]_vars => NoneLate'
  <2> SUFFICES ASSUME NoneLate, [Next]_vars PROVE timeouts' = 0
    BY DEF NoneLate
  <2>1. ~ FalseTimeout
    BY DEF FalseTimeout, NoneLate
  <2>2. ASSUME NEW w \in Workers, StepOf(w) PROVE timeouts' = timeouts
    BY <2>2 DEF StepOf, Work, Begin, Exhaust, Open, OpenMissing, Validate, StatShp, WriteRows,
          SaveState, FinalizeReuse, FinalizeNothing, FinalizeCleaned, WriteQmd, ZipFiles, Tidy,
          RereadTask, RecordResult, Upload, Ack, CallBack, Fail, FailStale, Crash, bounds
  <2>. QED
    BY <2>1, <2>2 DEF Next, StepOf, Release, vars, bounds, NoneLate
<1>. QED
  BY <1>1, <1>2, PTL DEF Spec, OnTime

\* The invariant holds as long as every heartbeat is on time.
LEMMA TaskInvHolds == OnTime => []TaskInv
<1>1. TaskInv /\ [Next]_vars /\ NoneLate' => TaskInv'
  BY StepTypeOK, StepAloneInv, StepProgressInv, StepVerdictInv, StepReportInv, StepLinkInv,
     StepNamedInv, StepFirstInv DEF TaskInv, NoneLate
<1>. QED
  BY <1>1, InitTaskInv, PTL DEF OnTime, Spec

\* A shapefile is never called invalid, to the task or to the callbacks, unless it is: a
\* retry counts fewer errors than there are, and never more (hasCriticalErrors and isValid,
\* ingestionHandler.ts:81, 377).
THEOREM NoAlarmIsFalse == OnTime => []NoFalseAlarm
<1>1. TaskInv => NoFalseAlarm
  BY DEF TaskInv, VerdictInv, NoFalseAlarm
<1>. QED
  BY <1>1, TaskInvHolds, PTL

\* Every zipped report shows every invalid chunk, whichever attempt read it: an attempt
\* makes a report only of errors it found itself, and finds some only if it read the last
\* chunk, after which the rows of all are in the one report.shp (finalize,
\* shapefileReportWriter.ts:102-190).
THEOREM ReportsAreComplete == OnTime => []ReportComplete
<1>1. TaskInv => ReportComplete
  BY DEF TaskInv, ReportInv, ZipsComplete, ReportComplete
<1>. QED
  BY <1>1, TaskInvHolds, PTL

\* The summary zipped with a report calls the file invalid for errors the report shows
\* (writeQmd and createZipFile, shapefileReportWriter.ts:170-193).
THEOREM SummariesAreShown == OnTime => []SummaryShown
<1>1. TaskInv => SummaryShown
  BY DEF TaskInv, ReportInv, ZipsComplete, SummaryShown
<1>. QED
  BY <1>1, TaskInvHolds, PTL

\* A file called invalid comes with a report, whatever zips earlier attempts made and lost:
\* the attempt that counts critical errors has written some itself, so finalize finds a
\* report.shp to zip. The report a completed task links to is where the provider keeps
\* reports: a link is recorded before its upload, and a task whose upload failed is
\* completed only by an attempt that uploads the report again (ingestionHandler.ts:85-103,
\* 348-364).
THEOREM ReportsAreDownloadable == OnTime => []ReportDownloadable
<1>1. TaskInv => ReportDownloadable
  BY DEF TaskInv, LinkInv, NamedInv, Named, ReportDownloadable, AtHome, Home
<1>. QED
  BY <1>1, TaskInvHolds, PTL

\* The first attempt, if it gets to the end, gets the verdict of the file, with a report if
\* that is bad (processJob, ingestionHandler.ts:59-108).
THEOREM FirstAttemptIsExact == OnTime => []FirstAttemptExact
<1>1. TaskInv => FirstAttemptExact
  BY DEF TaskInv, FirstInv, Exact, FirstAttemptExact
<1>. QED
  BY <1>1, TaskInvHolds, PTL

\* The checkpoint of the task is never set back, by a state saved late or a verdict
\* recorded over it (saveState and updateTaskValidationResult, ingestionHandler.ts:194-203,
\* 366-395).
THEOREM CheckpointIsMonotone == OnTime => CheckpointMonotone
<1>1. TaskInv /\ [Next]_vars /\ NoneLate' => params'.next >= params.next
  BY StepCheckpoint DEF TaskInv, NoneLate
<1>. QED
  BY <1>1, TaskInvHolds, PTL DEF OnTime, Spec, CheckpointMonotone

=============================================================================
