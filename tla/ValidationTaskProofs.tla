------------------------ MODULE ValidationTaskProofs ------------------------
(***************************************************************************)
(* What holds of ValidationTask for any number of workers, chunks and      *)
(* attempts, and any number of faults, crashes and false timeouts: several *)
(* workers may be at the task, and write to its files, at the same time.   *)
(***************************************************************************)
EXTENDS ValidationTask, FiniteSetTheorems, TLAPS

Report == [rows : [Chunks -> Nat], counted : SUBSET Chunks]

\* The parameters of a new task, and the rows of an empty report.
LEMMA FreshTypes == Fresh \in Params /\ NoRows \in [Chunks -> Nat] /\ Fresh.next = 0
BY ConstantsOK DEF Fresh, Params, NoRows, NoZip, Chunks

\* The first state has its types.
LEMMA InitTypeOK == Init => TypeOK
<1> SUFFICES ASSUME Init PROVE TypeOK
  OBVIOUS
<1>1. TaskTypeOK
  BY FreshTypes DEF Init, TaskTypeOK
<1>2. FilesTypeOK
  BY DEF Init, FilesTypeOK
<1>3. HandlerTypeOK
  BY FreshTypes, ConstantsOK DEF Init, HandlerTypeOK, NoZip
<1>4. EndsTypeOK
  <2>1. sent \in Seq([valid : BOOLEAN, report : Nat])
    BY DEF Init
  <2>. QED
    BY <2>1 DEF Init, EndsTypeOK
<1>. QED
  BY <1>1, <1>2, <1>3, <1>4 DEF TypeOK

\* Going somewhere, and letting go of the task, keeps the types of the handler.
LEMMA GotoTypes ==
  ASSUME HandlerTypeOK, NEW w \in Workers, NEW point \in Awaits, Goto(w, point)
  PROVE  pc' \in [Workers -> Awaits \cup {"idle"}]
BY DEF HandlerTypeOK, Goto

LEMMA LetGoTypes ==
  ASSUME HandlerTypeOK, NEW w \in Workers, LetGo(w)
  PROVE  HandlerTypeOK'
<1>1. snap' \in [Workers -> Params] /\ latest' \in [Workers -> Params]
  BY FreshTypes DEF HandlerTypeOK, LetGo
<1>2. /\ pc' \in [Workers -> Awaits \cup {"idle"}] /\ chunk' \in [Workers -> 0 .. NumChunks]
      /\ out' \in [Workers -> Nat]
  BY ConstantsOK DEF HandlerTypeOK, LetGo, Goto, NoZip
<1>3. /\ found' \in [Workers -> SUBSET Chunks]
      /\ mode' \in [Workers -> {"none", "create", "append"}]
  BY DEF HandlerTypeOK, LetGo
<1>. QED
  BY <1>1, <1>2, <1>3 DEF HandlerTypeOK

\* Going on with a chunk keeps them, too.
LEMMA ProceedTypes ==
  ASSUME HandlerTypeOK, NEW w \in Workers, NEW c, ProceedTo(w, c),
         UNCHANGED <<snap, found, mode, out, latest>>
  PROVE  HandlerTypeOK'
<1>1. CASE c \in Chunks
  <2>1. c \in 0 .. NumChunks
    BY <1>1, ConstantsOK DEF Chunks
  <2>. QED
    BY <1>1, <2>1 DEF HandlerTypeOK, ProceedTo, Goto, Awaits
<1>2. CASE c \notin Chunks
  BY <1>2 DEF HandlerTypeOK, ProceedTo, Goto, Awaits
<1>. QED
  BY <1>1, <1>2

\* What saveState and updateTaskValidationResult send are parameters.
LEMMA SentTypes ==
  ASSUME HandlerTypeOK, NEW w \in Workers
  PROVE  /\ Saved(w) \in Params /\ Saved(w).next = chunk[w]
         /\ Saved(w).report = snap[w].report /\ Saved(w).valid = snap[w].valid
         /\ Result(w) \in Params /\ Result(w).next = latest[w].next
         /\ Result(w).valid = (IF Critical(found[w]) THEN "invalid" ELSE "valid")
         /\ Result(w).report = (IF out[w] # NoZip THEN out[w] ELSE latest[w].report)
<1>1. snap[w] \in Params /\ latest[w] \in Params /\ chunk[w] \in 0 .. NumChunks
      /\ found[w] \in SUBSET Chunks /\ out[w] \in Nat
  BY DEF HandlerTypeOK
<1>2. /\ Saved(w) \in Params /\ Saved(w).next = chunk[w]
      /\ Saved(w).report = snap[w].report /\ Saved(w).valid = snap[w].valid
  BY <1>1 DEF Saved, Params
<1>. QED
  BY <1>1, <1>2 DEF Result, Params

\* Writing the rows of a chunk adds a row to it and to no other.
LEMMA AddRowsTypes ==
  ASSUME FilesTypeOK, NEW c, AddRows(c)
  PROVE  /\ shp' \in [Chunks -> Nat] /\ shp' # NoShp
         /\ \A d \in Chunks :
              shp'[d] = (IF shp = NoShp THEN 0 ELSE shp[d]) + (IF d = c THEN 1 ELSE 0)
<1> DEFINE before == IF shp = NoShp THEN NoRows ELSE shp
<1>1. before \in [Chunks -> Nat]
  BY FreshTypes DEF FilesTypeOK
<1>2. \A d \in Chunks : before[d] = IF shp = NoShp THEN 0 ELSE shp[d]
  BY DEF NoRows
<1>3. shp' = [before EXCEPT ![c] = before[c] + 1]
  BY DEF AddRows
<1> HIDE DEF before
<1>4. /\ shp' \in [Chunks -> Nat]
      /\ \A d \in Chunks : shp'[d] = before[d] + (IF d = c THEN 1 ELSE 0)
  <2>1. CASE c \in Chunks
    <3>1. shp' \in [Chunks -> Nat]
      BY <1>1, <1>3, <2>1
    <3>2. \A d \in Chunks : shp'[d] = IF d = c THEN before[c] + 1 ELSE before[d]
      BY <1>1, <1>3, <2>1
    <3>. QED
      BY <1>1, <3>1, <3>2
  <2>2. CASE c \notin Chunks
    <3>1. shp' = before
      BY <1>1, <1>3, <2>2
    <3>. QED
      BY <1>1, <2>2, <3>1
  <2>. QED
    BY <2>1, <2>2
<1>5. shp' # NoShp
  BY <1>4, ConstantsOK
<1>. QED
  BY <1>2, <1>4, <1>5

\* CleanUp leaves the files with their types.
LEMMA CleanUpTypes ==
  ASSUME FilesTypeOK, CleanUp, UNCHANGED <<zips, disk, s3>>
  PROVE  FilesTypeOK'
BY DEF FilesTypeOK, CleanUp

\* A new zip is made of the files that are there, and gets the next number.
LEMMA ZipTypes ==
  ASSUME FilesTypeOK
  PROVE  /\ Zip \in Report /\ Len(Append(zips, Zip)) = Len(zips) + 1
         /\ Append(zips, Zip) \in Seq(Report)
         /\ DOMAIN Append(zips, Zip) = DOMAIN zips \cup {Len(zips) + 1}
<1>1. Zip \in Report
  BY FreshTypes DEF FilesTypeOK, Zip, Report
<1>2. zips \in Seq(Report)
  BY DEF FilesTypeOK, Report
<1>. QED
  BY <1>1, <1>2

\* Every step keeps the types.
LEMMA StepTypeOK == TypeOK /\ [Next]_vars => TypeOK'
<1> SUFFICES ASSUME TypeOK, [Next]_vars PROVE TypeOK'
  OBVIOUS
<1>. USE DEF TypeOK
<1>1. ASSUME NEW w \in Workers, Begin(w) PROVE TypeOK'
  <2>1. HandlerTypeOK'
    <3>1. pc' \in [Workers -> Awaits \cup {"idle"}]
      BY <1>1, GotoTypes DEF Begin, Awaits
    <3>. QED
      BY <1>1, <3>1 DEF Begin, HandlerTypeOK, TaskTypeOK
  <2>. QED
    BY <1>1, <2>1 DEF Begin, TaskTypeOK, FilesTypeOK, EndsTypeOK, storage, ends, bounds
<1>2. ASSUME NEW w \in Workers, Exhaust(w) PROVE TypeOK'
  BY <1>2 DEF Exhaust, GiveUp, TaskTypeOK, FilesTypeOK, HandlerTypeOK, EndsTypeOK, storage,
              local, ends, bounds
<1>3. ASSUME NEW w \in Workers, Open(w) PROVE TypeOK'
  <2>1. HandlerTypeOK'
    BY <1>3, ProceedTypes DEF Open
  <2>. QED
    BY <1>3, <2>1 DEF Open, TaskTypeOK, FilesTypeOK, EndsTypeOK, task, storage, ends, bounds
<1>4. ASSUME NEW w \in Workers, OpenMissing(w) PROVE TypeOK'
  <2>1. HandlerTypeOK'
    BY <1>4, LetGoTypes DEF OpenMissing
  <2>. QED
    BY <1>4, <2>1 DEF OpenMissing, GiveUp, TaskTypeOK, FilesTypeOK, EndsTypeOK, storage, ends,
                      bounds
<1>5. ASSUME NEW w \in Workers, Validate(w) PROVE TypeOK'
  <2>1. pc' \in [Workers -> Awaits \cup {"idle"}]
    BY <1>5, GotoTypes DEF Validate, Awaits
  <2>2. found' \in [Workers -> SUBSET Chunks]
    BY <1>5 DEF Validate, HandlerTypeOK, Dirty
  <2>3. HandlerTypeOK'
    BY <1>5, <2>1, <2>2 DEF Validate, HandlerTypeOK
  <2>. QED
    BY <1>5, <2>3 DEF Validate, TaskTypeOK, FilesTypeOK, EndsTypeOK, task, storage, ends, bounds
<1>6. ASSUME NEW w \in Workers, StatShp(w) PROVE TypeOK'
  <2>1. pc' \in [Workers -> Awaits \cup {"idle"}]
    BY <1>6, GotoTypes DEF StatShp, Awaits
  <2>2. HandlerTypeOK'
    BY <1>6, <2>1 DEF StatShp, HandlerTypeOK
  <2>. QED
    BY <1>6, <2>2 DEF StatShp, TaskTypeOK, FilesTypeOK, EndsTypeOK, task, storage, ends, bounds
<1>7. ASSUME NEW w \in Workers, WriteRows(w) PROVE TypeOK'
  <2>1. pc' \in [Workers -> Awaits \cup {"idle"}]
    BY <1>7, GotoTypes DEF WriteRows, Awaits
  <2>2. HandlerTypeOK'
    BY <1>7, <2>1 DEF WriteRows, HandlerTypeOK
  <2>3. FilesTypeOK'
    BY <1>7, AddRowsTypes DEF WriteRows, FilesTypeOK
  <2>. QED
    BY <1>7, <2>2, <2>3 DEF WriteRows, TaskTypeOK, EndsTypeOK, task, ends, bounds
<1>8. ASSUME NEW w \in Workers, SaveState(w) PROVE TypeOK'
  <2>1. HandlerTypeOK'
    BY <1>8, ProceedTypes DEF SaveState
  <2>2. TaskTypeOK'
    BY <1>8, SentTypes DEF SaveState, TaskTypeOK
  <2>. QED
    BY <1>8, <2>1, <2>2 DEF SaveState, FilesTypeOK, EndsTypeOK, storage, ends, bounds
<1>9. ASSUME NEW w \in Workers, FinalizeReuse(w) \/ FinalizeNothing(w) PROVE TypeOK'
  <2>1. pc' \in [Workers -> Awaits \cup {"idle"}]
    BY <1>9, GotoTypes DEF FinalizeReuse, FinalizeNothing, OutIs, Awaits
  <2>2. snap[w].report \in Nat /\ NoZip \in Nat
    BY DEF HandlerTypeOK, Params, NoZip
  <2>3. HandlerTypeOK'
    BY <1>9, <2>1, <2>2 DEF FinalizeReuse, FinalizeNothing, OutIs, HandlerTypeOK
  <2>. QED
    BY <1>9, <2>3 DEF FinalizeReuse, FinalizeNothing, TaskTypeOK, FilesTypeOK, EndsTypeOK, task,
                      storage, ends, bounds
<1>10. ASSUME NEW w \in Workers, FinalizeCleaned(w) PROVE TypeOK'
  <2>1. pc' \in [Workers -> Awaits \cup {"idle"}]
    BY <1>10, GotoTypes DEF FinalizeCleaned, OutIs, Awaits
  <2>2. HandlerTypeOK'
    BY <1>10, <2>1 DEF FinalizeCleaned, OutIs, HandlerTypeOK, NoZip
  <2>3. FilesTypeOK'
    BY <1>10, CleanUpTypes DEF FinalizeCleaned, FilesTypeOK, CleanUp
  <2>. QED
    BY <1>10, <2>2, <2>3 DEF FinalizeCleaned, TaskTypeOK, EndsTypeOK, task, bounds
<1>11. ASSUME NEW w \in Workers, WriteQmd(w) PROVE TypeOK'
  <2>1. pc' \in [Workers -> Awaits \cup {"idle"}]
    BY <1>11, GotoTypes DEF WriteQmd, Awaits
  <2>2. HandlerTypeOK'
    BY <1>11, <2>1 DEF WriteQmd, local, HandlerTypeOK
  <2>3. found[w] \subseteq Chunks
    BY DEF HandlerTypeOK
  <2>. QED
    BY <1>11, <2>2, <2>3 DEF WriteQmd, TaskTypeOK, FilesTypeOK, EndsTypeOK, task, ends, bounds
<1>12. ASSUME NEW w \in Workers, ZipFiles(w) PROVE TypeOK'
  <2>1. pc' \in [Workers -> Awaits \cup {"idle"}]
    BY <1>12, GotoTypes DEF ZipFiles, Awaits
  <2>2. /\ zips' \in Seq(Report) /\ Len(zips') \in Nat
        /\ DOMAIN zips' = DOMAIN zips \cup {Len(zips')}
    BY <1>12, ZipTypes DEF ZipFiles
  <2>3. HandlerTypeOK'
    BY <1>12, <2>1, <2>2 DEF ZipFiles, HandlerTypeOK
  <2>4. FilesTypeOK'
    BY <1>12, <2>2 DEF ZipFiles, FilesTypeOK, Report
  <2>. QED
    BY <1>12, <2>3, <2>4 DEF ZipFiles, TaskTypeOK, EndsTypeOK, task, ends, bounds
<1>13. ASSUME NEW w \in Workers, Tidy(w) PROVE TypeOK'
  <2>1. pc' \in [Workers -> Awaits \cup {"idle"}]
    BY <1>13, GotoTypes DEF Tidy, Awaits
  <2>2. HandlerTypeOK'
    BY <1>13, <2>1 DEF Tidy, local, HandlerTypeOK
  <2>3. FilesTypeOK'
    BY <1>13, CleanUpTypes DEF Tidy, FilesTypeOK, CleanUp
  <2>. QED
    BY <1>13, <2>2, <2>3 DEF Tidy, TaskTypeOK, EndsTypeOK, task, ends, bounds
<1>14. ASSUME NEW w \in Workers, RereadTask(w) PROVE TypeOK'
  <2>1. pc' \in [Workers -> Awaits \cup {"idle"}]
    BY <1>14, GotoTypes DEF RereadTask, Awaits
  <2>2. HandlerTypeOK'
    BY <1>14, <2>1 DEF RereadTask, HandlerTypeOK, TaskTypeOK
  <2>. QED
    BY <1>14, <2>2 DEF RereadTask, TaskTypeOK, FilesTypeOK, EndsTypeOK, task, storage, ends,
                       bounds
<1>15. ASSUME NEW w \in Workers, RecordResult(w) PROVE TypeOK'
  <2>1. pc' \in [Workers -> Awaits \cup {"idle"}]
    BY <1>15, GotoTypes DEF RecordResult, Awaits
  <2>2. HandlerTypeOK'
    BY <1>15, <2>1 DEF RecordResult, local, HandlerTypeOK
  <2>3. TaskTypeOK'
    BY <1>15, SentTypes DEF RecordResult, TaskTypeOK
  <2>. QED
    BY <1>15, <2>2, <2>3 DEF RecordResult, FilesTypeOK, EndsTypeOK, storage, ends, bounds
<1>16. ASSUME NEW w \in Workers, Upload(w) PROVE TypeOK'
  <2>1. pc' \in [Workers -> Awaits \cup {"idle"}]
    BY <1>16, GotoTypes DEF Upload, Awaits
  <2>2. HandlerTypeOK'
    BY <1>16, <2>1 DEF Upload, local, HandlerTypeOK
  <2>3. FilesTypeOK'
    BY <1>16 DEF Upload, FilesTypeOK
  <2>. QED
    BY <1>16, <2>2, <2>3 DEF Upload, TaskTypeOK, EndsTypeOK, task, ends, bounds
<1>17. ASSUME NEW w \in Workers, Ack(w) PROVE TypeOK'
  <2>1. pc' \in [Workers -> Awaits \cup {"idle"}]
    BY <1>17, GotoTypes DEF Ack, Awaits
  <2>2. HandlerTypeOK'
    BY <1>17, <2>1 DEF Ack, local, HandlerTypeOK
  <2>. QED
    BY <1>17, <2>2 DEF Ack, TaskTypeOK, FilesTypeOK, EndsTypeOK, storage, ends, bounds
<1>18. ASSUME NEW w \in Workers, CallBack(w) PROVE TypeOK'
  <2>1. HandlerTypeOK'
    BY <1>18, LetGoTypes DEF CallBack
  <2>2. EndsTypeOK'
    <3>1. params.report \in Nat
      BY DEF TaskTypeOK, Params
    <3>2. sent' \in Seq([valid : BOOLEAN, report : Nat])
      BY <1>18, <3>1 DEF CallBack, EndsTypeOK
    <3>. QED
      BY <1>18, <3>2 DEF CallBack, EndsTypeOK, bounds
  <2>. QED
    BY <1>18, <2>1, <2>2 DEF CallBack, TaskTypeOK, FilesTypeOK, task, storage
<1>19. ASSUME NEW w \in Workers, Fail(w) PROVE TypeOK'
  <2>1. HandlerTypeOK'
    BY <1>19, LetGoTypes DEF Fail
  <2>2. params' \in Params
    BY <1>19, SentTypes DEF Fail, TaskTypeOK
  <2>3. TaskTypeOK'
    BY <1>19, <2>2 DEF Fail, TaskTypeOK
  <2>4. found[w] \subseteq Chunks
    BY DEF HandlerTypeOK
  <2>5. FilesTypeOK'
    BY <1>19, <2>4, AddRowsTypes DEF Fail, FilesTypeOK, storage
  <2>6. EndsTypeOK'
    BY <1>19 DEF Fail, EndsTypeOK, ends
  <2>. QED
    BY <2>1, <2>3, <2>5, <2>6
<1>20. ASSUME NEW w \in Workers, FailStale(w) PROVE TypeOK'
  <2>1. HandlerTypeOK'
    BY <1>20, LetGoTypes DEF FailStale
  <2>. QED
    BY <1>20, <2>1 DEF FailStale, Requeue, TaskTypeOK, FilesTypeOK, EndsTypeOK, storage, ends,
                       bounds
<1>21. ASSUME NEW w \in Workers, Crash(w) PROVE TypeOK'
  <2>1. HandlerTypeOK'
    BY <1>21, LetGoTypes DEF Crash
  <2>. QED
    BY <1>21, <2>1 DEF Crash, TaskTypeOK, FilesTypeOK, EndsTypeOK, task, storage, ends
<1>22. CASE Release \/ FalseTimeout
  <2>1. TaskTypeOK'
    BY <1>22 DEF Release, FalseTimeout, Requeue, TaskTypeOK
  <2>2. FilesTypeOK' /\ HandlerTypeOK' /\ EndsTypeOK'
    BY <1>22 DEF Release, FalseTimeout, FilesTypeOK, HandlerTypeOK, EndsTypeOK, storage, local,
                 ends, bounds
  <2>. QED
    BY <2>1, <2>2
<1>23. CASE UNCHANGED vars
  BY <1>23 DEF vars, task, storage, local, ends, bounds, TaskTypeOK, FilesTypeOK, HandlerTypeOK,
               EndsTypeOK
<1>. QED
  BY <1>1, <1>2, <1>3, <1>4, <1>5, <1>6, <1>7, <1>8, <1>9, <1>10, <1>11, <1>12, <1>13, <1>14,
     <1>15, <1>16, <1>17, <1>18, <1>19, <1>20, <1>21, <1>22, <1>23 DEF Next, Work

\* Every variable of the task, its files and its handlers keeps its type.
THEOREM TaskTypes == Spec => []TypeOK
BY InitTypeOK, StepTypeOK, PTL DEF Spec

-----------------------------------------------------------------------------
(* RowsBounded.  An attempt that is past its dequeue may write each chunk  *)
(* once more, and an attempt is paid for by the requeue that follows it:   *)
(* the rows of a chunk and the attempts that may yet write it are no more  *)
(* than the attempts there were, with the one at hand.  Which worker the   *)
(* job manager holds to be at the task does not matter, so the invariant   *)
(* stands when a task is taken back from a worker that goes on with it.    *)

Rows(c) == IF shp = NoShp THEN 0 ELSE shp[c]

\* The workers whose attempt has the write of a chunk before it.
MayWrite(c) ==
  {w \in Workers :
     \/ pc[w] = "open"
     \/ pc[w] \in {"validate", "stat", "write"} /\ chunk[w] <= c
     \/ pc[w] = "save" /\ chunk[w] < c}

Allowed == attempts + (IF status = "PENDING" THEN 0 ELSE 1)

RowsInv ==
  \A c \in Chunks :
    IsFiniteSet(MayWrite(c)) /\ Rows(c) + Cardinality(MayWrite(c)) <= Allowed

\* What the invariant counts are numbers.
LEMMA RowsNumbers ==
  /\ TypeOK => Allowed \in Nat /\ \A c \in Chunks : Rows(c) \in Nat
  /\ TypeOK' => Allowed' \in Nat /\ \A c \in Chunks : Rows(c)' \in Nat
<1>1. TypeOK => Allowed \in Nat /\ \A c \in Chunks : Rows(c) \in Nat
  BY DEF TypeOK, FilesTypeOK, TaskTypeOK, Rows, Allowed
<1>2. TypeOK' => Allowed' \in Nat /\ \A c \in Chunks : Rows(c)' \in Nat
  BY DEF TypeOK, FilesTypeOK, TaskTypeOK, Rows, Allowed
<1>. QED
  BY <1>1, <1>2

LEMMA RowsTypes ==
  ASSUME TypeOK, RowsInv, NEW c \in Chunks
  PROVE  /\ Rows(c) \in Nat /\ Cardinality(MayWrite(c)) \in Nat /\ Allowed \in Nat
         /\ IsFiniteSet(MayWrite(c)) /\ Rows(c) + Cardinality(MayWrite(c)) <= Allowed
<1>1. IsFiniteSet(MayWrite(c)) /\ Rows(c) + Cardinality(MayWrite(c)) <= Allowed
  BY DEF RowsInv
<1>2. Cardinality(MayWrite(c)) \in Nat
  BY <1>1, FS_CardinalityType
<1>3. Rows(c) \in Nat /\ Allowed \in Nat
  BY RowsNumbers
<1>. QED
  BY <1>1, <1>2, <1>3

\* In the first state nobody has written, and nobody may.
LEMMA InitRowsInv == Init => RowsInv
<1> SUFFICES ASSUME Init, NEW c \in Chunks
             PROVE  IsFiniteSet(MayWrite(c)) /\ Rows(c) + Cardinality(MayWrite(c)) <= Allowed
  BY DEF RowsInv
<1>1. MayWrite(c) = {}
  BY DEF Init, MayWrite
<1>2. Rows(c) = 0 /\ Allowed = 0
  BY DEF Init, Rows, Allowed
<1>. QED
  BY <1>1, <1>2, FS_EmptySet

\* A step after which no more may be written, and that writes nothing.
LEMMA QuietRows ==
  ASSUME TypeOK, TypeOK', RowsInv, Allowed <= Allowed',
         \A c \in Chunks : MayWrite(c)' \subseteq MayWrite(c) /\ Rows(c)' <= Rows(c)
  PROVE  RowsInv'
<1> SUFFICES ASSUME NEW c \in Chunks
             PROVE  IsFiniteSet(MayWrite(c)') /\ Rows(c)' + Cardinality(MayWrite(c)') <= Allowed'
  BY DEF RowsInv
<1>1. /\ Rows(c) \in Nat /\ Cardinality(MayWrite(c)) \in Nat /\ Allowed \in Nat
      /\ IsFiniteSet(MayWrite(c)) /\ Rows(c) + Cardinality(MayWrite(c)) <= Allowed
  BY RowsTypes
<1>2. /\ IsFiniteSet(MayWrite(c)') /\ Cardinality(MayWrite(c)') <= Cardinality(MayWrite(c))
  BY <1>1, FS_Subset
<1>3. Cardinality(MayWrite(c)') \in Nat
  BY <1>2, FS_CardinalityType
<1>4. Rows(c)' \in Nat /\ Allowed' \in Nat
  BY RowsNumbers
<1>. QED
  BY <1>1, <1>2, <1>3, <1>4

\* The attempt that writes a chunk is one of those that may, and is done with it.
LEMMA WriteRowsStep ==
  ASSUME TypeOK, TypeOK', RowsInv, Allowed <= Allowed',
         NEW w \in Workers, pc[w] = "write", AddRows(chunk[w]),
         \A c \in Chunks : MayWrite(c)' \subseteq MayWrite(c),
         \A c \in Chunks : c = chunk[w] => w \notin MayWrite(c)'
  PROVE  RowsInv'
<1> DEFINE k == chunk[w]
<1> SUFFICES ASSUME NEW c \in Chunks
             PROVE  IsFiniteSet(MayWrite(c)') /\ Rows(c)' + Cardinality(MayWrite(c)') <= Allowed'
  BY DEF RowsInv
<1>1. /\ Rows(c) \in Nat /\ Cardinality(MayWrite(c)) \in Nat /\ Allowed \in Nat
      /\ IsFiniteSet(MayWrite(c)) /\ Rows(c) + Cardinality(MayWrite(c)) <= Allowed
  BY RowsTypes
<1>2. Rows(c)' = Rows(c) + (IF c = k THEN 1 ELSE 0)
  BY AddRowsTypes DEF TypeOK, Rows
<1>3. Rows(c)' \in Nat /\ Allowed' \in Nat
  BY RowsNumbers
<1>4. CASE c = k
  <2>1. w \in MayWrite(c)
    BY <1>4 DEF MayWrite, TypeOK, HandlerTypeOK
  <2>2. /\ IsFiniteSet(MayWrite(c) \ {w})
        /\ Cardinality(MayWrite(c) \ {w}) = Cardinality(MayWrite(c)) - 1
    BY <1>1, <2>1, FS_RemoveElement
  <2>3. MayWrite(c)' \subseteq MayWrite(c) \ {w}
    BY <1>4
  <2>4. /\ IsFiniteSet(MayWrite(c)')
        /\ Cardinality(MayWrite(c)') <= Cardinality(MayWrite(c) \ {w})
    BY <2>2, <2>3, FS_Subset
  <2>5. Cardinality(MayWrite(c)') \in Nat
    BY <2>4, FS_CardinalityType
  <2>. QED
    BY <1>1, <1>2, <1>3, <1>4, <2>2, <2>4, <2>5
<1>5. CASE c # k
  <2>1. IsFiniteSet(MayWrite(c)') /\ Cardinality(MayWrite(c)') <= Cardinality(MayWrite(c))
    BY <1>1, FS_Subset
  <2>2. Cardinality(MayWrite(c)') \in Nat
    BY <2>1, FS_CardinalityType
  <2>. QED
    BY <1>1, <1>2, <1>3, <1>5, <2>1, <2>2
<1>. QED
  BY <1>4, <1>5

\* The attempt that begins may write every chunk, and counts as one more.
LEMMA BeginRows ==
  ASSUME TypeOK, TypeOK', RowsInv, NEW w \in Workers, Begin(w)
  PROVE  RowsInv'
<1> SUFFICES ASSUME NEW c \in Chunks
             PROVE  IsFiniteSet(MayWrite(c)') /\ Rows(c)' + Cardinality(MayWrite(c)') <= Allowed'
  BY DEF RowsInv
<1>1. /\ Rows(c) \in Nat /\ Cardinality(MayWrite(c)) \in Nat /\ Allowed \in Nat
      /\ IsFiniteSet(MayWrite(c)) /\ Rows(c) + Cardinality(MayWrite(c)) <= Allowed
  BY RowsTypes
<1>2. Rows(c)' = Rows(c) /\ Allowed' = Allowed + 1
  BY DEF Begin, Rows, Allowed, storage, TypeOK, TaskTypeOK
<1>3. w \notin MayWrite(c) /\ MayWrite(c)' = MayWrite(c) \cup {w}
  BY DEF Begin, Goto, MayWrite, TypeOK, HandlerTypeOK
<1>4. /\ IsFiniteSet(MayWrite(c)')
      /\ Cardinality(MayWrite(c)') = Cardinality(MayWrite(c)) + 1
  BY <1>1, <1>3, FS_AddElement
<1>. QED
  BY <1>1, <1>2, <1>4

\* An attempt that ends may write nothing any more.
LEMMA LetGoRows ==
  ASSUME TypeOK, NEW w \in Workers, LetGo(w), NEW c \in Chunks
  PROVE  MayWrite(c)' \subseteq MayWrite(c) /\ w \notin MayWrite(c)'
BY DEF LetGo, Goto, MayWrite, TypeOK, HandlerTypeOK

\* Every step keeps the account.
LEMMA StepRowsInv == TypeOK /\ TypeOK' /\ RowsInv /\ [Next]_vars => RowsInv'
<1> SUFFICES ASSUME TypeOK, TypeOK', RowsInv, [Next]_vars PROVE RowsInv'
  OBVIOUS
<1>0. /\ attempts \in Nat /\ \A w \in Workers : chunk[w] \in Nat
      /\ \A c \in Chunks : Rows(c) \in Nat
      /\ \A c \in Chunks : c \in Nat
  BY ConstantsOK DEF TypeOK, TaskTypeOK, FilesTypeOK, HandlerTypeOK, Rows, Chunks
<1>1. ASSUME NEW w \in Workers, Begin(w) PROVE RowsInv'
  BY <1>1, BeginRows
<1>2. ASSUME NEW w \in Workers, Exhaust(w) PROVE RowsInv'
  <2>1. \A c \in Chunks : MayWrite(c)' \subseteq MayWrite(c) /\ Rows(c)' <= Rows(c)
    BY <1>0, <1>2 DEF Exhaust, MayWrite, Rows, storage, local
  <2>2. Allowed <= Allowed'
    BY <1>0, <1>2 DEF Exhaust, GiveUp, Allowed
  <2>. QED
    BY <2>1, <2>2, QuietRows
<1>3. ASSUME NEW w \in Workers, Open(w) PROVE RowsInv'
  <2>1. ASSUME NEW c \in Chunks PROVE MayWrite(c)' \subseteq MayWrite(c)
    <3>1. w \in MayWrite(c)
      BY <1>3 DEF Open, MayWrite
    <3>. QED
      BY <1>3, <3>1 DEF Open, ProceedTo, Goto, MayWrite, TypeOK, HandlerTypeOK
  <2>2. \A c \in Chunks : Rows(c)' <= Rows(c)
    BY <1>0, <1>3 DEF Open, Rows, storage
  <2>3. Allowed <= Allowed'
    BY <1>0, <1>3 DEF Open, task, Allowed
  <2>. QED
    BY <2>1, <2>2, <2>3, QuietRows
<1>4. ASSUME NEW w \in Workers, OpenMissing(w) \/ CallBack(w) \/ FailStale(w) \/ Crash(w)
      PROVE  RowsInv'
  <2>1. \A c \in Chunks : MayWrite(c)' \subseteq MayWrite(c)
    BY <1>4, LetGoRows DEF OpenMissing, CallBack, FailStale, Crash
  <2>2. \A c \in Chunks : Rows(c)' <= Rows(c)
    BY <1>0, <1>4 DEF OpenMissing, CallBack, FailStale, Crash, Rows, storage
  <2>3. Allowed <= Allowed'
    BY <1>0, <1>4 DEF OpenMissing, CallBack, FailStale, Crash, GiveUp, Requeue, task, Allowed
  <2>. QED
    BY <2>1, <2>2, <2>3, QuietRows
<1>5. ASSUME NEW w \in Workers, Validate(w) \/ StatShp(w) PROVE RowsInv'
  <2>1. \A c \in Chunks : MayWrite(c)' \subseteq MayWrite(c)
    BY <1>0, <1>5 DEF Validate, StatShp, Goto, MayWrite, TypeOK, HandlerTypeOK
  <2>2. \A c \in Chunks : Rows(c)' <= Rows(c)
    BY <1>0, <1>5 DEF Validate, StatShp, Rows, storage
  <2>3. Allowed <= Allowed'
    BY <1>0, <1>5 DEF Validate, StatShp, task, Allowed
  <2>. QED
    BY <2>1, <2>2, <2>3, QuietRows
<1>6. ASSUME NEW w \in Workers, WriteRows(w) PROVE RowsInv'
  <2>1. \A c \in Chunks : MayWrite(c)' \subseteq MayWrite(c)
    BY <1>0, <1>6 DEF WriteRows, Goto, MayWrite, TypeOK, HandlerTypeOK
  <2>2. \A c \in Chunks : c = chunk[w] => w \notin MayWrite(c)'
    BY <1>0, <1>6 DEF WriteRows, Goto, MayWrite, TypeOK, HandlerTypeOK
  <2>3. Allowed <= Allowed'
    BY <1>0, <1>6 DEF WriteRows, task, Allowed
  <2>. QED
    BY <1>6, <2>1, <2>2, <2>3, WriteRowsStep DEF WriteRows
<1>7. ASSUME NEW w \in Workers, SaveState(w) PROVE RowsInv'
  <2>1. \A c \in Chunks : MayWrite(c)' \subseteq MayWrite(c)
    BY <1>0, <1>7 DEF SaveState, ProceedTo, Goto, MayWrite, TypeOK, HandlerTypeOK
  <2>2. \A c \in Chunks : Rows(c)' <= Rows(c)
    BY <1>0, <1>7 DEF SaveState, Rows, storage
  <2>3. Allowed <= Allowed'
    BY <1>0, <1>7 DEF SaveState, Allowed
  <2>. QED
    BY <2>1, <2>2, <2>3, QuietRows
<1>8. ASSUME NEW w \in Workers,
             \/ FinalizeReuse(w) \/ FinalizeNothing(w) \/ FinalizeCleaned(w) \/ WriteQmd(w)
             \/ ZipFiles(w) \/ Tidy(w) \/ RereadTask(w)
      PROVE  RowsInv'
  <2>1. \A c \in Chunks : MayWrite(c)' \subseteq MayWrite(c)
    BY <1>8 DEF FinalizeReuse, FinalizeNothing, FinalizeCleaned, OutIs, WriteQmd, ZipFiles, Tidy,
                RereadTask, local, Goto, MayWrite, TypeOK, HandlerTypeOK
  <2>2. shp' \in {NoShp, shp} /\ status' = status /\ attempts' = attempts
    BY <1>8 DEF FinalizeReuse, FinalizeNothing, FinalizeCleaned, WriteQmd, ZipFiles, Tidy,
                RereadTask, CleanUp, storage, task
  <2>3. \A c \in Chunks : Rows(c)' <= Rows(c)
    BY <1>0, <2>2 DEF Rows
  <2>4. Allowed <= Allowed'
    BY <1>0, <2>2 DEF Allowed
  <2>. QED
    BY <2>1, <2>3, <2>4, QuietRows
<1>9. ASSUME NEW w \in Workers, RecordResult(w) \/ Upload(w) \/ Ack(w) PROVE RowsInv'
  <2>1. \A c \in Chunks : MayWrite(c)' \subseteq MayWrite(c)
    BY <1>9 DEF RecordResult, Upload, Ack, local, Goto, MayWrite, TypeOK, HandlerTypeOK
  <2>2. \A c \in Chunks : Rows(c)' <= Rows(c)
    BY <1>0, <1>9 DEF RecordResult, Upload, Ack, Rows, storage
  <2>3. Allowed <= Allowed'
    BY <1>0, <1>9 DEF RecordResult, Upload, Ack, task, Allowed
  <2>. QED
    BY <2>1, <2>2, <2>3, QuietRows
<1>10. ASSUME NEW w \in Workers, Fail(w) PROVE RowsInv'
  <2>1. \A c \in Chunks : MayWrite(c)' \subseteq MayWrite(c) /\ w \notin MayWrite(c)'
    BY <1>10, LetGoRows DEF Fail
  <2>2. Allowed <= Allowed'
    BY <1>0, <1>10 DEF Fail, Allowed
  <2>3. CASE pc[w] = "write" /\ AddRows(chunk[w])
    BY <2>1, <2>2, <2>3, WriteRowsStep
  <2>4. CASE shp' = shp
    <3>1. \A c \in Chunks : Rows(c)' <= Rows(c)
      BY <1>0, <2>4 DEF Rows
    <3>. QED
      BY <2>1, <2>2, <3>1, QuietRows
  <2>. QED
    BY <1>10, <2>3, <2>4 DEF Fail, storage
<1>11. CASE Release \/ FalseTimeout
  <2>1. \A c \in Chunks : MayWrite(c)' \subseteq MayWrite(c) /\ Rows(c)' <= Rows(c)
    BY <1>0, <1>11 DEF Release, FalseTimeout, MayWrite, Rows, storage, local
  <2>2. Allowed <= Allowed'
    BY <1>0, <1>11 DEF Release, FalseTimeout, Requeue, Allowed
  <2>. QED
    BY <2>1, <2>2, QuietRows
<1>12. CASE UNCHANGED vars
  <2>1. \A c \in Chunks : MayWrite(c)' \subseteq MayWrite(c) /\ Rows(c)' <= Rows(c)
    BY <1>0, <1>12 DEF vars, MayWrite, Rows, storage, local
  <2>2. Allowed <= Allowed'
    BY <1>0, <1>12 DEF vars, task, Allowed
  <2>. QED
    BY <2>1, <2>2, QuietRows
<1>. QED
  BY <1>1, <1>2, <1>3, <1>4, <1>5, <1>6, <1>7, <1>8, <1>9, <1>10, <1>11, <1>12 DEF Next, Work

\* A chunk is in the report at most once for every attempt at the task, whichever workers
\* are at it at the same time (writeChunk, shapefileReportWriter.ts:60-90).
THEOREM RowsAreBounded == Spec => []RowsBounded
<1>1. TypeOK /\ RowsInv => RowsBounded
  <2> SUFFICES ASSUME TypeOK, RowsInv, shp # NoShp, NEW c \in Chunks
               PROVE  shp[c] <= attempts + 1
    BY DEF RowsBounded
  <2>1. /\ Rows(c) \in Nat /\ Cardinality(MayWrite(c)) \in Nat
        /\ Rows(c) + Cardinality(MayWrite(c)) <= Allowed
    BY RowsTypes
  <2>2. Rows(c) = shp[c] /\ Allowed <= attempts + 1 /\ Allowed \in Nat /\ attempts \in Nat
    BY DEF Rows, Allowed, TypeOK, TaskTypeOK
  <2>. QED
    BY <2>1, <2>2
<1>. QED
  BY <1>1, InitTypeOK, StepTypeOK, InitRowsInv, StepRowsInv, PTL DEF Spec

-----------------------------------------------------------------------------
(* CheckpointCovered.  A checkpoint is copied: into the parameters a       *)
(* worker dequeues, from them or from those read again into the task.  So  *)
(* whatever copy of it there is, and the chunk each worker has got to,     *)
(* covers only chunks with rows; and rows that leave the disk with         *)
(* report.shp are in a zip, as is then every other invalid chunk.          *)

InShp(c) == shp # NoShp /\ shp[c] > 0
InZip(c) == \E i \in DOMAIN zips : zips[i].rows[c] > 0

Covered(n) == \A c \in Dirty : c <= n => RowsOf(c)

\* The last chunk a handler is done with, as far as it wrote all its errors.
Done(w) ==
  IF pc[w] \in {"idle", "open"} THEN 0
  ELSE IF pc[w] \in {"validate", "stat", "write"} THEN chunk[w] - 1
  ELSE IF pc[w] = "save" THEN chunk[w]
  ELSE NumChunks

HandlerCovered(w) ==
  /\ Covered(snap[w].next) /\ Covered(latest[w].next) /\ Covered(Done(w))
  /\ pc[w] = "tidy" => zips # <<>>

Zipped == zips # <<>> => \A c \in Dirty : InZip(c)

CoverInv ==
  ~ cleaned => Covered(params.next) /\ (\A w \in Workers : HandlerCovered(w)) /\ Zipped

\* The step is one of this worker, and touches no other.
Only(w) ==
  \A v \in Workers \ {w} :
    /\ pc'[v] = pc[v] /\ snap'[v] = snap[v] /\ chunk'[v] = chunk[v] /\ found'[v] = found[v]
    /\ out'[v] = out[v] /\ latest'[v] = latest[v]

StepOf(w) == Work(w) \/ Fail(w) \/ FailStale(w) \/ Crash(w)

\* A worker's step touches no other worker, and neither the shapefile nor the configuration.
LEMMA StepOfOne ==
  ASSUME TypeOK, NEW w \in Workers, StepOf(w)
  PROVE  Only(w) /\ file' = file /\ provider' = provider
<1>1. file' = file /\ provider' = provider
  BY DEF StepOf, Work, Begin, Exhaust, Open, OpenMissing, Validate, StatShp, WriteRows, SaveState,
         FinalizeReuse, FinalizeNothing, FinalizeCleaned, WriteQmd, ZipFiles, Tidy, RereadTask,
         RecordResult, Upload, Ack, CallBack, Fail, FailStale, Crash
<1>2. CASE Begin(w) \/ Exhaust(w) \/ Open(w) \/ SaveState(w) \/ Validate(w) \/ StatShp(w)
  BY <1>2 DEF Begin, Exhaust, Open, SaveState, Validate, StatShp, ProceedTo, Goto, local,
              Only, TypeOK, HandlerTypeOK
<1>3. CASE OpenMissing(w) \/ CallBack(w) \/ Fail(w) \/ FailStale(w) \/ Crash(w)
  <2>1. LetGo(w)
    BY <1>3 DEF OpenMissing, CallBack, Fail, FailStale, Crash
  <2>2. \A v \in Workers \ {w} : pc'[v] = pc[v] /\ chunk'[v] = chunk[v] /\ out'[v] = out[v]
    BY <2>1 DEF LetGo, Goto, TypeOK, HandlerTypeOK
  <2>3. \A v \in Workers \ {w} : snap'[v] = snap[v] /\ latest'[v] = latest[v]
    BY <2>1 DEF LetGo, TypeOK, HandlerTypeOK
  <2>4. \A v \in Workers \ {w} : found'[v] = found[v]
    BY <2>1 DEF LetGo, TypeOK, HandlerTypeOK
  <2>. QED
    BY <1>1, <2>2, <2>3, <2>4 DEF Only
<1>4. CASE WriteRows(w) \/ FinalizeReuse(w) \/ FinalizeNothing(w) \/ FinalizeCleaned(w)
  BY <1>4 DEF WriteRows, FinalizeReuse, FinalizeNothing, FinalizeCleaned, OutIs, Goto, Only,
              TypeOK, HandlerTypeOK
<1>5. CASE WriteQmd(w) \/ ZipFiles(w) \/ Tidy(w) \/ RereadTask(w)
  BY <1>5 DEF WriteQmd, ZipFiles, Tidy, RereadTask, Goto, local, Only, TypeOK, HandlerTypeOK
<1>6. CASE RecordResult(w) \/ Upload(w) \/ Ack(w)
  BY <1>6 DEF RecordResult, Upload, Ack, Goto, local, Only, TypeOK, HandlerTypeOK
<1>. QED
  BY <1>1, <1>2, <1>3, <1>4, <1>5, <1>6 DEF StepOf, Work

\* A step that loses no rows of an invalid chunk, and no zip.
Keeps ==
  /\ \A c \in Dirty : (RowsOf(c) => RowsOf(c)') /\ (InZip(c) => InZip(c)')
  /\ zips # <<>> <=> zips' # <<>>

\* What was covered stays covered by a step that loses no rows.
LEMMA CoveredStays ==
  ASSUME file' = file, Keeps, NEW n, Covered(n)
  PROVE  Covered(n)'
BY DEF Keeps, Covered, Dirty

\* A step of one worker that loses no rows: the task and that worker are left to look at.
LEMMA CoverStep ==
  ASSUME TypeOK, CoverInv, ~ cleaned, file' = file, Keeps, NEW w \in Workers, Only(w),
         Covered(params'.next), Covered(snap'[w].next), Covered(latest'[w].next),
         pc'[w] = "tidy" => zips' # <<>>,
         \A n : n = Done(w)' => Covered(n) \/ Covered(n)'
  PROVE  CoverInv'
<1>1. Covered(params.next)'
  BY CoveredStays
<1>2. HandlerCovered(w)'
  BY CoveredStays DEF HandlerCovered
<1>3. ASSUME NEW v \in Workers \ {w} PROVE HandlerCovered(v)'
  <2>1. HandlerCovered(v)
    BY DEF CoverInv
  <2>2. pc'[v] = pc[v] /\ snap'[v] = snap[v] /\ latest'[v] = latest[v] /\ Done(v)' = Done(v)
    BY DEF Only, Done
  <2>. QED
    BY <2>1, <2>2, CoveredStays DEF HandlerCovered, Keeps
<1>4. Zipped'
  BY DEF CoverInv, Zipped, Keeps, Dirty
<1>. QED
  BY <1>1, <1>2, <1>3, <1>4 DEF CoverInv

\* Without a chunk, or without a file or a zip that leaves, nothing is lost.
LEMMA SameFilesKeep ==
  ASSUME file' = file, shp' = shp, zips' = zips
  PROVE  Keeps
BY DEF Keeps, RowsOf, InZip

\* Nor is it by a write, after which the chunk in work has its rows.
LEMMA AddRowsKeeps ==
  ASSUME TypeOK, NEW k, AddRows(k), zips' = zips
  PROVE  Keeps /\ (k \in Chunks => RowsOf(k)')
<1>1. /\ shp' # NoShp
      /\ \A d \in Chunks :
           shp'[d] = (IF shp = NoShp THEN 0 ELSE shp[d]) + (IF d = k THEN 1 ELSE 0)
  BY AddRowsTypes DEF TypeOK
<1>2. shp # NoShp => \A d \in Chunks : shp[d] \in Nat
  BY DEF TypeOK, FilesTypeOK
<1>3. \A d \in Chunks : (InShp(d) => InShp(d)') /\ (d = k => InShp(d)')
  BY <1>1, <1>2 DEF InShp
<1>. QED
  BY <1>3 DEF Keeps, RowsOf, InZip, InShp, Dirty

\* Every append keeps the zips there are, and shows every chunk that has rows on disk.
LEMMA ZipKeeps ==
  ASSUME TypeOK, NEW w \in Workers, ZipFiles(w)
  PROVE  /\ zips' # <<>>
         /\ \A c \in Dirty : (InZip(c) => InZip(c)') /\ (InShp(c) => InZip(c)')
<1>1. zips \in Seq(Report) /\ Zip \in Report /\ zips' = Append(zips, Zip)
  BY ZipTypes DEF TypeOK, FilesTypeOK, Report, ZipFiles
<1>2. /\ \A i \in DOMAIN zips : i \in DOMAIN zips' /\ zips'[i] = zips[i]
      /\ Len(zips) + 1 \in DOMAIN zips' /\ zips'[Len(zips) + 1] = Zip
  BY <1>1
<1>3. ASSUME NEW c \in Dirty, InZip(c) PROVE InZip(c)'
  BY <1>2, <1>3 DEF InZip
<1>4. ASSUME NEW c \in Dirty, InShp(c) PROVE InZip(c)'
  <2>1. Zip.rows[c] > 0
    BY <1>4 DEF InShp, Zip
  <2>. QED
    BY <1>2, <2>1 DEF InZip
<1>5. zips' # <<>>
  BY <1>2
<1>. QED
  BY <1>3, <1>4, <1>5

\* In the first state nothing is done yet.
LEMMA InitCoverInv == Init => CoverInv
<1> SUFFICES ASSUME Init PROVE CoverInv
  OBVIOUS
<1>1. \A c \in Dirty : ~ (c <= 0)
  BY ConstantsOK DEF Dirty, Chunks
<1>2. Covered(0)
  BY <1>1 DEF Covered
<1>. QED
  BY <1>2, FreshTypes DEF Init, CoverInv, HandlerCovered, Done, Zipped

\* Every step keeps what is covered, unless it deletes the report of a good file.
LEMMA StepCoverInv == TypeOK /\ TypeOK' /\ CoverInv /\ [Next]_vars => CoverInv'
<1> SUFFICES ASSUME TypeOK, TypeOK', CoverInv, [Next]_vars, ~ cleaned' PROVE CoverInv'
  BY DEF CoverInv
<1>a. /\ \A c \in Dirty : c \in Chunks /\ c \in Nat /\ c >= 1 /\ c <= NumChunks
      /\ NumChunks \in Nat
  BY ConstantsOK DEF Dirty, Chunks
<1>b. Covered(0) /\ Covered(Fresh.next) /\ \A n \in Nat : Covered(n) => Covered(n - 1)
  BY <1>a, FreshTypes DEF Covered
<1>c. /\ \A w \in Workers : chunk[w] \in 0 .. NumChunks /\ snap[w].next \in 0 .. NumChunks
      /\ \A w \in Workers : pc[w] \in Awaits \cup {"idle"}
  BY DEF TypeOK, HandlerTypeOK, Params
<1>1. ASSUME NEW w \in Workers, StepOf(w) PROVE CoverInv'
  <2>a. Only(w) /\ file' = file
    BY <1>1, StepOfOne
  <2>b. ~ cleaned /\ cleaned' = cleaned
    BY <1>1 DEF StepOf, Work, Begin, Exhaust, Open, OpenMissing, Validate, StatShp, WriteRows,
          SaveState, FinalizeReuse, FinalizeNothing, FinalizeCleaned, WriteQmd, ZipFiles, Tidy,
          RereadTask, RecordResult, Upload, Ack, CallBack, Fail, FailStale, Crash, ends
  <2>c. /\ Covered(params.next) /\ Zipped /\ \A v \in Workers : HandlerCovered(v)
        /\ Covered(snap[w].next) /\ Covered(latest[w].next) /\ Covered(Done(w))
    BY <2>b DEF CoverInv, HandlerCovered
  <2>1. CASE Begin(w)
    <3>1. Keeps /\ params' = params /\ snap'[w] = params /\ latest' = latest /\ pc'[w] = "open"
      BY <1>1, <2>1, <2>a, SameFilesKeep DEF Begin, Goto, storage, TypeOK, HandlerTypeOK
    <3>2. Done(w)' = 0
      BY <3>1 DEF Done
    <3>. QED
      BY <1>b, <2>a, <2>b, <2>c, <3>1, <3>2, CoverStep
  <2>2. CASE Exhaust(w)
    <3>1. /\ Keeps /\ params' = params /\ snap' = snap /\ latest' = latest
          /\ pc'[w] = "idle" /\ Done(w)' = 0
      BY <2>2, <2>a, SameFilesKeep DEF Exhaust, GiveUp, storage, local, Done
    <3>. QED
      BY <1>b, <2>a, <2>b, <2>c, <3>1, CoverStep
  <2>3. CASE Open(w)
    <3>1. Keeps /\ params' = params /\ snap' = snap /\ latest' = latest
      BY <2>3, <2>a, SameFilesKeep DEF Open, storage, task
    <3>2. pc'[w] # "tidy" /\ Done(w)' = snap[w].next
      <4>1. CASE FirstChunk(w) \in Chunks
        BY <1>c, <2>3, <4>1 DEF Open, ProceedTo, Goto, Done, FirstChunk, TypeOK, HandlerTypeOK
      <4>2. CASE FirstChunk(w) \notin Chunks
        <5>1. snap[w].next = NumChunks
          BY <1>a, <1>c, <4>2 DEF FirstChunk, Chunks
        <5>. QED
          BY <2>3, <4>2, <5>1 DEF Open, ProceedTo, Goto, Done, TypeOK, HandlerTypeOK
      <4>. QED
        BY <4>1, <4>2
    <3>. QED
      BY <2>a, <2>b, <2>c, <3>1, <3>2, CoverStep
  <2>4. CASE Validate(w)
    <3>1. Keeps /\ params' = params /\ snap' = snap /\ latest' = latest /\ chunk' = chunk
      BY <2>4, <2>a, SameFilesKeep DEF Validate, storage, task
    <3>2. pc'[w] \in {"stat", "save"} /\ Covered(chunk[w] - 1)
      BY <2>4, <2>c DEF Validate, Goto, Done, TypeOK, HandlerTypeOK
    <3>3. CASE pc'[w] = "stat"
      <4>1. Done(w)' = chunk[w] - 1
        BY <3>1, <3>3 DEF Done
      <4>. QED
        BY <2>a, <2>b, <2>c, <3>1, <3>2, <3>3, <4>1, CoverStep
    <3>4. CASE pc'[w] = "save"
      <4>1. chunk[w] \notin Dirty
        BY <2>4, <3>4 DEF Validate, Goto, TypeOK, HandlerTypeOK
      <4>2. Covered(chunk[w])
        BY <1>a, <1>c, <3>2, <4>1 DEF Covered
      <4>3. Done(w)' = chunk[w]
        BY <3>1, <3>4 DEF Done
      <4>. QED
        BY <2>a, <2>b, <2>c, <3>1, <3>4, <4>2, <4>3, CoverStep
    <3>. QED
      BY <3>2, <3>3, <3>4
  <2>5. CASE StatShp(w)
    <3>1. Keeps /\ params' = params /\ snap' = snap /\ latest' = latest /\ chunk' = chunk
      BY <2>5, <2>a, SameFilesKeep DEF StatShp, storage, task
    <3>2. pc'[w] = "write" /\ Done(w)' = Done(w)
      BY <2>5, <3>1 DEF StatShp, Goto, Done, TypeOK, HandlerTypeOK
    <3>. QED
      BY <2>a, <2>b, <2>c, <3>1, <3>2, CoverStep
  <2>6. CASE WriteRows(w)
    <3>1. params' = params /\ snap' = snap /\ latest' = latest /\ chunk' = chunk /\ zips' = zips
      BY <2>6 DEF WriteRows, task
    <3>2. Keeps /\ (chunk[w] \in Chunks => \A c \in Chunks : c = chunk[w] => RowsOf(c)')
      BY <2>6, <3>1, AddRowsKeeps DEF WriteRows
    <3>3. pc'[w] = "save" /\ Covered(chunk[w] - 1)
      BY <2>6, <2>c DEF WriteRows, Goto, Done, TypeOK, HandlerTypeOK
    <3>4. Done(w)' = chunk[w]
      BY <3>1, <3>3 DEF Done
    <3>5. \A n : n = chunk[w] => Covered(n)'
      BY <1>a, <1>c, <2>a, <3>2, <3>3 DEF Covered, Keeps, Dirty
    <3>. QED
      BY <2>a, <2>b, <2>c, <3>1, <3>2, <3>3, <3>4, <3>5, CoverStep
  <2>7. CASE SaveState(w)
    <3>1. Keeps /\ snap' = snap /\ latest' = latest
      BY <2>7, <2>a, SameFilesKeep DEF SaveState, storage
    <3>2. params'.next = chunk[w] /\ Covered(chunk[w])
      BY <2>7, <2>c, SentTypes DEF SaveState, Done, TypeOK
    <3>3. pc'[w] # "tidy" /\ Done(w)' = chunk[w]
      <4>1. CASE chunk[w] + 1 \in Chunks
        BY <1>c, <2>7, <4>1 DEF SaveState, ProceedTo, Goto, Done, TypeOK, HandlerTypeOK
      <4>2. CASE chunk[w] + 1 \notin Chunks
        <5>1. chunk[w] = NumChunks
          BY <1>a, <1>c, <4>2 DEF Chunks
        <5>. QED
          BY <2>7, <4>2, <5>1 DEF SaveState, ProceedTo, Goto, Done, TypeOK, HandlerTypeOK
      <4>. QED
        BY <4>1, <4>2
    <3>. QED
      BY <2>a, <2>b, <2>c, <3>1, <3>2, <3>3, CoverStep
  <2>8. CASE FinalizeReuse(w) \/ FinalizeNothing(w) \/ WriteQmd(w)
    <3>1. /\ Keeps /\ params' = params /\ snap' = snap /\ latest' = latest
          /\ pc'[w] \in {"reread", "zip"} /\ pc[w] = "finalize"
      BY <2>8, <2>a, SameFilesKeep DEF FinalizeReuse, FinalizeNothing, WriteQmd, OutIs, Goto,
              storage, task, local, TypeOK, HandlerTypeOK
    <3>2. Done(w)' = Done(w)
      BY <3>1 DEF Done
    <3>. QED
      BY <2>a, <2>b, <2>c, <3>1, <3>2, CoverStep
  <2>9. CASE FinalizeCleaned(w)
    BY <2>9, <2>b DEF FinalizeCleaned
  <2>10. CASE ZipFiles(w)
    <3>1. /\ zips' # <<>>
          /\ \A c \in Dirty : (InZip(c) => InZip(c)') /\ (InShp(c) => InZip(c)')
      BY <2>10, ZipKeeps
    <3>2. /\ params' = params /\ snap' = snap /\ latest' = latest /\ pc[w] = "zip"
          /\ pc'[w] = "tidy" /\ shp' = shp
      BY <2>10 DEF ZipFiles, task, Goto, TypeOK, HandlerTypeOK
    <3>3. \A c \in Dirty : InZip(c)'
      BY <1>a, <2>c, <3>1, <3>2 DEF Covered, Done, RowsOf, InZip, InShp
    <3>4. \A c \in Dirty : RowsOf(c)'
      BY <3>3 DEF RowsOf, InZip
    <3>5. \A n : Covered(n)'
      BY <2>a, <3>4 DEF Covered, Dirty
    <3>6. \A v \in Workers : HandlerCovered(v)'
      BY <3>1, <3>5 DEF HandlerCovered
    <3>. QED
      BY <2>a, <3>3, <3>5, <3>6 DEF CoverInv, Zipped, Dirty
  <2>11. CASE Tidy(w)
    <3>1. /\ params' = params /\ snap' = snap /\ latest' = latest /\ pc[w] = "tidy"
          /\ pc'[w] = "reread" /\ zips' = zips
      BY <2>11 DEF Tidy, task, local, Goto, TypeOK, HandlerTypeOK
    <3>2. \A c \in Dirty : InZip(c)
      BY <2>c, <3>1 DEF HandlerCovered, Zipped
    <3>3. Keeps
      BY <3>1, <3>2 DEF Keeps, RowsOf, InZip
    <3>4. Done(w)' = Done(w)
      BY <3>1 DEF Done
    <3>. QED
      BY <2>a, <2>b, <2>c, <3>1, <3>3, <3>4, CoverStep
  <2>12. CASE RereadTask(w)
    <3>1. /\ Keeps /\ params' = params /\ snap' = snap /\ latest'[w] = params
          /\ pc[w] = "reread" /\ pc'[w] = "record"
      BY <2>12, <2>a, SameFilesKeep DEF RereadTask, storage, task, Goto, TypeOK, HandlerTypeOK
    <3>2. Done(w)' = Done(w)
      BY <3>1 DEF Done
    <3>. QED
      BY <2>a, <2>b, <2>c, <3>1, <3>2, CoverStep
  <2>13. CASE RecordResult(w)
    <3>1. /\ Keeps /\ params'.next = latest[w].next /\ snap' = snap /\ latest' = latest
          /\ pc[w] = "record" /\ pc'[w] \in {"upload", "ack"}
      BY <2>13, <2>a, SameFilesKeep, SentTypes DEF RecordResult, storage, local, Goto, TypeOK,
              HandlerTypeOK
    <3>2. Done(w)' = Done(w)
      BY <3>1 DEF Done
    <3>. QED
      BY <2>a, <2>b, <2>c, <3>1, <3>2, CoverStep
  <2>14. CASE Upload(w) \/ Ack(w)
    <3>1. /\ Keeps /\ params' = params /\ snap' = snap /\ latest' = latest
          /\ pc[w] \in {"upload", "ack"} /\ pc'[w] \in {"ack", "callBack"}
      BY <2>14, <2>a, SameFilesKeep DEF Upload, Ack, storage, task, local, Goto, TypeOK,
              HandlerTypeOK
    <3>2. Done(w)' = Done(w)
      BY <3>1 DEF Done
    <3>. QED
      BY <2>a, <2>b, <2>c, <3>1, <3>2, CoverStep
  <2>15. CASE OpenMissing(w) \/ CallBack(w) \/ FailStale(w) \/ Crash(w) \/ Fail(w)
    <3>1. LetGo(w)
      BY <2>15 DEF OpenMissing, CallBack, FailStale, Crash, Fail
    <3>2. pc'[w] = "idle" /\ snap'[w] = Fresh /\ latest'[w] = Fresh
      BY <3>1 DEF LetGo, Goto, TypeOK, HandlerTypeOK
    <3>3. Done(w)' = 0
      BY <3>2 DEF Done
    <3>4. Covered(params'.next)
      <4>1. CASE params' = params
        BY <2>c, <4>1
      <4>2. CASE Fail(w) /\ pc[w] = "save" /\ params' = Saved(w)
        BY <2>c, <4>2, SentTypes DEF Done, TypeOK
      <4>3. CASE Fail(w) /\ pc[w] = "record" /\ params' = Result(w)
        BY <2>c, <4>3, SentTypes DEF TypeOK
      <4>. QED
        BY <2>15, <4>1, <4>2, <4>3 DEF OpenMissing, CallBack, FailStale, Crash, Fail, GiveUp,
              Requeue, task
    <3>5. Keeps
      <4>1. zips' = zips /\ (shp' = shp \/ AddRows(chunk[w]))
        BY <2>15 DEF OpenMissing, CallBack, FailStale, Crash, Fail, storage
      <4>. QED
        BY <2>a, <4>1, SameFilesKeep, AddRowsKeeps
    <3>. QED
      BY <1>b, <2>a, <2>b, <3>2, <3>3, <3>4, <3>5, CoverStep
  <2>. QED
    BY <1>1, <2>1, <2>2, <2>3, <2>4, <2>5, <2>6, <2>7, <2>8, <2>9, <2>10, <2>11, <2>12, <2>13,
       <2>14, <2>15 DEF StepOf, Work
<1>2. CASE Release \/ FalseTimeout \/ UNCHANGED vars
  <2>1. /\ params' = params /\ snap' = snap /\ latest' = latest /\ chunk' = chunk /\ pc' = pc
        /\ shp' = shp /\ zips' = zips /\ file' = file /\ cleaned' = cleaned
    BY <1>2 DEF Release, FalseTimeout, Requeue, vars, task, storage, local, ends
  <2>. QED
    BY <2>1 DEF CoverInv, HandlerCovered, Covered, Done, Zipped, InZip, RowsOf, Dirty
<1>. QED
  BY <1>1, <1>2 DEF Next, StepOf

\* No invalid feature is skipped by a resume: whichever attempts were lost, done twice or
\* taken for dead, the chunks the checkpoint says are done have their rows, unless the
\* report of a good file was deleted (loadState and saveState, ingestionHandler.ts:193-203).
THEOREM CheckpointIsCovered == Spec => []CheckpointCovered
<1>1. TypeOK /\ CoverInv => CheckpointCovered
  <2> SUFFICES ASSUME TypeOK, CoverInv, ~ cleaned, NEW c \in 1 .. params.next, c \in Dirty
               PROVE  RowsOf(c)
    BY DEF CheckpointCovered
  <2>1. params.next \in Nat
    BY DEF TypeOK, TaskTypeOK, Params
  <2>. QED
    BY <2>1 DEF CoverInv, Covered
<1>. QED
  BY <1>1, InitTypeOK, StepTypeOK, InitCoverInv, StepCoverInv, PTL DEF Spec

=============================================================================
