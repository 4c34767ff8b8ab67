---------------------------- MODULE ErrorCollector ----------------------------
(***************************************************************************)
(* What one attempt at a validation task makes of its shapefile: the       *)
(* chunk processor of src/models/ingestion/ingestionHandler.ts and the     *)
(* ValidationErrorCollector it fills.  The file is any short sequence of   *)
(* features, the reader cuts it into chunks as it likes, and polygon parts *)
(* manager answers with the errors of the features it was sent.  There is  *)
(* one action per stretch of code between two awaits.                      *)
(*                                                                         *)
(* ValidationTask takes a chunk as clean, minor or critical and a verdict  *)
(* as a function of the chunks counted; the properties here say that this  *)
(* is what the collector computes.                                         *)
(***************************************************************************)
EXTENDS Integers, Sequences, FiniteSets, Functions, Thresholds

CONSTANTS
  Features,         \* [id, big, bad, codes, over]: see FeaturesOK
  UNKNOWN_ID,       \* the id of the features that have none
  NumFeatures,
  MaxChunk,         \* the most features in a chunk
  GeometriesLimit,  \* smallGeometriesPercentageThreshold, and the one of
  HolesLimit        \* small holes, in hundredths of a percent

\* The count keys of VALIDATION_ERROR_TYPE_FORMATS stand for the error types.
Types == {"vertices", "metadata", "geometryValidity", "resolution", "smallGeometries",
          "smallHoles", "unknown"}

\* A feature is big when the reader skips it for its vertices, and bad when
\* shpFeatureSchema refuses its properties, as it does one without an id; codes
\* are the errors polygon parts manager finds in it, some the service may not
\* know, and over says whether a resolution conflict is beyond its limit.  No feature
\* has the id of the part that Stray stands for.
ASSUME FeaturesOK ==
  \A f \in Features :
    /\ f.big \in BOOLEAN /\ f.bad \in BOOLEAN /\ f.over \in BOOLEAN
    /\ f.codes \in Seq(STRING) /\ f.id # "stray"
    /\ f.id = UNKNOWN_ID => f.bad
    /\ f.big \/ f.bad => f.codes = <<>>

ASSUME LimitsOK ==
  /\ NumFeatures \in Nat \ {0} /\ MaxChunk \in Nat \ {0}
  /\ GeometriesLimit \in Nat /\ HolesLimit \in Nat

VARIABLES
  file,     \* the features of the shapefile, in order
  pos,      \* how many of them the reader has cut into chunks
  cuts,     \* the chunks so far: the positions of their features
  pc,       \* where the chunk processor stands
  col,      \* the collector
  rows,     \* what writeChunk was given, chunk by chunk
  verdict   \* hasCriticalErrors and getErrorsSummary, taken after the last chunk

vars == <<file, pos, cuts, pc, col, rows, verdict>>

NoErrors == [t \in Types |-> 0]

\* The collector when its handler is made, and after clear.
Cleared ==
  [invalid |-> <<>>, total |-> 0, counts |-> NoErrors, geometriesOver |-> FALSE,
   holesOver |-> FALSE, holes |-> 0, resolutionOver |-> FALSE]

Undecided == [critical |-> FALSE, counts |-> NoErrors, resolutionOver |-> FALSE]

Init ==
  /\ file \in [1 .. NumFeatures -> Features]
  /\ pos = 0 /\ cuts = <<>> /\ rows = <<>>
  /\ pc = "stats"
  /\ col = Cleared
  /\ verdict = Undecided

Chunk == cuts[Len(cuts)]

-----------------------------------------------------------------------------
(* The collector's operations.                                             *)

\* An error as the collector is given it: the one numbered nr of a feature or of a
\* part, for the feature with that id, which is the one at that position.
Error(part, nr, id, at, type, over) ==
  [part |-> part, nr |-> nr, id |-> id, at |-> at, type |-> type, over |-> over]

\* The feature of an error in the map of invalid features, or its new entry.
Entry(c, e) ==
  IF e.id \in DOMAIN c.invalid THEN c.invalid[e.id]
  ELSE [id |-> e.id, feature |-> e.at, errors |-> {}]

SetEntry(c, entry) ==
  [id \in DOMAIN c.invalid \cup {entry.id} |-> IF id = entry.id THEN entry ELSE c.invalid[id]]

\* Mutant: a feature that is in the map keeps the error it came with.
FirstErrorOnly(c, e) ==
  [c EXCEPT
     !.counts[e.type] = @ + 1,
     !.resolutionOver = IF e.over THEN TRUE ELSE @,
     !.invalid = IF e.id \in DOMAIN @ THEN @
                 ELSE SetEntry(c, [Entry(c, e) EXCEPT !.errors = {e.type}])]

\* Mutant: an error is counted once for each invalid feature.
CountedOnce(c, e) ==
  [c EXCEPT
     !.counts[e.type] = IF e.id \in DOMAIN c.invalid THEN @ ELSE @ + 1,
     !.resolutionOver = IF e.over THEN TRUE ELSE @,
     !.invalid = SetEntry(c, [Entry(c, e) EXCEPT !.errors = @ \cup {e.type}])]

\* addOrUpdateInvalidFeature: errors go by id, to the feature that came first.
AddError(c, e) ==
  [c EXCEPT
     !.counts[e.type] = @ + 1,
     !.resolutionOver = IF e.over THEN TRUE ELSE @,
     !.invalid = SetEntry(c, [Entry(c, e) EXCEPT !.errors = @ \cup {e.type}])]

Earliest(errors) ==
  CHOOSE e \in errors :
    \A d \in errors : e.part < d.part \/ (e.part = d.part /\ e.nr <= d.nr)

\* The loops over features, parts and the errors of a part, one error at a time:
\* which are left, and what the collector is by then.
Collecting(c, errors) ==
  LET after[n \in 0 .. Cardinality(errors)] ==
        IF n = 0 THEN [left |-> errors, col |-> c]
        ELSE LET e == Earliest(after[n - 1].left)
             IN  [left |-> after[n - 1].left \ {e}, col |-> AddError(after[n - 1].col, e)]
  IN  after

AddErrors(c, errors) == Collecting(c, errors)[Cardinality(errors)].col

\* addMetadataError, of each of these features that the schema refuses.
MetadataErrors(places) ==
  {Error(i, 1, file[i].id, i, "metadata", FALSE) : i \in {j \in places : file[j].bad}}

\* addVerticesError: its catch block comes before its finally block.
VerticesErrors(places) ==
  MetadataErrors(places) \cup
    {Error(i, IF file[i].bad THEN 2 ELSE 1, file[i].id, i, "vertices", FALSE) : i \in places}

Resolved(code) == IF code \in Types THEN code ELSE "unknown"

\* buildFeatureIdMap: of the features with one id, the last.
Bearers(id, places) == {i \in places : file[i].id = id}
FeatureOf(id, places) ==
  CHOOSE i \in Bearers(id, places) : \A j \in Bearers(id, places) : j <= i

\* processPartValidationErrors: a part that is no feature of the chunk is ignored.
PartErrors(parts, places) ==
  UNION {{Error(i, k, parts[i].id, FeatureOf(parts[i].id, places),
                Resolved(parts[i].codes[k]),
                parts[i].codes[k] = "resolution" /\ parts[i].over) :
            k \in DOMAIN parts[i].codes} :
         i \in {j \in DOMAIN parts : Bearers(parts[j].id, places) # {}}}

\* Mutant: the holes of the response for the features with errors.
TrackHoles(c, holes) ==
  [c EXCEPT !.holes = @ + holes,
            !.holesOver = Exceeded(holes, c.total, HolesLimit),
            !.geometriesOver = Exceeded(c.counts["smallGeometries"], c.total, GeometriesLimit)]

\* updateThresholdsTracking
Track(c, holes) ==
  [c EXCEPT !.holes = @ + holes,
            !.holesOver = IF holes > 0
                            THEN Exceeded(c.counts["smallHoles"], c.total, HolesLimit)
                            ELSE @,
            !.geometriesOver = Exceeded(c.counts["smallGeometries"], c.total, GeometriesLimit)]

\* hasCriticalErrors
HasCritical(c) ==
  \/ \E t \in Types \ {"smallGeometries", "smallHoles"} : c.counts[t] > 0
  \/ c.geometriesOver \/ c.holesOver

\* Mutant: the invalid features are kept after they were written.
Kept(c) == c

\* clearInvalidFeatures
WithoutFeatures(c) == [c EXCEPT !.invalid = <<>>]

-----------------------------------------------------------------------------
(* The chunk processor.                                                    *)

\* getShapefileStats and setShapefileStats.
SetStats ==
  /\ pc = "stats" /\ pc' = "read"
  /\ col' = [col EXCEPT !.total = Len(file)]
  /\ UNCHANGED <<file, pos, cuts, rows, verdict>>

\* addVerticesErrors of the skipped features, then the metadata errors of
\* parseChunk, up to the call of polygon parts manager, if there is one.
Skipped(places) == {i \in places : file[i].big}
Refused(places) == {i \in places \ Skipped(places) : file[i].bad}
Sent(places) == places \ (Skipped(places) \cup Refused(places))

ReadChunk ==
  /\ pc = "read" /\ pos < Len(file)
  /\ \E n \in 1 .. MaxChunk :
       LET places == pos + 1 .. pos + n
       IN  /\ pos + n <= Len(file)
           /\ pos' = pos + n
           /\ cuts' = Append(cuts, places)
           /\ col' = AddErrors(AddErrors(col, VerticesErrors(Skipped(places))),
                               MetadataErrors(Refused(places)))
           /\ pc' = IF Sent(places) = {} THEN "write" ELSE "validate"
  /\ UNCHANGED <<file, rows, verdict>>

PartOf(at) == [id |-> file[at].id, codes |-> file[at].codes, over |-> file[at].over]

\* The answer of polygon parts manager: a part for each feature with errors, in
\* their order, and perhaps one that is none of them.
Stray == [id |-> "stray", codes |-> <<"geometryValidity">>, over |-> FALSE]
Faulty(places) == {i \in Sent(places) : file[i].codes # <<>>}
Answers(places) ==
  {[i \in Faulty(places) |-> PartOf(i)],
   [i \in Faulty(places) \cup {NumFeatures + 1} |->
      IF i \in Faulty(places) THEN PartOf(i) ELSE Stray]}

Holed(parts) == {i \in DOMAIN parts : "smallHoles" \in Range(parts[i].codes)}

\* addValidationErrors is given the features refused by parseChunk as well.
ChunkValidated ==
  /\ pc = "validate" /\ pc' = "write"
  /\ \E parts \in Answers(Chunk) :
       col' = IF DOMAIN parts = {} THEN col
              ELSE Track(AddErrors(col, PartErrors(parts, Chunk \ Skipped(Chunk))),
                         Cardinality(Holed(parts)))
  /\ UNCHANGED <<file, pos, cuts, rows, verdict>>

\* getFeaturesWithErrorProperties: a row for each id, a column for each type.
RowsOf(c) == {c.invalid[id] : id \in DOMAIN c.invalid}

ChunkWritten ==
  /\ pc = "write" /\ pc' = "read"
  /\ rows' = Append(rows, RowsOf(col))
  /\ col' = WithoutFeatures(col)
  /\ UNCHANGED <<file, pos, cuts, verdict>>

\* The verdict and the summary of the errors, before the collector is cleared.
Judge ==
  /\ pc = "read" /\ pos = Len(file) /\ pc' = "done"
  /\ verdict' = [critical |-> HasCritical(col), counts |-> col.counts,
                 resolutionOver |-> col.resolutionOver]
  /\ col' = Cleared
  /\ UNCHANGED <<file, pos, cuts, rows>>

Next == SetStats \/ ReadChunk \/ ChunkValidated \/ ChunkWritten \/ Judge

Spec == Init /\ [][Next]_vars

-----------------------------------------------------------------------------
(* Reference definitions: what is wrong with a feature, whatever its chunk. *)

ErrorsOf(f) ==
  IF f.big THEN IF f.bad THEN <<"metadata", "vertices">> ELSE <<"vertices">>
  ELSE IF f.bad THEN <<"metadata">>
  ELSE [k \in DOMAIN f.codes |-> Resolved(f.codes[k])]

\* The errors of type t of the features at these positions.
ErrorsAt(t, places) ==
  UNION {{i} \X {k \in DOMAIN ErrorsOf(file[i]) : ErrorsOf(file[i])[k] = t} : i \in places}

Total(t, n) == Cardinality(ErrorsAt(t, 1 .. n))

-----------------------------------------------------------------------------
(* Properties.                                                             *)

Ids == {f.id : f \in Features}

Rows == [id : Ids, feature : 1 .. NumFeatures, errors : (SUBSET Types) \ {{}}]

TypeOK ==
  /\ file \in [1 .. NumFeatures -> Features]
  /\ pos \in 0 .. NumFeatures
  /\ cuts \in Seq(SUBSET (1 .. NumFeatures))
  /\ pc \in {"stats", "read", "validate", "write", "done"}
  /\ DOMAIN col.invalid \subseteq Ids
  /\ \A id \in DOMAIN col.invalid :
       /\ col.invalid[id] \in Rows
       /\ col.invalid[id].id = id /\ col.invalid[id].feature \in Chunk
  /\ col.total \in Nat /\ col.holes \in Nat /\ col.counts \in [Types -> Nat]
  /\ {col.geometriesOver, col.holesOver, col.resolutionOver} \subseteq BOOLEAN
  /\ Len(rows) <= Len(cuts)
  /\ verdict \in [critical : BOOLEAN, counts : [Types -> Nat], resolutionOver : BOOLEAN]

\* Whenever the state of the task is saved, that is between two chunks, the
\* summary in it counts every error of every feature read so far, once, however
\* the reader cut the file and whatever ids the features share (saveState, l.195).
CountsExact ==
  pc = "read" => \A t \in Types : col.counts[t] = Total(t, pos)

\* The verdict is that of the whole file, whatever the cut: a critical error of
\* any feature, or more small errors than a threshold allows, although the
\* thresholds are only looked at after a chunk with errors (l.81-87, 302-313).
VerdictExact ==
  pc = "done" =>
    /\ verdict.critical <=>
         \/ \E t \in Types \ {"smallGeometries", "smallHoles"} : Total(t, Len(file)) > 0
         \/ Beyond(Total("smallGeometries", Len(file)), Len(file), GeometriesLimit)
         \/ Beyond(Total("smallHoles", Len(file)), Len(file), HolesLimit)
    /\ \A t \in Types : verdict.counts[t] = Total(t, Len(file))
    /\ verdict.resolutionOver <=>
         \E i \in DOMAIN file : file[i].over /\ "resolution" \in Range(file[i].codes)

TypesOf(id, places) ==
  UNION {Range(ErrorsOf(file[i])) : i \in {j \in places : file[j].id = id}}

\* The rows written for a chunk are exactly those of its invalid features: one
\* row for each id that has errors, with a column for each of their types, on a
\* feature of that chunk with that id (l.247-251, 160-162).
RowsFaithful ==
  \A k \in DOMAIN rows :
    /\ \A row \in rows[k] : row.feature \in cuts[k] /\ file[row.feature].id = row.id
    /\ \A id \in {file[i].id : i \in cuts[k]} :
         IF TypesOf(id, cuts[k]) = {}
           THEN ~ \E row \in rows[k] : row.id = id
           ELSE \E feature \in cuts[k] :
                  {row \in rows[k] : row.id = id} =
                    {[id |-> id, feature |-> feature, errors |-> TypesOf(id, cuts[k])]}

\* Once the errors collected are critical they stay so until the verdict: no
\* later chunk brings a percentage back below its threshold.
CriticalSticks ==
  [][HasCritical(col) => HasCritical(col') \/ (pc' = "done" /\ verdict'.critical)]_vars

=============================================================================
