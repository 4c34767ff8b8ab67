--------------------------- MODULE ExportInstance ---------------------------
(***************************************************************************)
(* The replicas of an export instance: the loop of JobProcessor with its   *)
(* metrics and with the handler of src/models/export/exportJobHandler.ts,  *)
(* which asks polygon parts manager for the parts in the region of a task  *)
(* and has ogr2ogr write them over the layer in the task's GeoPackage.     *)
(***************************************************************************)
EXTENDS TaskMetrics

CONSTANTS
  Packages,   \* the tasks whose GeoPackage exists
  Roi,        \* Roi[t][f]: maxResolutionDeg of feature f of the region of t
  Answers     \* Answers[t]: what findPolygonParts may return, sets of parts

ASSUME ExportOK ==
  /\ Packages \subseteq Tasks
  /\ \A t \in Tasks :
       /\ \A f \in DOMAIN Roi[t] : Roi[t][f] \in Nat
       /\ \A parts \in Answers[t] : \A p \in parts : p.resolution \in Nat

VARIABLES
  features,   \* what each worker has ogr2ogr write
  layer       \* the layer of each task's GeoPackage

handler == <<features, layer>>
evars   == <<mvars, handler>>

Marker(m) == {[part |-> m, resolution |-> 0]}
None      == Marker("none")     \* the parts are not there yet; no layer
Broken    == Marker("broken")   \* a layer that was deleted, or written in part

ExportInit ==
  /\ MetricsInit
  /\ features = [w \in Workers |-> None]
  /\ layer    = [t \in Tasks |-> None]

-----------------------------------------------------------------------------
(* processJob.                                                             *)

Coarser(a, b) == IF a > b THEN a ELSE b

\* Every part names the feature of the request it answers.
Matched(t, parts) == \A p \in parts : p.request \in DOMAIN Roi[t]

ManipulateFeatures(t, parts) ==
  {[part |-> p.part, resolution |-> Coarser(p.resolution, Roi[t][p.request])] : p \in parts}

\* Up to the request: nothing that anybody else can see.
Begin(w) == Enter(w) /\ UNCHANGED handler

\* findPolygonParts answered; ogr2ogr is started.
FindParts(w) ==
  /\ pc[w] = "process" /\ features[w] = None
  /\ cur[w] \in Packages
  /\ \E parts \in Answers[cur[w]] :
       /\ Matched(cur[w], parts)
       /\ features' = [features EXCEPT ![w] = ManipulateFeatures(cur[w], parts)]
  /\ UNCHANGED <<mvars, layer>>

WriteLayer(w) ==
  /\ pc[w] = "process" /\ features[w] # None
  /\ Continues(w)
  /\ layer'    = [layer EXCEPT ![cur[w]] = features[w]]
  /\ features' = [features EXCEPT ![w] = None]

\* A write that is cut short leaves the layer untouched, broken or complete.
CutShort(w) ==
  /\ IF features[w] = None
       THEN UNCHANGED layer
       ELSE \E l \in {layer[cur[w]], Broken, features[w]} :
              layer' = [layer EXCEPT ![cur[w]] = l]
  /\ features' = [features EXCEPT ![w] = None]

\* Mutant: the error of ogr2ogr is logged, and not thrown on.
LogsOnly(w) == pc[w] = "process" /\ features[w] # None /\ Continues(w) /\ CutShort(w)

\* There is no package, the request fails, a part matches no feature of it or
\* ogr2ogr fails: whatever it is, the task is rejected as recoverable.
HandlerThrows(w) ==
  /\ pc[w] = "process" /\ Throws(w) /\ err'[w] = "recoverable"
  /\ CutShort(w)

-----------------------------------------------------------------------------

Elsewhere(w) ==
  /\ \/ EnterThrows(w) \/ Returns(w) \/ Outside(w)
     \/ pc[w] # "process" /\ (Continues(w) \/ Throws(w))
  /\ UNCHANGED handler

Dies(w) == Ends(w) /\ CutShort(w)

ExportNext ==
  \/ \E w \in Workers :
       \/ Begin(w) \/ FindParts(w) \/ WriteLayer(w) \/ HandlerThrows(w)
       \/ Elsewhere(w) \/ Dies(w)
  \/ TakeBack /\ UNCHANGED handler

ExportSpec == ExportInit /\ [][ExportNext]_evars

-----------------------------------------------------------------------------
(* Properties.                                                             *)

\* Each part of the answer is in the layer, at a resolution that is neither
\* finer than its own nor than the requested one, and is one of the two; and
\* nothing else is.
IsExact(t, parts, l) ==
  /\ {f.part : f \in l} = {p.part : p \in parts}
  /\ \A f \in l : \E p \in parts :
       /\ f.part = p.part
       /\ f.resolution \in {p.resolution, Roi[t][p.request]}
       /\ f.resolution >= p.resolution /\ f.resolution >= Roi[t][p.request]

\* A completed export task has the parts of one answer in its GeoPackage, all
\* of them, whichever attempt before it failed or was killed while ogr2ogr was
\* overwriting the layer (exportJobHandler.ts l.37-45), as long as no live
\* worker is declared dead.
LayerExact ==
  \A t \in Tasks :
    status[t] = "COMPLETED" /\ timeouts = 0 =>
      \E parts \in Answers[t] : IsExact(t, parts, layer[t])

=============================================================================
