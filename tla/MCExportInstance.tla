-------------------------- MODULE MCExportInstance --------------------------
(* A small instance of ExportInstance: two workers, one package that is     *)
(* there and one that is not, and parts finer and coarser than requested.   *)
EXTENDS ExportInstance, TLC

CONSTANTS w1, w2, t1, t2

MCJobTypes  == <<"export">>
MCTaskTypes == <<"polygon-parts", "validation">>
MCKindOf    == [t \in {t1, t2} |-> <<"export", "polygon-parts">>]

MCRoi == [t \in {t1, t2} |-> [r1 |-> 2, r2 |-> 5]]

Part(p, r, res) == [part |-> p, request |-> r, resolution |-> res]

MCAnswers ==
  t1 :> {{Part("p1", "r1", 1), Part("p2", "r1", 3), Part("p3", "r2", 3)},
         {Part("p1", "r1", 1), Part("p2", "unknown", 3)}}
  @@ t2 :> {{}}

WorkerSymmetry == Permutations({w1, w2})

=============================================================================
