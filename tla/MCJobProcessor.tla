--------------------------- MODULE MCJobProcessor ---------------------------
(* Small instances of JobProcessor: two workers, two tasks of two job types *)
(* that are polled one after the other.                                     *)
EXTENDS JobProcessor, TLC

CONSTANTS w1, w2, t1, t2

MCJobTypes  == <<"new", "update">>
MCTaskTypes == <<"validation">>
MCKindOf    == t1 :> <<"new", "validation">> @@ t2 :> <<"update", "validation">>

WorkerSymmetry == Permutations({w1, w2})

=============================================================================
