----------------------------- MODULE MCReplica -----------------------------
(* An instance of Replica: the three pairs of an ingestion instance, the   *)
(* one of an export instance.                                              *)
EXTENDS Replica

MCTaskTypes == <<"validation">>

=============================================================================
