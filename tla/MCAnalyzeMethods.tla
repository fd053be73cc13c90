-------------------------- MODULE MCAnalyzeMethods --------------------------
(* AnalyzeMethods on the instances of MCClassModel. *)
EXTENDS AnalyzeMethods, MCClassModel
=============================================================================
