------------------------------- MODULE MCOps -------------------------------
(***************************************************************************)
(* Instances of OpsRepository for TLC: the jobs with an audit record each, *)
(* and one run of backup with what it has exported.                        *)
(***************************************************************************)
EXTENDS OpsRepository

CONSTANT run

JobsAndRun == Audit \cup {run}
=============================================================================
